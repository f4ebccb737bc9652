----------------------------- MODULE MCAppTable ------------------------------
(* AppTable with interchangeable clients, devices and applications.        *)
EXTENDS AppTable, TLC

Symmetry == Permutations(Client) \cup Permutations(Device) \cup Permutations(App)
==============================================================================
