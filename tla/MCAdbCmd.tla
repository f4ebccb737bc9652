------------------------------ MODULE MCAdbCmd -------------------------------
(* A small instance of AdbCmd: outputs of one unit more than fit a piece,
   listings that fit and that are crowded, space that is and is not printed. *)
EXTENDS AdbCmd

Device(id, state) == <<id, state>>

\* What "adb devices", "lsusb | grep -c", "getprop", "am startservice",
\* "dumpsys diskstats", "dumpsys battery" and "cat" of the list file print.
MCCommands == {
  [kind |-> "enum", text |-> <<Header, Device("a", "offline"), Device("b", "device"),
                               Device("c", "device"), Device("d", "device")>>],
  [kind |-> "enum", text |-> <<Header, Device("a", "offline"), Device("b", "device")>>],
  [kind |-> "enum", text |-> <<<<"* daemon started", "">>, Header>>],
  [kind |-> "count", text |-> <<<<"4", "">>, <<"0", "">>>>],
  [kind |-> "prop", text |-> <<<<"4", "">>, <<"2", "">>, CR>>],
  [kind |-> "disk", text |-> <<<<"Data-Free: ", "">>, <<"7", "">>, <<"K / ", "">>,
                               <<"8", "">>>>],
  [kind |-> "disk", text |-> <<<<"Data-Free: ", "">>, <<"7", "">>>>],
  [kind |-> "disk", text |-> <<<<"K / ", "">>, <<"8", "">>>>],
  [kind |-> "batt", text |-> <<<<"AC powered: ", "false">>, <<"USB powered: ", "true">>,
                               <<"level: ", "">>, <<"9", "">>>>],
  [kind |-> "apps", text |-> <<<<"3", "">>, <<"app", "a">>, <<"app", "b">>, <<"app", "c">>>>],
  [kind |-> "reply", text |-> <<<<"Starting service:", "">>, <<"no service started", "">>>>]
}
==============================================================================
