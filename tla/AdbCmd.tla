------------------------------- MODULE AdbCmd --------------------------------
(***************************************************************************)
(* The commands that the threads of the program run by starting a child    *)
(* process and reading what it writes: AdbCmd::Execute in its Linux and    *)
(* Windows builds, the pipes it makes, the child, which inherits every     *)
(* descriptor that is open in the program at the time, those of commands   *)
(* other threads are just starting included, the buffer the output is read *)
(* into piece by piece, and ProcessResult of the commands that parse it.   *)
(*                                                                         *)
(* The output is a sequence of units, pairs of strings, where the code has *)
(* characters: a read, and a piece of the buffer, is a number of units, so *)
(* that the output may be cut anywhere between two lines, two digits or    *)
(* two messages.                                                           *)
(***************************************************************************)
EXTENDS Integers, Sequences, FiniteSets, SequencesExt

CONSTANTS
  W,         \* the threads that execute commands: the workers of
             \* SmartDeviceAdb and the thread of AdbDeviceMon
  Buf,       \* sizeof(buf): 500
  MaxDev,    \* MAX_ADB_DEV_CNT: 128
  MaxApp,    \* MAX_APP_LIST_NUM
  Commands   \* [kind, text]: a kind of command and what its child may write

ASSUME SizesAssumption ==
  /\ Buf \in Nat \ {0, 1} /\ MaxDev \in Nat \ {0} /\ MaxApp \in Nat \ {0}
  /\ \A c \in Commands : c.text \in Seq(STRING \X STRING)

VARIABLES
  windows,   \* the build
  pc,        \* where each thread is in Execute
  cmd,       \* the command each thread executes
  held,      \* the ends of the pipes of its command, and the process, that
             \* the program holds open for each thread
  child,     \* the child of each thread's command
  writers,   \* the children that hold the write end of each command's output
  wrote,     \* how much each child has written
  got,       \* how much of it is in _biOutput
  room,      \* the size of _biOutput
  result     \* what each thread's last command returned

proc == <<pc, held, child, writers>>
io == <<wrote, got, room>>
cmdVars == <<windows, cmd, proc, io, result>>

In == {"inRd", "inWr"}
Out == {"outRd", "outWr"}

\* Linux makes the pipe of the child's input first, Windows that of its output.
First == IF windows THEN Out ELSE In
Second == IF windows THEN In ELSE Out

Ok == "ERROR_SUCCESS"
NoRoom == "assert(_tail <= _end)"
Failed == [code |-> "failed", ids |-> <<>>, num |-> 0]
None == [code |-> "none", ids |-> <<>>, num |-> 0]    \* nothing in _biResult
NoCommand == [kind |-> "none", text |-> <<>>]

CmdInit ==
  /\ windows \in BOOLEAN
  /\ pc = [w \in W |-> "idle"]
  /\ cmd = [w \in W |-> NoCommand]
  /\ held = [w \in W |-> {}]
  /\ child = [w \in W |-> "none"]
  /\ writers = [w \in W |-> {}]
  /\ wrote = [w \in W |-> 0] /\ got = [w \in W |-> 0] /\ room = [w \in W |-> 0]
  /\ result = [w \in W |-> None]

At(w, from, to) == pc[w] = from /\ pc' = [pc EXCEPT ![w] = to]
Opens(w, ends) == held' = [held EXCEPT ![w] = @ \cup ends]
Closes(w, ends) == held' = [held EXCEPT ![w] = @ \ ends]

------------------------------------------------------------------------------
(* CreateChildProcess.                                                     *)

\* BuildCmdline: any command may be next.
Execute(w) ==
  /\ At(w, "idle", "first")
  /\ \E c \in Commands : cmd' = [cmd EXCEPT ![w] = c]
  /\ UNCHANGED <<windows, held, child, writers, io, result>>

\* AdbCmdGetApkList does not look at what AdbCmd::Execute returns: it returns
\* ERROR_SUCCESS, and the list of applications has not even a header.
Failure(kind) == IF kind = "apps" THEN None ELSE Failed

\* CreateChildProcess fails: Execute returns its error.
Fails(w) == result' = [result EXCEPT ![w] = Failure(cmd[w].kind)]

FirstPipe(w) ==
  /\ \/ At(w, "first", "second") /\ Opens(w, First) /\ UNCHANGED result
     \/ At(w, "first", "done") /\ Fails(w) /\ UNCHANGED held
  /\ writers' = [writers EXCEPT ![w] = {}]
  /\ UNCHANGED <<windows, cmd, child, io>>

SecondPipe(w) ==
  /\ \/ At(w, "second", "fork") /\ Opens(w, Second)
     \/ At(w, "second", "err2") /\ UNCHANGED held
  /\ UNCHANGED <<windows, cmd, child, writers, io, result>>

\* The child has a copy of every write end that is open, its own or not.
Fork(w) ==
  /\ \/ /\ At(w, "fork", "close")
        /\ Opens(w, {"process"})
        /\ child' = [child EXCEPT ![w] = "running"]
        /\ writers' = [v \in W |->
             IF "outWr" \in held[v] THEN writers[v] \cup {w} ELSE writers[v]]
        /\ wrote' = [wrote EXCEPT ![w] = 0]
     \/ At(w, "fork", "err3") /\ UNCHANGED <<held, child, writers, wrote>>
  /\ UNCHANGED <<windows, cmd, got, room, result>>

Err3(w) ==
  /\ At(w, "err3", "err2")
  /\ Closes(w, Second)
  /\ UNCHANGED <<windows, cmd, child, writers, io, result>>

\* Mutant: only what the object remembers is closed, as Cleanup does.
Err2Partly(w) ==
  /\ At(w, "err2", "done")
  /\ Closes(w, {"outRd", "inWr"})
  /\ Fails(w)
  /\ UNCHANGED <<windows, cmd, child, writers, io>>

Err2(w) ==
  /\ At(w, "err2", "done")
  /\ Closes(w, First)
  /\ Fails(w)
  /\ UNCHANGED <<windows, cmd, child, writers, io>>

\* Mutant: the write end of the output stays open in the program.
CloseOne(w) ==
  /\ At(w, "close", "read")
  /\ Closes(w, {"inRd"})
  /\ got' = [got EXCEPT ![w] = 0] /\ room' = [room EXCEPT ![w] = Buf]
  /\ UNCHANGED <<windows, cmd, child, writers, wrote, result>>

\* The ends of the child, and Alloc at the start of ProcessChildOutput.
CloseChildEnds(w) ==
  /\ At(w, "close", "read")
  /\ Closes(w, {"inRd", "outWr"})
  /\ got' = [got EXCEPT ![w] = 0] /\ room' = [room EXCEPT ![w] = Buf]
  /\ UNCHANGED <<windows, cmd, child, writers, wrote, result>>

------------------------------------------------------------------------------
(* ProcessChildOutput and Cleanup.                                         *)

TailSize(w) == room[w] - got[w]

\* Mutant: the buffer is grown when the piece does not fit, not when there is
\* no room left for the zero behind it.
ExpandLate(w, n) == IF TailSize(w) < n THEN room[w] + Buf ELSE room[w]

Expand(w, n) == IF TailSize(w) <= n THEN room[w] + Buf ELSE room[w]

Pending(w) == wrote[w] - got[w]

\* A read returns what is there, and less than Buf; Expand, Put.
ReadPiece(w) ==
  /\ pc[w] = "read" /\ Pending(w) > 0
  /\ LET n == IF Pending(w) < Buf THEN Pending(w) ELSE Buf - 1 IN
       /\ got' = [got EXCEPT ![w] = @ + n]
       /\ room' = [room EXCEPT ![w] = Expand(w, n)]
  /\ UNCHANGED <<windows, cmd, proc, wrote, result>>

\* Mutant: an empty pipe is taken for the end of the output.
ReadEmpty(w) ==
  /\ Pending(w) = 0
  /\ At(w, "read", "cleanup")
  /\ UNCHANGED <<windows, cmd, held, child, writers, io, result>>

\* The end: the pipe is empty and nobody has its write end open.
ReadEnd(w) ==
  /\ Pending(w) = 0 /\ writers[w] = {} /\ "outWr" \notin held[w]
  /\ At(w, "read", "cleanup")
  /\ UNCHANGED <<windows, cmd, held, child, writers, io, result>>

CleanupPipes(w) ==
  /\ At(w, "cleanup", "reap")
  /\ Closes(w, {"outRd", "inWr"})
  /\ UNCHANGED <<windows, cmd, child, writers, io, result>>

\* waitpid; Windows only closes its handle of the process.
CleanupChild(w) ==
  /\ windows \/ child[w] = "exited"
  /\ At(w, "reap", "process")
  /\ Closes(w, {"process"})
  /\ child' = [child EXCEPT ![w] = "none"]
  /\ UNCHANGED <<windows, cmd, writers, io, result>>

------------------------------------------------------------------------------
(* ProcessResult.                                                          *)

Header == <<"List of devices attached", "">>

\* BufferItem::Put of one more record into a result with room for MaxDev. If
\* there is none, the build with assertions ends here; the one without goes on
\* with a result that says it is larger than its room.
PutRecord(r) == [r EXCEPT !.num = @ + 1, !.code = IF r.num < MaxDev THEN @ ELSE NoRoom]

\* AdbCmdEnumDev: each line puts its name into the next record, which is kept
\* if the line ends in "device"; the loop ends with the record MaxDev. Every
\* line has room put for it in the result.
EnumLine(r, line) ==
  IF Len(r.ids) = MaxDev THEN r
  ELSE PutRecord([r EXCEPT !.ids = IF line[2] = "device" THEN Append(@, line[1]) ELSE @])

EnumDev(text) ==
  IF text = <<>> \/ Head(text) # Header
    THEN [code |-> "ERROR_NOT_SUPPORTED", ids |-> <<>>, num |-> 0]
    ELSE FoldLeft(EnumLine, [code |-> Ok, ids |-> <<>>, num |-> 0], Tail(text))

\* ParseDWord: the digits from position i on, none of a number with a leading
\* zero, and the position behind them; the numbers are far from the 2^32 where
\* the code wraps.
Digit == [d \in {"0", "1", "2", "3", "4", "5", "6", "7", "8", "9"} |->
            CHOOSE i \in 0..9 : ToString(i) = d]

Skip(text, i) ==
  LET j == CHOOSE j \in i..Len(text) + 1 :
             /\ \A k \in i..j - 1 : text[k][1] \in DOMAIN Digit
             /\ j = Len(text) + 1 \/ text[j][1] \notin DOMAIN Digit
  IN IF j > i + 1 /\ text[i][1] = "0" THEN i ELSE j

NumberAt(text, i) ==
  LET rdw[k \in i - 1..Len(text)] ==
        IF k < i THEN 0 ELSE rdw[k - 1] * 10 + Digit[text[k][1]]
  IN rdw[Skip(text, i) - 1]

\* ExtCmdCountStr.
CountStr(text) == [code |-> Ok, ids |-> <<>>, num |-> NumberAt(text, 1)]

\* AdbCmdGetDiskInfo and AdbCmdGetBattInfo look for words one behind the
\* other; what is not there is nothing, or off.
Pos(text, word, from) == SelectInSubSeq(text, from, Len(text), LAMBDA u : u[1] = word)

\* The number behind position i, if something was found there.
Behind(text, i) == IF i = 0 THEN 0 ELSE NumberAt(text, i + 1)

DiskInfo(text) ==
  LET free == Pos(text, "Data-Free: ", 1)
      next == Skip(text, free + 1)
      total == IF free > 0 /\ next <= Len(text) /\ text[next][1] = "K / "
                 THEN next ELSE 0
  IN [code |-> Ok, ids |-> <<Behind(text, total)>>, num |-> Behind(text, free)]

BattInfo(text) ==
  LET ac == Pos(text, "AC powered: ", 1)
      usb == Pos(text, "USB powered: ", ac + 1)
      level == Pos(text, "level: ", (IF usb > ac THEN usb ELSE ac) + 1)
  IN [code |-> Ok,
      ids |-> <<\E i \in {ac, usb} \ {0} : text[i][2] = "true">>,
      num |-> Behind(text, level) % 2^8]

\* AdbCmdGetApkList: the number of applications, and a line for each; the
\* icons are fetched by further commands.
AppList(text) ==
  LET count == IF NumberAt(text, 1) < MaxApp THEN NumberAt(text, 1) ELSE MaxApp
      lines == SelectSeq(text, LAMBDA u : u[1] = "app")
      n == IF count < Len(lines) THEN count ELSE Len(lines)
  IN [code |-> Ok, ids |-> [i \in 1..n |-> lines[i][2]], num |-> n]

\* AdbCmdGetProp and ParseUnquotedString: up to the first carriage return,
\* nothing if there is none, an empty string after an error.
CR == <<"\r", "">>
Error == <<"error", "">>

GetProp(text) ==
  LET has(u) == \E i \in DOMAIN text : text[i] = u
      end == SelectInSeq(text, LAMBDA u : u = CR)
  IN IF has(Error) THEN [code |-> Ok, ids |-> <<>>, num |-> 1]
     ELSE IF has(CR) THEN [code |-> Ok, ids |-> SubSeq(text, 1, end - 1), num |-> end]
     ELSE None

\* ADB_CMD_RET_MAP.
RetMap == <<
  <<"Success", Ok>>,
  <<"can't find", "ERROR_NOT_FOUND">>,
  <<"does not exist", "ERROR_NOT_FOUND">>,
  <<"No such file or directory", "ERROR_NOT_FOUND">>,
  <<"device not found", "ERROR_NOT_CONNECTED">>,
  <<"device offline", "ERROR_NOT_CONNECTED">>,
  <<"Permission denied", "ERROR_ACCESS_DENIED">>,
  <<"INSTALL_FAILED_ALREADY_EXISTS", "ERROR_ALREADY_EXISTS">>,
  <<"no service started", "ERROR_NOT_READY">>,
  <<"Can't connect to activity manager", "ERROR_NOT_READY">>,
  <<"Could not access the Package Manager", "ERROR_NOT_READY">>,
  <<"bytes in", Ok>>,
  <<"Starting service:", Ok>> >>

\* AdbCmd::ProcessResult: the first entry of the map that is anywhere in the
\* output.
Reply(text) ==
  LET i == SelectInSeq(RetMap, LAMBDA e : \E j \in DOMAIN text : text[j][1] = e[1])
  IN [code |-> IF i = 0 THEN "ERROR_NOT_SUPPORTED" ELSE RetMap[i][2],
      ids |-> <<>>, num |-> 0]

Parsed(kind, text) ==
  CASE kind = "enum" -> EnumDev(text)
    [] kind = "count" -> CountStr(text)
    [] kind = "disk" -> DiskInfo(text)
    [] kind = "batt" -> BattInfo(text)
    [] kind = "apps" -> AppList(text)
    [] kind = "prop" -> GetProp(text)
    [] kind = "reply" -> Reply(text)

ProcessResult(w) ==
  /\ At(w, "process", "done")
  /\ \E output \in {SubSeq(cmd[w].text, 1, got[w])} :
       result' = [result EXCEPT ![w] = Parsed(cmd[w].kind, output)]
  /\ UNCHANGED <<windows, cmd, held, child, writers, io>>

\* GetResult, and the command is over.
GetResult(w) ==
  /\ At(w, "done", "idle")
  /\ cmd' = [cmd EXCEPT ![w] = NoCommand]
  /\ wrote' = [wrote EXCEPT ![w] = 0]
  /\ got' = [got EXCEPT ![w] = 0] /\ room' = [room EXCEPT ![w] = 0]
  /\ result' = [result EXCEPT ![w] = None]
  /\ UNCHANGED <<windows, held, child, writers>>

------------------------------------------------------------------------------
(* The child, a process of its own.                                        *)

ChildWrite(w) ==
  /\ child[w] = "running" /\ wrote[w] < Len(cmd[w].text)
  /\ wrote' = [wrote EXCEPT ![w] = @ + 1]
  /\ UNCHANGED <<windows, cmd, proc, got, room, result>>

ChildExit(w) ==
  /\ child[w] = "running" /\ wrote[w] = Len(cmd[w].text)
  /\ child' = [child EXCEPT ![w] = "exited"]
  /\ writers' = [v \in W |-> writers[v] \ {w}]
  /\ UNCHANGED <<windows, cmd, pc, held, io, result>>

------------------------------------------------------------------------------

Step(w) ==
  \/ FirstPipe(w) \/ SecondPipe(w) \/ Fork(w) \/ Err3(w) \/ Err2(w)
  \/ CloseChildEnds(w) \/ ReadPiece(w) \/ ReadEnd(w)
  \/ CleanupPipes(w) \/ CleanupChild(w) \/ ProcessResult(w) \/ GetResult(w)

ChildStep(w) == ChildWrite(w) \/ ChildExit(w)

CmdNext == \E w \in W : Execute(w) \/ Step(w) \/ ChildStep(w)

CmdSpec == CmdInit /\ [][CmdNext]_cmdVars

\* The threads run, and what adb is asked to do ends.
CmdFairSpec == CmdSpec /\ \A w \in W : WF_cmdVars(Step(w)) /\ WF_cmdVars(ChildStep(w))

------------------------------------------------------------------------------
(* Properties.                                                             *)

CmdTypeOK ==
  /\ windows \in BOOLEAN
  /\ pc \in [W -> {"idle", "first", "second", "fork", "err3", "err2", "close", "read",
                   "cleanup", "reap", "process", "done"}]
  /\ cmd \in [W -> Commands \cup {NoCommand}]
  /\ held \in [W -> SUBSET (In \cup Out \cup {"process"})]
  /\ child \in [W -> {"none", "running", "exited"}]
  /\ writers \in [W -> SUBSET W]
  /\ wrote \in [W -> Nat] /\ got \in [W -> Nat] /\ room \in [W -> Nat]

\* When a thread is done with a command, however it ended, the program has none
\* of its descriptors open and no dead child to wait for: the three error
\* exits of CreateChildProcess and Cleanup each undo a different part.
NothingLeaks == \A w \in W : pc[w] = "done" => held[w] = {} /\ child[w] = "none"

\* The output is taken in whole and stays inside _biOutput: every piece is copied
\* with a zero behind it, and one more is put when the output ends, whatever the
\* sizes of the pieces; and what ProcessResult was given is all the child wrote,
\* not what happened to be there, though other threads' children hold the pipe.
OutputWhole ==
  \A w \in W :
    /\ pc[w] \in {"read", "cleanup"} => got[w] + 1 <= room[w]
    /\ pc[w] = "done" /\ result[w] # Failure(cmd[w].kind) =>
         result[w] = Parsed(cmd[w].kind, cmd[w].text)

\* The units from first to last are the digits of n.
IsNumber(text, first, last, n) ==
  /\ n < 10^(last + 1 - first)
  /\ \A i \in first..last :
       text[i][1] \in DOMAIN Digit /\ Digit[text[i][1]] = (n \div 10^(last - i)) % 10

\* n is the number printed behind a word, zero if there is none.
Prints(text, word, n) ==
  IF \A i \in DOMAIN text : text[i][1] # word THEN n = 0
  ELSE \E i, last \in DOMAIN text :
         /\ text[i][1] = word /\ i <= last /\ IsNumber(text, i + 1, last, n)
         /\ last = Len(text) \/ text[last + 1][1] \notin DOMAIN Digit

\* A listing of devices has no room for all that is read of it: there are
\* lines behind the first MaxDev, and one of these is no device.
Crowded(lines) == Len(lines) > MaxDev /\ \E i \in 1..MaxDev : lines[i][2] # "device"

\* What a command returns is what all the child wrote says, in whatever
\* pieces it came and whatever other children inherited: the names of the
\* devices that are online in their order, and the assertion of Put (BufferItem.cpp:88)
\* holds but for a crowded listing; the number that was counted; the value of the
\* property; the free space printed and the total behind it, zero where there is
\* none (DevTableMod.cpp:249 subtracts them); charging if on any supply, and the
\* level; the applications up to MaxApp; and a device that refused to start the
\* service is not reported to have started it (GlobalDef.h:178).
ResultRight ==
  \A w \in W : pc[w] = "done" /\ result[w] # Failure(cmd[w].kind) =>
    LET text == cmd[w].text
        online == SelectSeq(text, LAMBDA u : u[2] = "device")
        apps == SelectSeq(text, LAMBDA u : u[1] = "app")
        words == {text[i][1] : i \in DOMAIN text}
        ret == result[w]
    IN CASE cmd[w].kind = "enum" ->
              IF text = <<>> \/ Head(text) # Header
                THEN ret.code = "ERROR_NOT_SUPPORTED"
                ELSE /\ ret.code = IF Crowded(Tail(text)) THEN NoRoom ELSE Ok
                     /\ ret.ids = [i \in 1..IF Len(online) < MaxDev THEN Len(online)
                                             ELSE MaxDev |-> online[i][1]]
         [] cmd[w].kind = "count" -> IsNumber(text, 1, Len(text), ret.num)
         [] cmd[w].kind = "prop" ->
              Error[1] \notin words => Append(ret.ids, CR) = text
         [] cmd[w].kind = "disk" ->
              /\ Prints(text, "Data-Free: ", ret.num)
              /\ IF "Data-Free: " \in words THEN Prints(text, "K / ", ret.ids[1])
                                          ELSE ret.ids[1] = 0
         [] cmd[w].kind = "batt" ->
              /\ ret.ids[1] <=> \E i \in DOMAIN text : text[i][2] = "true"
              /\ Prints(text, "level: ", ret.num)
         [] cmd[w].kind = "apps" ->
              ret.ids = [i \in 1..IF ret.num < MaxApp THEN ret.num ELSE MaxApp
                           |-> apps[i][2]] /\ (ret.num = Len(apps) \/ ret.num = MaxApp)
         [] cmd[w].kind = "reply" ->
              ret.code = Ok => "Success" \in words \/ "no service started" \notin words

\* A command that was started ends once its child has, although the children
\* of other threads may hold its output open as well.
CommandEnds == \A w \in W : []<>(pc[w] = "idle")
==============================================================================
