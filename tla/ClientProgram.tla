---------------------------- MODULE ClientProgram ----------------------------
(***************************************************************************)
(* The client program (src/src/client.c): which functions of the client    *)
(* library one run of it calls, and in which order, for a command line.    *)
(*                                                                         *)
(* A command line is the sequence of arguments getopt finds: an option,    *)
(* how many names it was given, and the number that was written after it.  *)
(* parseArgs makes a list of actions of it, each with its option and one   *)
(* number.  What is found on the disk is any choice, so that one command   *)
(* line stands for a set of sequences of calls.  The results of the calls  *)
(* are only printed: no call depends on one before.                        *)
(***************************************************************************)
EXTENDS Integers, SequencesExt

Option == {"f", "w", "W", "r", "R", "d", "t", "c", "p"}
Argument == [opt : Option \cup {"h", "?", ":"}, names : Nat, num : Nat]
Action == [op : Option, n : Nat]

\* initAction: -W, -r and -c copy their names, -w, -R and -t keep the number
\* (0 for a -w without one), -f, -d and -p have none.
InitAction(arg) ==
  [op |-> arg.opt,
   n  |-> CASE arg.opt \in {"W", "r", "c"} -> arg.names
            [] arg.opt \in {"w", "R", "t"} -> arg.num
            [] OTHER                       -> 0]

\* parseArgs: help, unknown options and those without their argument add nothing.
ParseArgs(args) ==
  LET known == SelectSeq(args, LAMBDA arg : arg.opt \in Option)
  IN  [i \in DOMAIN known |-> InitAction(known[i])]

\* lookup
Given(line, op) == \E i \in DOMAIN line : line[i].op = op

Times(n, calls) == FlattenSeq([i \in 1..n |-> calls])

\* -w: at most n files of the directory, up to one whose size cannot be had.
\* Without a number no file is sent.
Directory(n) == {Times(k, <<"openFile", "writeFile">>) : k \in 0..n}

\* -r: a file that cannot be stored below the directory of -d ends the loop.
Names(n, stored) ==
  LET read(k) == Times(k, <<"openFile", "readFile">>)
  IN  {read(n)} \cup (IF stored THEN {read(k) : k \in 1..n} ELSE {})

\* What one action calls, where the directory of a -w is there.
Plain(a, stored) ==
  CASE a.op = "w" -> Directory(a.n)
    [] a.op = "W" -> {Times(a.n, <<"openFile", "writeFile">>)}
    [] a.op = "r" -> Names(a.n, stored)
    [] a.op = "c" -> {Times(a.n, <<"removeFile">>)}
    [] a.op = "R" -> {<<"readNFiles">>}
    [] OTHER      -> {<<>>}

\* main: the actions in their order, then closeConnection.  Without any action
\* lookup ends the program before it connects.  A sequence that does not end with
\* closeConnection is that of a program that crashes: -R reads the action
\* of -d without a test that there is one.  Where the directory of a -w cannot
\* be opened the program goes on in the middle with the action that follows, as
\* if that were the -w, and past it.
CallsOf(line) ==
  LET stored == Given(line, "d")
      calls[i \in 1..Len(line) + 1] ==
        IF i > Len(line) THEN {<<"closeConnection">>}
        ELSE LET then(here, next) == {s \o t : s \in here, t \in next}
             IN  IF line[i].op = "R" /\ ~stored THEN {<<>>}
                 ELSE then(Plain(line[i], stored), calls[i + 1])
                      \cup (IF line[i].op # "w" THEN {}
                            ELSE IF i = Len(line) THEN {<<>>}
                            ELSE then(IF line[i + 1].op = "w" THEN Directory(line[i + 1].n) ELSE {<<>>},
                                      calls[i + 2]))
  IN  IF line = <<>> THEN {<<>>} ELSE calls[1]

=============================================================================
