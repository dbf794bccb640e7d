------------------------------ MODULE Protocol ------------------------------
(***************************************************************************)
(* One connection: the dialogue between a client program and the server,   *)
(* as the client library (src/src/clientutils.c) and the threads of the    *)
(* server (client_thread and worker_thread of src/src/server.c) hold it    *)
(* with the numbers and messages of src/src/prot.c.                        *)
(*                                                                         *)
(* Two threads of the server share the socket: the client thread reads     *)
(* requests and sends answers, and a worker exchanges data in between.     *)
(* What the worker finds in the store is any choice, as other connections  *)
(* change the store at any moment.                                         *)
(*                                                                         *)
(* A number on the wire carries what it was sent as.  The code reads only  *)
(* its value: a reader that takes it for something else goes on with that  *)
(* value.  Where a number is cut out of the bytes of a message the run     *)
(* ends as "garbled", where freed memory is used as "undefined".           *)
(***************************************************************************)
EXTENDS Integers, Sequences

CONSTANTS
  Programs,   \* what client programs call, one sequence of library calls each
  Sizes,      \* lengths of files, the client's and those in the store
  MaxMemory,  \* configFile.max_memory: what is longer is refused
  MaxFiles,   \* bound: files in the store
  Counts,     \* numbers of files readNFiles is called with
  NameLengths, \* lengths of file names with their ends
  MaxName,    \* utils.h: a name with its end is no longer than this
  Garbage,    \* numbers recv_number may return once the client is gone
  HangsUp     \* whether a client may go away in the middle

\* prot.h
Code == [openFile |-> 5, closeFile |-> 6, readFile |-> 7, writeFile |-> 8,
         readNFiles |-> 9, appendToFile |-> 10, removeFile |-> 11, closeConnection |-> 12]
Calls == DOMAIN Code
O_CREATE == 1
OK == 1
NOT_OK == 0
INITED == 291
CONTINUE == 801
NO_CONTINUE == 1074
Errno == [ENOENT |-> 2, E2BIG |-> 7, EACCES |-> 13, EFAULT |-> 14, EEXIST |-> 17,
          ENODATA |-> 61, ENONET |-> 64]

ASSUME ProtocolAssumption ==
  /\ Programs \subseteq Seq(Calls)
  /\ Sizes \subseteq Nat
  /\ MaxMemory \in Nat
  /\ MaxFiles \in Nat
  /\ Counts \subseteq Nat
  /\ NameLengths \subseteq Nat \ {0}
  /\ MaxName \in Nat
  /\ Garbage \subseteq Nat
  /\ HangsUp \in BOOLEAN

VARIABLES
  program,  \* the calls still to be made
  call,     \* the library function that runs, "none" between two, "gone" at the end
  script,   \* what that function still receives, sends and does
  local,    \* its variables: size of the file, length of a message, files left, status
  result,   \* what the last call returned, with errno
  toServer, \* the socket, one sequence per direction
  toClient,
  thread,   \* the client thread: what it does, and the request it reads
  job,      \* the job of the last request
  answers,  \* nodes of the job in queue_of_response
  stale,    \* whether nodes of a freed job are left in queue_of_response
  worker,   \* the worker that has the job
  strayed,  \* the ways in which the two sides have come apart
  run       \* "running", "exited", "undefined" or "garbled"

clientVars == <<program, call, script, local, result>>
serverVars == <<thread, job, answers, stale, worker>>
vars == <<program, call, script, local, result, toServer, toClient,
          thread, job, answers, stale, worker, strayed, run>>

-----------------------------------------------------------------------------
(* The wire.                                                               *)

Number(as, v) == [as |-> as, val |-> v]

\* send_message: the length, then the bytes.
Message(n) == <<Number("length", n)>> \o (IF n = 0 THEN <<>> ELSE <<Number("bytes", n)>>)

\* get_resp
GetResp == <<"status", "error">>

\* What each library function does after send_req.
Script ==
  [openFile |-> GetResp, closeFile |-> GetResp, removeFile |-> GetResp,
   closeConnection |-> GetResp,
   readFile |-> <<"continue", "continue", "size", "length", "bytes">> \o GetResp,
   writeFile |-> <<"continue", "sendSize", "continue", "sendFile", "continue">> \o GetResp,
   appendToFile |-> <<"continue", "sendBoth">> \o GetResp,
   readNFiles |-> <<"count", "continue", "length", "bytes", "size">> \o GetResp]

Steps == {"status", "error", "continue", "size", "length", "bytes", "count",
          "sendSize", "sendFile", "sendBoth", "readForever"}

NoLocal == [size |-> 0, length |-> 0, files |-> 0, status |-> 0]
\* The threads with none of their variables in use.
Reads(what) == [wants |-> what, op |-> 0, length |-> 0, null |-> FALSE]
At(pc) == [pc |-> pc, size |-> 0, length |-> 0, left |-> 0]
NoJob == [op |-> 0, flags |-> 0, status |-> INITED, err |-> INITED]

Init ==
  /\ program \in Programs
  /\ call = "none"
  /\ script = <<>>
  /\ local = NoLocal
  /\ result = [status |-> OK, errno |-> 0]
  /\ toServer = <<>>
  /\ toClient = <<>>
  /\ thread = Reads("op")
  /\ job = NoJob
  /\ answers = 0
  /\ stale = FALSE
  /\ worker = At("idle")
  /\ strayed = {}
  /\ run = "running"

-----------------------------------------------------------------------------
(* The client library.                                                     *)

Running == run = "running"

\* The library function does this next.
Doing(step) == Running /\ script # <<>> /\ Head(script) = step

\* recv_number on the client's side: the next number has arrived.
Arrives(step) == Doing(step) /\ toClient # <<>> /\ Head(toClient).as # "bytes"
Value == Head(toClient).val

ClientReads(next) ==
  /\ script' = next
  /\ toClient' = Tail(toClient)
  /\ UNCHANGED <<program, call, toServer, serverVars, run>>

ClientSends(next, items) ==
  /\ script' = next
  /\ toServer' = toServer \o items
  /\ UNCHANGED <<program, call, result, toClient, serverVars, run>>

Strays(way) == strayed' = strayed \cup {way}

\* The function returns without a word to the server.
GivesUp ==
  /\ script' = <<>>
  /\ call' = "none"
  /\ result' = [status |-> -1, errno |-> 0]
  /\ UNCHANGED <<program, local, toServer, toClient, serverVars, run>>

\* The text of a request is a name the user chose, however long, or a short
\* text where the request is about no file.
Texts(c) == {n \in NameLengths : c \in {"readNFiles", "closeConnection"} => n <= MaxName}

\* send_req of the next call of the program.  The three parts go out in
\* a row; only the server's threads take them, one by one.
Call ==
  /\ Running /\ call = "none" /\ program # <<>>
  /\ LET c == Head(program)
     IN  \E n \in Texts(c),
            flags \in CASE c = "readNFiles" -> Counts
                        [] c = "openFile"   -> {0, O_CREATE}
                        [] OTHER            -> {0} :
           /\ toServer' = toServer \o <<Number("op", Code[c])>> \o Message(n)
                                   \o <<Number("flags", flags)>>
           /\ call' = c
           /\ script' = Script[c]
  /\ program' = Tail(program)
  /\ local' = NoLocal
  /\ UNCHANGED <<result, toClient, serverVars, strayed, run>>

\* can_continue_function: anything but CONTINUE sends the function to its end.
ClientContinue ==
  /\ Arrives("continue")
  /\ ClientReads(IF Value = CONTINUE THEN Tail(script) ELSE GetResp)
  /\ UNCHANGED <<local, result, strayed>>

\* readNFiles takes a count of zero for an answer.
ClientCount ==
  /\ Arrives("count")
  /\ IF Value = 0
     THEN /\ script' = <<>>
          /\ call' = "none"
          /\ result' = [status |-> NOT_OK, errno |-> 0]
          /\ toClient' = Tail(toClient)
          /\ UNCHANGED <<program, local, toServer, serverVars, run>>
     ELSE /\ ClientReads(Tail(script))
          /\ local' = [local EXCEPT !.files = Value]
          /\ UNCHANGED result
  /\ UNCHANGED strayed

\* recv_message
ClientLength ==
  /\ Arrives("length")
  /\ ClientReads(IF Value = 0 THEN Tail(Tail(script)) ELSE Tail(script))
  /\ local' = [local EXCEPT !.length = Value]
  /\ UNCHANGED <<result, strayed>>

ClientBytes ==
  /\ Doing("bytes") /\ toClient # <<>> /\ Head(toClient) = Number("bytes", local.length)
  /\ ClientReads(Tail(script))
  /\ UNCHANGED <<local, result, strayed>>

\* Mutant of NextFile: the loop of readNFiles runs one file too far.
OneFileMore == IF local.files > 0 THEN <<"length", "bytes", "size">> \o Tail(script) ELSE Tail(script)

\* The loop of readNFiles.
NextFile == IF local.files > 1 THEN <<"length", "bytes", "size">> \o Tail(script) ELSE Tail(script)

\* The size readFile prints, or that of a file of readNFiles.  Where that one
\* cannot be stored the loop breaks and leaves the other files unread.
ClientSize ==
  /\ Arrives("size")
  /\ local' = [local EXCEPT !.size = Value, !.files = IF @ = 0 THEN 0 ELSE @ - 1]
  /\ \/ /\ ClientReads(NextFile)
        /\ UNCHANGED strayed
     \/ /\ call = "readNFiles" /\ Value # 0
        /\ ClientReads(Tail(script))
        /\ IF local.files > 1 THEN Strays("break in readNFiles") ELSE UNCHANGED strayed
  /\ UNCHANGED result

\* writeFile asks for the size of its file, which may be gone.
ClientSendSize ==
  /\ Doing("sendSize")
  /\ \/ \E n \in Sizes :
          /\ ClientSends(Tail(script), <<Number("size", n)>>)
          /\ local' = [local EXCEPT !.size = n]
          /\ UNCHANGED strayed
     \/ GivesUp /\ Strays("return in writeFile")

\* Mutant of FileContent: the length with the byte that ends a string.
FileContentAndEnd == Message(local.size + 1)

FileContent == Message(local.size)

\* writeFile opens and reads its file.  The loop until feof never ends when
\* there is nothing to read.
ClientSendFile ==
  /\ Doing("sendFile")
  /\ \/ /\ local.size # 0
        /\ ClientSends(Tail(script), FileContent)
        /\ UNCHANGED <<local, strayed>>
     \/ /\ local.size = 0
        /\ ClientSends(<<"readForever">>, <<>>)
        /\ Strays("empty file in writeFile")
        /\ UNCHANGED local
     \/ GivesUp /\ Strays("return in writeFile")

\* appendToFile does not wait between the size and the data.
ClientSendBoth ==
  /\ Doing("sendBoth")
  /\ \E n \in Sizes :
       /\ ClientSends(Tail(script), <<Number("size", n)>> \o Message(n))
       /\ local' = [local EXCEPT !.size = n]
  /\ UNCHANGED strayed

\* get_resp.  A success with an error number is -1.  closeConnection closes
\* the socket, or else the program ends without: then the kernel does.
ClientStatus ==
  /\ Arrives("status")
  /\ ClientReads(Tail(script))
  /\ local' = [local EXCEPT !.status = Value]
  /\ UNCHANGED <<result, strayed>>

ClientError ==
  /\ Arrives("error")
  /\ script' = <<>>
  /\ call' = IF call = "closeConnection" THEN "gone" ELSE "none"
  /\ result' = [status |-> IF local.status = OK /\ Value # 0 THEN -1 ELSE local.status,
                errno |-> Value]
  /\ toClient' = Tail(toClient)
  /\ UNCHANGED <<program, local, toServer, serverVars, strayed, run>>

\* The client program is killed, wherever it is, in the loop that never ends
\* too.  What it has sent can still be read, or a part of it when it was sending.
HangUp ==
  /\ HangsUp /\ Running /\ call # "gone"
  /\ call' = "gone"
  /\ script' = <<>>
  /\ \E k \in 0..Len(toServer) : toServer' = SubSeq(toServer, 1, k)
  /\ Strays("hang-up")
  /\ UNCHANGED <<program, local, result, toClient, serverVars, run>>

\* The program comes to its end, or crashes, without closeConnection.
ProgramEnds ==
  /\ Running /\ call = "none" /\ program = <<>>
  /\ call' = "gone"
  /\ Strays("hang-up")
  /\ UNCHANGED <<program, script, local, result, toServer, toClient, serverVars, run>>

ClientStep ==
  \/ Call \/ ClientContinue \/ ClientCount \/ ClientLength \/ ClientBytes \/ ClientSize
  \/ ClientSendSize \/ ClientSendFile \/ ClientSendBoth \/ ClientStatus \/ ClientError
  \/ ProgramEnds

-----------------------------------------------------------------------------
(* recv_number and recv_message on the server's side.  When the client is  *)
(* gone recv returns 0 and recv_number what was on its stack.              *)

AtEnd == toServer = <<>> /\ call = "gone"

\* Mutant of Numbers: recv_number tries again at the end of the stream.
NumbersOfLiving ==
  IF toServer # <<>> /\ Head(toServer).as # "bytes" THEN {Head(toServer).val} ELSE {}

Numbers ==
  IF AtEnd THEN Garbage
  ELSE IF toServer # <<>> /\ Head(toServer).as # "bytes" THEN {Head(toServer).val} ELSE {}

Unread == IF toServer = <<>> THEN <<>> ELSE Tail(toServer)

\* The bytes of a message are there, or the stream ends before them.
Complete(n) == toServer # <<>> /\ Head(toServer) = Number("bytes", n)

-----------------------------------------------------------------------------
(* client_thread.                                                          *)

ThreadWants(what) == Running /\ thread.wants = what

ThreadOp ==
  /\ ThreadWants("op")
  /\ \E v \in Numbers : thread' = [thread EXCEPT !.wants = "length", !.op = v, !.null = FALSE]
  /\ toServer' = Unread
  /\ UNCHANGED <<clientVars, toClient, job, answers, stale, worker, strayed, run>>

\* A length cut out of a garbage number may be more than safe_malloc can get.
ThreadLength ==
  /\ ThreadWants("length")
  /\ \E v \in Numbers :
       /\ thread' = [thread EXCEPT !.wants = IF v = 0 THEN "flags" ELSE "bytes", !.length = v]
       /\ run' \in IF AtEnd /\ v # 0 THEN {"running", "exited"} ELSE {"running"}
  /\ toServer' = Unread
  /\ UNCHANGED <<clientVars, toClient, job, answers, stale, worker, strayed>>

ThreadBytes ==
  /\ ThreadWants("bytes")
  /\ Complete(thread.length) \/ AtEnd
  /\ thread' = [thread EXCEPT !.wants = "flags", !.null = AtEnd]
  /\ toServer' = Unread
  /\ UNCHANGED <<clientVars, toClient, job, answers, stale, worker, strayed, run>>

\* With the flags the request is complete: without a name it is dropped, else
\* it becomes a job, which a worker takes.  Of a name that does not fit jobInit
\* makes none, and push_node_in_worklist ends the whole server.  (A name of no
\* bytes is what happens to be in the memory it was not read into.)
ThreadFlags ==
  /\ ThreadWants("flags")
  /\ toServer' = Unread
  /\ \E v \in Numbers :
       \/ /\ thread.null
          /\ thread' = Reads("op")
          /\ UNCHANGED <<job, worker, run>>
       \/ /\ ~thread.null /\ thread.length <= MaxName
          /\ thread' = Reads("answer")
          /\ job' = [op |-> thread.op, flags |-> v, status |-> INITED, err |-> INITED]
          /\ worker' = [worker EXCEPT !.pc = "start"]
          /\ UNCHANGED run
       \/ /\ ~thread.null /\ (thread.length > MaxName \/ thread.length = 0)
          /\ run' = "exited"
          /\ UNCHANGED <<thread, job, worker>>
  /\ UNCHANGED <<clientVars, toClient, answers, stale, strayed>>

ThreadGoesOn(next) ==
  /\ thread' = [thread EXCEPT !.wants = next]
  /\ UNCHANGED <<clientVars, toServer, worker, strayed>>

\* pop_element_from_tail of queue_of_response.
ThreadAnswer ==
  /\ ThreadWants("answer") /\ ~stale /\ answers > 0
  /\ answers' = answers - 1
  /\ ThreadGoesOn("status")
  /\ UNCHANGED <<toClient, job, stale, run>>

\* A node that an earlier request left there points to a freed job.
ThreadAnswerFreed ==
  /\ ThreadWants("answer") /\ stale
  /\ run' = "undefined"
  /\ UNCHANGED <<clientVars, toServer, toClient, serverVars, strayed>>

\* send_response: a send that fails is only logged.
Reply(as, v) == toClient' = IF call = "gone" THEN toClient ELSE Append(toClient, Number(as, v))

ThreadStatus ==
  /\ ThreadWants("status")
  /\ Reply("status", job.status)
  /\ ThreadGoesOn("error")
  /\ UNCHANGED <<job, answers, stale, run>>

ThreadError ==
  /\ ThreadWants("error")
  /\ Reply("error", job.err)
  /\ ThreadGoesOn("free")
  /\ UNCHANGED <<job, answers, stale, run>>

\* The job is freed and the next request is read.  A worker that is still at
\* work on it goes on with freed memory.
ThreadFree ==
  /\ ThreadWants("free")
  /\ IF worker.pc \in {"idle", "left"} THEN UNCHANGED run ELSE run' = "undefined"
  /\ stale' = (stale \/ answers > 0)
  /\ answers' = 0
  /\ ThreadGoesOn(IF job.op = Code["closeConnection"] THEN "ended" ELSE "op")
  /\ UNCHANGED <<toClient, job>>

ThreadStep ==
  \/ ThreadOp \/ ThreadLength \/ ThreadBytes \/ ThreadFlags \/ ThreadAnswer
  \/ ThreadAnswerFreed \/ ThreadStatus \/ ThreadError \/ ThreadFree

-----------------------------------------------------------------------------
(* worker_thread.                                                          *)

WorkerAt(pc) == Running /\ worker.pc = pc
WorkerOn(f) == WorkerAt("start") /\ job.op = Code[f]

\* send_number and send_message: to a client that is gone they end the server.
Sends(items) ==
  IF call = "gone" THEN run' = "exited" /\ UNCHANGED toClient
  ELSE toClient' = toClient \o items /\ UNCHANGED run

SendsNothing == UNCHANGED <<toClient, run>>

\* Mutant of Answer: the job goes back as it came.
AnswerInited(status, err) ==
  /\ answers' = answers + 1
  /\ worker' = At("idle")
  /\ UNCHANGED job

\* Mutant of Answer: the node is pushed twice.
AnswerTwice(status, err) ==
  /\ job' = [job EXCEPT !.status = status, !.err = err]
  /\ answers' = answers + 2
  /\ worker' = At("idle")

\* set_response_for_client_and_push, and on to the next job.
Answer(status, err) ==
  /\ job' = [job EXCEPT !.status = status, !.err = err]
  /\ answers' = answers + 1
  /\ worker' = At("idle")

WorkerGoesOn(pc) ==
  /\ worker' = [worker EXCEPT !.pc = pc]
  /\ UNCHANGED <<job, answers>>

\* The worker only talks to the client, or works on the store.
Elsewhere == UNCHANGED <<clientVars, toServer, thread, stale>>

WorkerOpen ==
  /\ WorkerOn("openFile")
  /\ \/ Answer(OK, 0)
     \/ Answer(NOT_OK, IF job.flags = O_CREATE THEN Errno.EEXIST ELSE Errno.ENOENT)
  /\ SendsNothing
  /\ Elsewhere /\ UNCHANGED strayed

\* The case of CLOSE_FILE runs on into READ_FILE.
WorkerClose ==
  /\ WorkerOn("closeFile")
  /\ SendsNothing
  /\ \/ Answer(NOT_OK, Errno.ENOENT) /\ UNCHANGED strayed
     \/ /\ job' = [job EXCEPT !.status = OK, !.err = 0]
        /\ answers' = answers + 1
        /\ worker' = [worker EXCEPT !.pc = "again"]
        /\ Strays("CLOSE_FILE runs on")
  /\ Elsewhere

WorkerRead ==
  /\ WorkerOn("readFile") \/ WorkerAt("again")
  /\ \/ Sends(<<Number("continue", NO_CONTINUE)>>) /\ Answer(NOT_OK, Errno.ENOENT)
     \/ Sends(<<Number("continue", CONTINUE)>>) /\ WorkerGoesOn("check")
  /\ Elsewhere /\ UNCHANGED strayed

\* isOpen decides, and the size is announced.
WorkerCheck ==
  /\ WorkerAt("check")
  /\ \/ /\ Sends(<<Number("continue", NO_CONTINUE)>>)
        /\ Answer(NOT_OK, Errno.EACCES)
     \/ \E n \in Sizes : /\ Sends(<<Number("continue", CONTINUE), Number("size", n)>>)
                         /\ WorkerGoesOn("announced")
  /\ Elsewhere /\ UNCHANGED strayed

\* The message has the size the file has by now.
WorkerSendFile ==
  /\ WorkerAt("announced")
  /\ \E n \in Sizes : Sends(Message(n))
  /\ Answer(OK, 0)
  /\ Elsewhere /\ UNCHANGED strayed

WorkerWrite ==
  /\ WorkerOn("writeFile") \/ WorkerOn("appendToFile")
  /\ \/ Sends(<<Number("continue", NOT_OK)>>) /\ Answer(NOT_OK, Errno.ENONET)
     \/ Sends(<<Number("continue", CONTINUE)>>) /\ WorkerGoesOn("size")
  /\ Elsewhere /\ UNCHANGED strayed

\* cache_algorithm: E2BIG is answered, else WRITE_FILE asks for the data, which
\* the client of an APPEND_FILE has sent without being asked.
WorkerSize ==
  /\ WorkerAt("size")
  /\ toServer' = Unread
  /\ \E n \in Numbers :
       \/ /\ n > MaxMemory
          /\ Sends(<<Number("continue", NO_CONTINUE)>>)
          /\ Answer(NOT_OK, Errno.E2BIG)
          /\ IF job.op = Code["appendToFile"] THEN Strays("APPEND_FILE refused") ELSE UNCHANGED strayed
       \/ /\ n <= MaxMemory
          /\ IF job.op = Code["writeFile"] THEN Sends(<<Number("continue", CONTINUE)>>) ELSE SendsNothing
          /\ worker' = [worker EXCEPT !.pc = "length", !.size = n]
          /\ UNCHANGED <<job, answers, strayed>>
  /\ UNCHANGED <<clientVars, thread, stale>>

WorkerLength ==
  /\ WorkerAt("length")
  /\ toServer' = Unread
  /\ \E n \in Numbers :
       /\ worker' = [worker EXCEPT !.pc = IF n = 0 THEN "write" ELSE "bytes", !.length = n]
       /\ run' \in IF AtEnd /\ n # 0 THEN {"running", "exited"} ELSE {"running"}
  /\ UNCHANGED <<clientVars, toClient, thread, job, answers, stale, strayed>>

WorkerBytes ==
  /\ WorkerAt("bytes")
  /\ toServer' = Unread
  /\ \/ Complete(worker.length) /\ WorkerGoesOn("write")
     \/ AtEnd /\ Answer(NOT_OK, Errno.EFAULT)
  /\ SendsNothing
  /\ UNCHANGED <<clientVars, thread, stale, strayed>>

\* Mutant of WorkerWrites: an answer is forgotten when the file is gone.
WorkerWritesSilently ==
  /\ WorkerAt("write")
  /\ \/ /\ job.op = Code["appendToFile"]
        /\ SendsNothing
        /\ Answer(OK, 0)
     \/ /\ job.op = Code["writeFile"]
        /\ \/ Sends(<<Number("continue", NOT_OK)>>) /\ WorkerGoesOn("idle")
           \/ Sends(<<Number("continue", CONTINUE)>>) /\ Answer(OK, 0)
  /\ Elsewhere /\ UNCHANGED strayed

\* WRITE_FILE looks its file up again, and write_to_file takes size bytes of
\* the message.  Its CONTINUE may fail unnoticed.
WorkerWrites ==
  /\ WorkerAt("write")
  /\ \/ /\ job.op = Code["appendToFile"]
        /\ SendsNothing
        /\ Answer(OK, 0)
     \/ /\ job.op = Code["writeFile"]
        /\ Sends(<<Number("continue", NOT_OK)>>)
        /\ Answer(NOT_OK, Errno.ENOENT)
     \/ /\ job.op = Code["writeFile"]
        /\ Reply("continue", CONTINUE)
        /\ Answer(OK, 0)
        /\ UNCHANGED run
  /\ Elsewhere /\ UNCHANGED strayed

\* READN_FILE of an empty store says NO_CONTINUE where a count is read.
WorkerCount ==
  /\ WorkerOn("readNFiles")
  /\ \E files \in 0..MaxFiles :
       LET n == IF job.flags > files \/ job.flags = 0 THEN files ELSE job.flags
       IN  IF files = 0
           THEN /\ Sends(<<Number("continue", NO_CONTINUE)>>)
                /\ Answer(NOT_OK, Errno.ENODATA)
                /\ Strays("READN_FILE of an empty store")
           ELSE /\ Sends(<<Number("count", n)>>)
                /\ worker' = [worker EXCEPT !.pc = "head", !.left = n]
                /\ UNCHANGED <<job, answers, strayed>>
  /\ Elsewhere

\* The store may be empty by now.
WorkerHead ==
  /\ WorkerAt("head")
  /\ \/ Sends(<<Number("continue", NO_CONTINUE)>>) /\ Answer(NOT_OK, Errno.ENODATA)
     \/ Sends(<<Number("continue", CONTINUE)>>) /\ WorkerGoesOn("sendn")
  /\ Elsewhere /\ UNCHANGED strayed

\* Mutant of WorkerSendN: the loop sends one file too many.
WorkerSendsOneMore ==
  /\ WorkerAt("sendn") /\ worker.left >= 0
  /\ \E m, n \in Sizes : Sends(Message(m) \o <<Number("size", n)>>)
  /\ worker' = [worker EXCEPT !.left = @ - 1]
  /\ Elsewhere /\ UNCHANGED <<job, answers, strayed>>

\* A message, then its size, read again: one more file, or none is left and
\* the list is followed to its end.
WorkerSendN ==
  /\ WorkerAt("sendn") /\ worker.left > 0
  /\ \/ /\ \E m, n \in Sizes : Sends(Message(m) \o <<Number("size", n)>>)
        /\ worker' = [worker EXCEPT !.left = @ - 1]
     \/ run' = "undefined" /\ UNCHANGED <<toClient, worker>>
  /\ Elsewhere /\ UNCHANGED <<job, answers, strayed>>

WorkerSentN ==
  /\ WorkerAt("sendn") /\ worker.left = 0
  /\ Answer(OK, 0)
  /\ SendsNothing
  /\ Elsewhere /\ UNCHANGED strayed

WorkerRemove ==
  /\ WorkerOn("removeFile")
  /\ Answer(OK, 0) \/ Answer(NOT_OK, Errno.ENOENT)
  /\ SendsNothing
  /\ Elsewhere /\ UNCHANGED strayed

WorkerCloseConnection ==
  /\ WorkerOn("closeConnection")
  /\ Answer(OK, 0)
  /\ SendsNothing
  /\ Elsewhere /\ UNCHANGED strayed

\* The switch knows no such operation: the worker ends and the client thread
\* goes on waiting.
WorkerLeaves ==
  /\ WorkerAt("start") /\ \A f \in Calls : job.op # Code[f]
  /\ WorkerGoesOn("left")
  /\ SendsNothing
  /\ Elsewhere /\ UNCHANGED strayed

WorkerStep ==
  \/ WorkerOpen \/ WorkerClose \/ WorkerRead \/ WorkerCheck \/ WorkerSendFile
  \/ WorkerWrite \/ WorkerSize \/ WorkerLength \/ WorkerBytes \/ WorkerWrites
  \/ WorkerCount \/ WorkerHead \/ WorkerSendN \/ WorkerSentN
  \/ WorkerRemove \/ WorkerCloseConnection \/ WorkerLeaves

-----------------------------------------------------------------------------

\* A reader meets the bytes of a message where it reads a number, or the other
\* way round, or fewer or more of them than it was told.
Misfit(channel, wants, n) ==
  /\ channel # <<>>
  /\ IF wants = "bytes" THEN Head(channel) # Number("bytes", n) ELSE Head(channel).as = "bytes"

Receives == {"status", "error", "continue", "size", "length", "bytes", "count"}
Garble ==
  /\ Running
  /\ \/ script # <<>> /\ Head(script) \in Receives /\ Misfit(toClient, Head(script), local.length)
     \/ thread.wants \in {"op", "length", "bytes", "flags"} /\ Misfit(toServer, thread.wants, thread.length)
     \/ worker.pc \in {"size", "length", "bytes"} /\ Misfit(toServer, worker.pc, worker.length)
  /\ run' = "garbled"
  /\ UNCHANGED <<clientVars, toServer, toClient, serverVars, strayed>>

Next == ClientStep \/ ThreadStep \/ WorkerStep \/ HangUp \/ Garble

Spec == Init /\ [][Next]_vars

\* The client program and both threads go on when they can, a reader that meets
\* what does not fit included.
FairSpec ==
  Spec /\ WF_vars(ClientStep) /\ WF_vars(ThreadStep) /\ WF_vars(WorkerStep) /\ WF_vars(Garble)

-----------------------------------------------------------------------------
(* Properties.                                                             *)

Ways == {"break in readNFiles", "return in writeFile", "empty file in writeFile",
         "hang-up", "CLOSE_FILE runs on", "APPEND_FILE refused", "READN_FILE of an empty store"}

Item == [as : Receives \cup {"op", "flags"}, val : Nat]

TypeOK ==
  /\ program \in Seq(Calls)
  /\ call \in Calls \cup {"none", "gone"}
  /\ script \in Seq(Steps)
  /\ local \in [size : Nat, length : Nat, files : Nat, status : Int]
  /\ result \in [status : Int, errno : Nat]
  /\ toServer \in Seq(Item) /\ toClient \in Seq(Item)
  /\ thread \in [wants : {"op", "length", "bytes", "flags", "answer", "status", "error", "free", "ended"},
                 op : Nat, length : Nat, null : BOOLEAN]
  /\ job \in [op : Nat, flags : Nat, status : {OK, NOT_OK, INITED}, err : Nat]
  /\ answers \in 0..2 /\ stale \in BOOLEAN
  /\ worker \in [pc : {"idle", "start", "again", "check", "announced", "size", "length", "bytes",
                       "write", "head", "sendn", "left"},
                 size : Nat, length : Nat, left : Nat]
  /\ strayed \subseteq Ways
  /\ run \in {"running", "exited", "undefined", "garbled"}

InTouch == Running /\ strayed = {}

\* While the two sides are in touch every number is read as what it was sent
\* as and every message with its own length, by whichever of the three readers:
\* Ways names all the ways to get the dialogue out of step.
ReadAsSent ==
  InTouch =>
    /\ script # <<>> /\ Head(script) \in Receives /\ toClient # <<>> =>
         /\ Head(toClient).as = Head(script)
         /\ Head(script) = "bytes" => Head(toClient).val = local.length
    /\ thread.wants \in {"op", "length", "bytes", "flags"} /\ toServer # <<>> =>
         /\ Head(toServer).as = thread.wants
         /\ thread.wants = "bytes" => Head(toServer).val = thread.length
    /\ worker.pc \in {"size", "length", "bytes"} /\ toServer # <<>> =>
         /\ Head(toServer).as = worker.pc
         /\ worker.pc = "bytes" => Head(toServer).val = worker.length

\* Between two calls nothing is left of the call before: no number unread, no
\* answer, no worker on the job.  After closeConnection no thread of the server
\* reads the socket.
CleanBetweenCalls ==
  InTouch /\ script = <<>> =>
    /\ toServer = <<>> /\ toClient = <<>> /\ answers = 0 /\ ~stale
    /\ worker.pc = "idle"
    /\ thread.wants \in IF call = "gone" THEN {"free", "ended"} ELSE {"free", "op"}

\* A call returns what the worker answered to this very call.
OwnAnswer ==
  [][ InTouch /\ script # <<>> /\ script' = <<>> /\ strayed' = {} =>
        /\ job.op = Code[call]
        /\ job.status \in {OK, NOT_OK}
        /\ result' = [status |-> job.status, errno |-> job.err] ]_vars

\* write_to_file takes as many bytes from the message as have come with it.
WritesWhatCame == InTouch /\ worker.pc = "write" => worker.size = worker.length

\* No call waits forever: nobody waits for one who has nothing to say.
Returns == script # <<>> ~> (script = <<>> \/ ~InTouch)

\* A client that hangs up, in touch or not, frees the worker that is at work on
\* one of its calls, or the server ends.  Nothing is said of a job whose operation
\* is no code: the thread made it of what recv_number left on its stack, and
\* the worker that takes it is lost for good (WorkerLeaves).
HangUpFreesWorker ==
  (call = "gone" /\ worker.pc # "idle" /\ \E f \in Calls : job.op = Code[f])
    ~> (worker.pc = "idle" \/ ~Running)

=============================================================================
