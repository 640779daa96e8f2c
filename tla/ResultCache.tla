----------------------------- MODULE ResultCache -----------------------------
(***************************************************************************)
(* The cache of results of gnatwhy3 and of the provers.  Every command of  *)
(* a run with --memcached-server is started by a process of its own,       *)
(* spark_memcached_wrapper, called a wrapper here: it prints what the      *)
(* cache has for the command, or runs the command, stores what it printed  *)
(* and prints it.  Wrappers of one or of several runs share the cache,     *)
(* which is a directory with a file for each key or a memcached server.    *)
(*                                                                         *)
(* An output is a sequence of texts.  In an answer of the server a text or *)
(* a word of the protocol stands for the characters up to the end of a     *)
(* line; "END" stands for the characters that the client looks for.        *)
(***************************************************************************)
EXTENDS Naturals, Sequences, FiniteSets

CONSTANTS
  Wrappers,    \* the wrapper processes
  Command,     \* the command line of each of them
  Texts,       \* what the commands print is made of
  Outputs,     \* what a run of a command may print
  None,        \* no output
  MaxKills,    \* bound: wrappers killed from outside
  MaxClosings  \* bound: connections closed by the server

Words == {"VALUE", "END", "STORED", "SERVER_ERROR", "error"}

(* The arguments of a wrapper: the salt, the content of the file that is   *)
(* its last argument, the command with the switches in between, the        *)
(* content of the file after --why3-conf and of the .hash file next to the *)
(* command, or "".                                                         *)
Commands == [salt : STRING, file : STRING, args : Seq(STRING),
             conf : STRING, hash : STRING]

(* Outputs do not contain the end marker of an answer: as the comment on   *)
(* Read_Stop_When_End_Marker has it, this should not happen.               *)
ASSUME ResultCacheAssumption ==
  /\ IsFiniteSet(Wrappers)
  /\ Texts \cap Words = {}
  /\ Outputs \subseteq Seq(Texts)
  /\ None \notin Seq(Texts \cup Words)
  /\ None \notin [output : Outputs, code : {0, 1}]
  /\ MaxKills \in Nat /\ MaxClosings \in Nat

ASSUME CommandAssumption == Command \in [Wrappers -> Commands]

(* Hash_Commandline: some switches are skipped, and the file of Why3's     *)
(* configuration stands for its name.                                      *)
Hashed(c) ==
  LET n == Len(c.args)
      from[i \in 1..(n + 2)] ==
        IF i > n THEN ""
        ELSE IF c.args[i] = "-j" THEN from[i + 2]
        ELSE IF c.args[i] \in {"--debug", "--force", "-f"} THEN from[i + 1]
        ELSE IF c.args[i] = "--why3-conf" THEN c.conf \o from[i + 2]
        ELSE c.args[i] \o from[i + 1]
  IN  from[1]

(* What is hashed; SHA1 gives different keys to different contents.        *)
Compute_Key(c) == c.salt \o c.file \o Hashed(c) \o c.hash

Key  == [w \in Wrappers |-> Compute_Key(Command[w])]
Keys == {Key[w] : w \in Wrappers}

IsGnatwhy3(w) == Command[w].args[1] = "gnatwhy3"

VARIABLES
  kind,      \* the cache is a directory ("file") or a server ("memcached")
  store,     \* what it has for each key, None if nothing
  pc,        \* control state of each wrapper
  conn,      \* its connection with the server
  request,   \* the command that it sent and that the server has not handled
  reply,     \* what the server sent and no earlier command read
  got,       \* how much of it the wrapper has received
  temp,      \* content of its temporary file, None if there is none
  msg,       \* output to be stored and printed
  ran,       \* output and status of its own run of the command, if any
  status,    \* exit status
  stdout,    \* what it has printed, None if nothing
  kills, closings

cacheVars == <<kind, store>>
connVars  == <<conn, request, reply, got>>
runVars   == <<msg, ran, status, stdout>>
faults    == <<kills, closings>>
vars == <<cacheVars, pc, connVars, temp, runVars, faults>>

Final == {"done", "died", "killed"}

Init ==
  /\ kind \in {"file", "memcached"}
  /\ store = [k \in Keys |-> None]
  /\ pc = [w \in Wrappers |-> "init"]
  /\ conn = [w \in Wrappers |-> "none"]
  /\ request = [w \in Wrappers |-> "none"]
  /\ reply = [w \in Wrappers |-> <<>>]
  /\ got = [w \in Wrappers |-> 0]
  /\ temp = [w \in Wrappers |-> None]
  /\ msg = [w \in Wrappers |-> <<>>]
  /\ ran = [w \in Wrappers |-> None]
  /\ status = [w \in Wrappers |-> 0]
  /\ stdout = [w \in Wrappers |-> None]
  /\ kills = 0
  /\ closings = 0

Goto(w, label) == pc' = [pc EXCEPT ![w] = label]

(* The record with field "error" that stands for an output of gnatwhy3.    *)
Report_Error(w) ==
  /\ stdout' = [stdout EXCEPT ![w] = <<"error">>]
  /\ status' = [status EXCEPT ![w] = 1]
  /\ Goto(w, "done")
  /\ UNCHANGED <<msg, ran>>

-----------------------------------------------------------------------------
(* Init_Client and Compute_Key; Report_Error if there is no such directory *)
(* or if the server cannot be reached.  Nobody handles the exception that  *)
(* a file to be hashed cannot be read.                                     *)
Init_Client(w) ==
  /\ pc[w] = "init"
  /\ \/ /\ Goto(w, "lookup")
        /\ conn' = [conn EXCEPT ![w] = IF kind = "file" THEN @ ELSE "open"]
        /\ UNCHANGED runVars
     \/ Report_Error(w) /\ UNCHANGED conn
     \/ Goto(w, "died") /\ UNCHANGED <<conn, runVars>>
  /\ UNCHANGED <<cacheVars, request, reply, got, temp, faults>>

(* An empty value is not told apart from an absent key.                    *)
Found(w, value) ==
  /\ msg' = [msg EXCEPT ![w] = value]
  /\ Goto(w, IF value = <<>> THEN "run" ELSE "print")

(* Filecache_Client.Get looks whether the file exists, then reads it.      *)
Exists(w) ==
  /\ kind = "file" /\ pc[w] = "lookup"
  /\ Goto(w, IF store[Key[w]] = None THEN "run" ELSE "read")
  /\ UNCHANGED <<cacheVars, connVars, temp, runVars, faults>>

Read_File_Into_String(w) ==
  /\ pc[w] = "read"
  /\ Found(w, store[Key[w]])
  /\ UNCHANGED <<cacheVars, connVars, temp, ran, status, stdout, faults>>

(* Get_Command_Output; crashes of gnatwhy3 are not stored.  It raises an   *)
(* exception that nobody handles when the command is not found.            *)
Get_Command_Output(w) ==
  /\ pc[w] = "run"
  /\ \/ \E output \in Outputs, code \in {0, 1} :
          /\ msg' = [msg EXCEPT ![w] = output]
          /\ ran' = [ran EXCEPT ![w] = [output |-> output, code |-> code]]
          /\ status' = [status EXCEPT ![w] = code]
          /\ Goto(w, IF code = 0 \/ ~IsGnatwhy3(w) THEN "store" ELSE "print")
     \/ Goto(w, "died") /\ UNCHANGED <<msg, ran, status>>
  /\ UNCHANGED <<cacheVars, connVars, temp, stdout, faults>>

(* Put_Line, Close and OS_Exit.                                            *)
Put_Line(w) ==
  /\ pc[w] = "print"
  /\ stdout' = [stdout EXCEPT ![w] = msg[w]]
  /\ Goto(w, "done")
  /\ UNCHANGED <<cacheVars, connVars, temp, msg, ran, status, faults>>

-----------------------------------------------------------------------------
(* Filecache_Client.Set.                                                   *)

(* Without a file there is no name either, so that the deletion after the  *)
(* failed write raises Constraint_Error.                                   *)
Create_Temp_File(w) ==
  /\ kind = "file" /\ pc[w] = "store"
  /\ \/ temp' = [temp EXCEPT ![w] = <<>>] /\ Goto(w, "write")
     \/ UNCHANGED temp /\ Goto(w, "died")
  /\ UNCHANGED <<cacheVars, connVars, runVars, faults>>

(* Plausible bug: the number of characters written is not looked at.       *)
Write_Unchecked(w) ==
  /\ pc[w] = "write"
  /\ \E n \in 0..Len(msg[w]) :
        temp' = [temp EXCEPT ![w] = SubSeq(msg[w], 1, n)]
  /\ Goto(w, "rename")
  /\ UNCHANGED <<cacheVars, connVars, runVars, faults>>

(* A short write leaves less than the value.  An empty value has no first  *)
(* character whose address could be taken: depending on the checks in the  *)
(* build this raises Constraint_Error or writes nothing.                   *)
Write(w) ==
  /\ pc[w] = "write"
  /\ \/ /\ temp' = [temp EXCEPT ![w] = msg[w]]
        /\ Goto(w, "rename")
     \/ /\ \E n \in 0..(Len(msg[w]) - 1) :
              temp' = [temp EXCEPT ![w] = SubSeq(msg[w], 1, n)]
        /\ Goto(w, "delete")
     \/ /\ msg[w] = <<>>
        /\ Goto(w, "died")
        /\ UNCHANGED temp
  /\ UNCHANGED <<cacheVars, connVars, runVars, faults>>

(* The result of Rename_File is not used.                                  *)
Rename_File(w) ==
  /\ pc[w] = "rename"
  /\ \/ /\ store' = [store EXCEPT ![Key[w]] = temp[w]]
        /\ temp' = [temp EXCEPT ![w] = None]
     \/ UNCHANGED <<store, temp>>
  /\ Goto(w, "print")
  /\ UNCHANGED <<kind, connVars, runVars, faults>>

Delete_File(w) ==
  /\ pc[w] = "delete"
  /\ temp' = [temp EXCEPT ![w] = None]
  /\ Goto(w, "print")
  /\ UNCHANGED <<cacheVars, connVars, runVars, faults>>

-----------------------------------------------------------------------------
(* Memcache_Client.                                                        *)

Connected(w) == conn[w] \in {"open", "error"}

(* String'Write of the command; on a closed connection Socket_Error, at    *)
(* once or when the answer is awaited.                                     *)
Send(w, command, label) ==
  \/ /\ Connected(w)
     /\ request' = [request EXCEPT ![w] = command]
     /\ Goto(w, label)
     /\ UNCHANGED runVars
  \/ /\ ~Connected(w)
     /\ Report_Error(w)
     /\ UNCHANGED request

Send_Get(w) ==
  /\ kind = "memcached" /\ pc[w] = "lookup"
  /\ Send(w, "get", "asked")
  /\ UNCHANGED <<cacheVars, conn, reply, got, temp, faults>>

Send_Set(w) ==
  /\ kind = "memcached" /\ pc[w] = "store"
  /\ Send(w, "set", "told")
  /\ UNCHANGED <<cacheVars, conn, reply, got, temp, faults>>

(* Plausible bug: the answer is not cut after its first line.              *)
Payload_With_First_Line(answer) == SubSeq(answer, 1, Len(answer) - 1)

(* Get without the first line of the answer, and without its last one.     *)
Payload(answer) == SubSeq(answer, 2, Len(answer) - 1)

(* Plausible bugs: the first part of the answer is taken for all of it;    *)
(* the answer is compared with the marker, as if it could only be a miss.  *)
First_Part_Is_All(answer) == TRUE
Is_Marker(answer) == answer = <<"END">>

(* Read_Stop_When_End_Marker for Get: does the answer end with the marker? *)
Ends_With_Marker(answer) == answer[Len(answer)] = "END"

(* Receive_Socket returns some of what the server has sent.                *)
Receive_Answer_Of_Get(w) ==
  /\ pc[w] = "asked" /\ conn[w] # "reset"
  /\ \E n \in (got[w] + 1)..Len(reply[w]) :
        LET answer == SubSeq(reply[w], 1, n) IN
        IF Ends_With_Marker(answer)
        THEN /\ Found(w, Payload(answer))
             /\ reply' = [reply EXCEPT ![w] = SubSeq(@, n + 1, Len(@))]
             /\ got' = [got EXCEPT ![w] = 0]
        ELSE /\ got' = [got EXCEPT ![w] = n]
             /\ UNCHANGED <<pc, msg, reply>>
  /\ UNCHANGED <<cacheVars, conn, request, temp, ran, status, stdout, faults>>

(* Plausible bug: only STORED is expected.                                 *)
Stored_Only(answer) == answer = <<"STORED">>

(* The answers to Set that do not raise Program_Error.                     *)
Expected(answer) == answer = <<"STORED">> \/ answer[1] = "SERVER_ERROR"

(* Every part of the answer that is received ends with a line.             *)
Receive_Answer_Of_Set(w) ==
  /\ pc[w] = "told" /\ conn[w] # "reset"
  /\ \E n \in (got[w] + 1)..Len(reply[w]) :
        /\ Goto(w, IF Expected(SubSeq(reply[w], 1, n)) THEN "print" ELSE "died")
        /\ reply' = [reply EXCEPT ![w] = SubSeq(@, n + 1, Len(@))]
        /\ got' = [got EXCEPT ![w] = 0]
  /\ UNCHANGED <<cacheVars, conn, request, temp, runVars, faults>>

(* Receive_Socket raises Socket_Error.  When the server has closed the     *)
(* connection in good order, it returns nothing and the loop goes on.      *)
Receive_Fails(w) ==
  /\ pc[w] \in {"asked", "told"} /\ conn[w] = "reset"
  /\ Report_Error(w)
  /\ UNCHANGED <<cacheVars, connVars, temp, faults>>

-----------------------------------------------------------------------------
(* The server (external).                                                  *)

Answer(value) == IF value = None THEN <<"END">>
                 ELSE <<"VALUE">> \o value \o <<"END">>

(* A get is answered, or refused with an error line only.                  *)
Server_Get(w) ==
  /\ request[w] = "get" /\ Connected(w)
  /\ request' = [request EXCEPT ![w] = "none"]
  /\ \/ /\ reply' = [reply EXCEPT ![w] = @ \o Answer(store[Key[w]])]
        /\ UNCHANGED conn
     \/ /\ reply' = [reply EXCEPT ![w] = @ \o <<"SERVER_ERROR">>]
        /\ conn' = [conn EXCEPT ![w] = "error"]
  /\ UNCHANGED <<cacheVars, pc, got, temp, runVars, faults>>

(* A set is obeyed, or refused because the value is too large.             *)
Server_Set(w) ==
  /\ request[w] = "set" /\ Connected(w)
  /\ request' = [request EXCEPT ![w] = "none"]
  /\ \/ /\ store' = [store EXCEPT ![Key[w]] = msg[w]]
        /\ reply' = [reply EXCEPT ![w] = @ \o <<"STORED">>]
     \/ /\ reply' = [reply EXCEPT ![w] = @ \o <<"SERVER_ERROR">>]
        /\ UNCHANGED store
  /\ UNCHANGED <<kind, pc, conn, got, temp, runVars, faults>>

(* The memory of the server is limited.                                    *)
Server_Evicts(k) ==
  /\ kind = "memcached"
  /\ store[k] # None
  /\ store' = [store EXCEPT ![k] = None]
  /\ UNCHANGED <<kind, pc, connVars, temp, runVars, faults>>

(* The server, or its machine, goes away.                                  *)
Server_Closes(w) ==
  /\ closings < MaxClosings
  /\ Connected(w)
  /\ \E how \in {"closed", "reset"} : conn' = [conn EXCEPT ![w] = how]
  /\ closings' = closings + 1
  /\ UNCHANGED <<cacheVars, pc, request, reply, got, temp, runVars, kills>>

KillWrapper(w) ==
  /\ kills < MaxKills
  /\ pc[w] \notin Final
  /\ Goto(w, "killed")
  /\ kills' = kills + 1
  /\ UNCHANGED <<cacheVars, connVars, temp, runVars, closings>>

-----------------------------------------------------------------------------
Set(w) == Create_Temp_File(w) \/ Write(w) \/ Rename_File(w) \/ Delete_File(w)

Client(w) ==
  \/ Send_Get(w) \/ Receive_Answer_Of_Get(w)
  \/ Send_Set(w) \/ Receive_Answer_Of_Set(w) \/ Receive_Fails(w)

Wrapper(w) ==
  \/ Init_Client(w) \/ Exists(w) \/ Read_File_Into_String(w)
  \/ Get_Command_Output(w) \/ Put_Line(w) \/ Set(w) \/ Client(w)

Server(w) == Server_Get(w) \/ Server_Set(w)

Next ==
  \/ \E w \in Wrappers :
        Wrapper(w) \/ Server(w) \/ Server_Closes(w) \/ KillWrapper(w)
  \/ \E k \in Keys : Server_Evicts(k)

Spec == Init /\ [][Next]_vars

(* The wrappers are processes; commands end, thanks to their timeouts, and *)
(* a server that is there answers.                                         *)
FairSpec ==
  Spec /\ \A w \in Wrappers : WF_vars(Wrapper(w)) /\ WF_vars(Server(w))

-----------------------------------------------------------------------------
TypeOK ==
  /\ kind \in {"file", "memcached"}
  /\ store \in [Keys -> Outputs \cup {None}]
  /\ pc \in [Wrappers -> {"init", "lookup", "read", "asked", "run", "store",
                          "write", "rename", "delete", "told", "print"}
                         \cup Final]
  /\ conn \in [Wrappers -> {"none", "open", "error", "closed", "reset"}]
  /\ request \in [Wrappers -> {"none", "get", "set"}]
  /\ reply \in [Wrappers -> Seq(Texts \cup Words)]
  /\ got \in [Wrappers -> Nat]
  /\ temp \in [Wrappers -> Seq(Texts) \cup {None}]
  /\ msg \in [Wrappers -> Outputs \cup {<<>>}]
  /\ ran \in [Wrappers -> [output : Outputs, code : {0, 1}] \cup {None}]
  /\ status \in [Wrappers -> {0, 1}]
  /\ stdout \in [Wrappers -> Outputs \cup {None, <<"error">>}]
  /\ kills \in Nat
  /\ closings \in Nat

(* The run of a wrapper, and whether its output may be stored.             *)
Ran(v, output) == ran[v] # None /\ ran[v].output = output

Cacheable(v) == ran[v].code = 0 \/ ~IsGnatwhy3(v)

(* What the cache has for a key is, from the first to the last character,  *)
(* what one run of a command with this key printed: never a part of it,    *)
(* whatever was killed or short of space, and never a crash of gnatwhy3.   *)
StoreHasRuns ==
  \A k \in Keys : store[k] # None =>
     \E v \in Wrappers : Key[v] = k /\ Ran(v, store[k]) /\ Cacheable(v)

(* A wrapper prints its own run's output, or all of one that was stored    *)
(* for its key, however the answer of the server was cut into pieces; or   *)
(* the error record.                                                       *)
PrintsWholeOutputs ==
  \A w \in Wrappers : pc[w] = "done" /\ stdout[w] # <<"error">> =>
     \E v \in Wrappers : /\ Key[v] = Key[w] /\ Ran(v, stdout[w])
                         /\ v = w \/ Cacheable(v)

(* The cache costs no result: a wrapper that ran its command and ended     *)
(* printed what the command printed, unless the server closed the          *)
(* connection.  No answer of a server makes it die; only the writing of a  *)
(* file does, when the output is empty or no temporary file was created.   *)
ResultIsReported ==
  \A w \in Wrappers : ran[w] # None =>
     /\ pc[w] = "done" => stdout[w] = ran[w].output \/ conn[w] \in {"closed", "reset"}
     /\ pc[w] = "died" => kind = "file" /\ (ran[w].output = <<>> \/ temp[w] = None)

(* Every wrapper ends, unless the server closed its connection, or refused *)
(* a get: then Read_Stop_When_End_Marker has nothing to stop for.          *)
EveryWrapperEnds ==
  \A w \in Wrappers : <>(pc[w] \in Final \/ conn[w] \in {"error", "closed"})
=============================================================================
