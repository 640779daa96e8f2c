-------------------------- MODULE ResultCache_proofs --------------------------
(***************************************************************************)
(* Proofs about ResultCache, for any number of wrappers, commands and      *)
(* outputs, and any number of kills and of closed connections.             *)
(***************************************************************************)
EXTENDS ResultCache, SequenceTheorems, TLAPS

(* The output is one that a run of a command with key k may have stored.   *)
Good(k, output) ==
  \E v \in Wrappers : Key[v] = k /\ Ran(v, output) /\ Cacheable(v)

(* Who has run its command, and what msg is then.                          *)
Results ==
  \A w \in Wrappers :
    /\ pc[w] \in {"init", "lookup", "read", "asked", "run"} => ran[w] = None
    /\ pc[w] \in {"init", "lookup", "read", "asked", "run", "store"}
         => temp[w] = None
    /\ pc[w] \in {"store", "write", "rename", "delete", "told"} \/ request[w] = "set"
         => Ran(w, msg[w]) /\ Cacheable(w)
    /\ pc[w] = "rename" => temp[w] = msg[w]
    /\ pc[w] = "print" => IF ran[w] = None THEN Good(Key[w], msg[w])
                          ELSE ran[w].output = msg[w]

(* Which kind of cache a wrapper is at work with.                          *)
Connections ==
  /\ kind = "file" => \A w \in Wrappers : conn[w] = "none"
  /\ \A w \in Wrappers :
       /\ pc[w] = "init" => conn[w] = "none"
       /\ pc[w] \in {"asked", "told"} \/ conn[w] # "none" => kind = "memcached"
       /\ pc[w] \in {"read", "write", "rename", "delete"} => kind = "file"
       /\ pc[w] = "read" => store[Key[w]] # None
       /\ kind = "memcached" /\ pc[w] \notin Final \cup {"init"}
            => conn[w] # "none"

(* What a wrapper that is at work may find on its connection.              *)
Answers(w) ==
  {Answer(None), <<"SERVER_ERROR">>}
    \cup {Answer(o) : o \in {o \in Outputs : Good(Key[w], o)}}

Replies ==
  \A w \in Wrappers :
    /\ pc[w] \notin Final \cup {"asked", "told"}
         => request[w] = "none" /\ reply[w] = <<>> /\ got[w] = 0
    /\ pc[w] = "asked" =>
         \/ request[w] = "get" /\ reply[w] = <<>> /\ got[w] = 0
         \/ request[w] = "none" /\ reply[w] \in Answers(w)
    /\ pc[w] = "told" =>
         /\ got[w] = 0
         /\ \/ request[w] = "set" /\ reply[w] = <<>>
            \/ request[w] = "none" /\ reply[w] \in {<<"STORED">>, <<"SERVER_ERROR">>}

(* StoreHasRuns, PrintsWholeOutputs and ResultIsReported, with Good.       *)
StoreIsGood == \A k \in Keys : store[k] # None => Good(k, store[k])

Printed ==
  \A w \in Wrappers :
    /\ pc[w] = "done" => \/ stdout[w] = <<"error">> \/ Ran(w, stdout[w])
                        \/ Good(Key[w], stdout[w])
    /\ ran[w] # None =>
         /\ pc[w] = "done" =>
              stdout[w] = ran[w].output \/ conn[w] \in {"closed", "reset"}
         /\ pc[w] = "died" =>
              kind = "file" /\ (ran[w].output = <<>> \/ temp[w] = None)

IInv == /\ TypeOK /\ Results /\ Connections /\ Replies
        /\ StoreIsGood /\ Printed

-----------------------------------------------------------------------------
(* What the client makes of an answer of the server.                       *)
LEMMA AnswerType ==
  ASSUME NEW o \in Outputs \cup {None}
  PROVE  Answer(o) \in Seq(Texts \cup Words)
<1>1. /\ <<"VALUE">> \in Seq(Texts \cup Words)
      /\ <<"END">> \in Seq(Texts \cup Words)
  BY DEF Words
<1>2. CASE o = None
  BY <1>1, <1>2 DEF Answer
<1>3. CASE o # None
  <2>1. o \in Seq(Texts) /\ o \in Seq(Texts \cup Words)
    BY <1>3, ResultCacheAssumption
  <2>2. Answer(o) = <<"VALUE">> \o o \o <<"END">>
    BY <1>3 DEF Answer
  <2> QED BY <1>1, <2>1, <2>2
<1> QED BY <1>2, <1>3

LEMMA AnswerOfOutput ==
  ASSUME NEW o \in Outputs, NEW n \in 1..Len(Answer(o)),
         Answer(o)[n] = "END"
  PROVE  n = Len(Answer(o)) /\ Payload(Answer(o)) = o
<1> DEFINE a == Answer(o)
<1>1. o \in Seq(Texts) /\ o # None
  BY ResultCacheAssumption
<1>2. a = <<"VALUE">> \o o \o <<"END">>
  BY <1>1 DEF Answer
<1>3. /\ o \in Seq(Texts \cup Words) /\ <<"VALUE">> \in Seq(Texts \cup Words)
      /\ <<"END">> \in Seq(Texts \cup Words)
  BY <1>1 DEF Words
<1> HIDE DEF a
<1>4. /\ a \in Seq(Texts \cup Words) /\ Len(a) = Len(o) + 2
      /\ a[1] = "VALUE" /\ \A i \in 1..Len(o) : a[i + 1] = o[i]
  BY <1>2, <1>3
<1>5. \A i \in 1..Len(o) : o[i] # "END"
  BY <1>1, ResultCacheAssumption DEF Words
<1>6. n = Len(a)
  <2>1. n \in 1..Len(a) /\ a[n] = "END"
    BY DEF a
  <2>2. n # 1
    BY <1>4, <2>1
  <2>3. ASSUME n \in 2..(Len(o) + 1) PROVE FALSE
    <3>1. n - 1 \in 1..Len(o) /\ a[n] = o[n - 1]
      <4>1. n - 1 \in 1..Len(o) /\ n = (n - 1) + 1
        BY <1>1, <2>3
      <4> QED BY <1>4, <4>1
    <3> QED BY <1>5, <2>1, <3>1
  <2> QED BY <1>1, <1>4, <2>1, <2>2, <2>3
<1>7. Payload(a) = o
  <2>1. /\ SubSeq(a, 2, Len(a) - 1) \in Seq(Texts \cup Words)
        /\ Len(SubSeq(a, 2, Len(a) - 1)) = Len(o)
        /\ \A i \in 1..Len(o) : SubSeq(a, 2, Len(a) - 1)[i] = a[i + 1]
    BY <1>4, <1>3
  <2> QED BY <1>3, <1>4, <2>1 DEF Payload
<1> QED BY <1>6, <1>7 DEF a

LEMMA KeyType == \A w \in Wrappers : Key[w] \in Keys
  BY DEF Key, Keys

LEMMA OutputType ==
  ASSUME NEW o \in Outputs \cup {<<>>}
  PROVE  o \in Seq(Texts) /\ o # None
<1>1. <<>> \in Seq(Texts)
  OBVIOUS
<1>2. o \in Seq(Texts)
  BY <1>1, ResultCacheAssumption
<1>3. o \in Seq(Texts \cup Words)
  BY <1>2
<1> QED BY <1>2, <1>3, ResultCacheAssumption

(* When the client stops reading it has read the whole answer to its get,  *)
(* and keeps nothing or all of an output that may be stored for its key.   *)
LEMMA AnswerComplete ==
  ASSUME NEW w \in Wrappers, NEW a \in Answers(w), NEW n \in 1..Len(a),
         Ends_With_Marker(SubSeq(a, 1, n))
  PROVE  LET p == Payload(SubSeq(a, 1, n)) IN
         /\ SubSeq(a, n + 1, Len(a)) = <<>>
         /\ p = <<>> \/ (p \in Outputs /\ Good(Key[w], p))
<1>0. a \in Seq(Texts \cup Words)
  <2>1. <<"SERVER_ERROR">> \in Seq(Texts \cup Words)
    BY DEF Words
  <2>2. \/ a = <<"SERVER_ERROR">>
        \/ \E o \in Outputs \cup {None} : a = Answer(o)
    BY DEF Answers
  <2> QED BY <2>1, <2>2, AnswerType
<1>1. a[n] = "END"
  <2>1. SubSeq(a, 1, n) \in Seq(Texts \cup Words) /\ Len(SubSeq(a, 1, n)) = n
        /\ SubSeq(a, 1, n)[n] = a[n]
    BY <1>0
  <2> QED BY <2>1 DEF Ends_With_Marker
<1>2. CASE a = <<"SERVER_ERROR">>
  BY <1>1, <1>2
<1>3. CASE a = Answer(None)
  <2>1. a = <<"END">> /\ n = 1
    BY <1>3 DEF Answer
  <2>4. Len(a) = 1
    BY <2>1
  <2>2. SubSeq(a, 1, Len(a)) = a
    BY <1>0
  <2>3. SubSeq(<<"END">>, 2, 0) = <<>> /\ SubSeq(<<"END">>, 2, 1) = <<>>
    OBVIOUS
  <2> QED BY <2>1, <2>2, <2>3, <2>4 DEF Payload
<1>4. ASSUME NEW o \in Outputs, Good(Key[w], o), a = Answer(o)
      PROVE  LET p == Payload(SubSeq(a, 1, n)) IN
             SubSeq(a, n + 1, Len(a)) = <<>> /\ p = o
  <2>1. n = Len(a) /\ Payload(a) = o
    BY <1>1, <1>4, AnswerOfOutput
  <2>2. SubSeq(a, 1, Len(a)) = a /\ SubSeq(a, Len(a) + 1, Len(a)) = <<>>
    BY <1>0
  <2> QED BY <2>1, <2>2
<1> QED BY <1>2, <1>3, <1>4 DEF Answers

(* The answer to a set comes in one piece and raises no exception.         *)
LEMMA OneLine ==
  ASSUME NEW a, a \in {<<>>, <<"STORED">>, <<"SERVER_ERROR">>}, NEW n \in 1..Len(a)
  PROVE  /\ n = 1 /\ Len(a) = 1 /\ Expected(a)
         /\ a \in {<<"STORED">>, <<"SERVER_ERROR">>}
<1>1. CASE a = <<>>
  <2>1. Len(a) = 0
    BY <1>1
  <2> QED BY <2>1
<1>2. CASE a \in {<<"STORED">>, <<"SERVER_ERROR">>}
  <2>1. Len(a) = 1 /\ Expected(a)
    BY <1>2 DEF Expected
  <2> QED BY <1>2, <2>1
<1> QED BY <1>1, <1>2

(* What a wrapper has run is not forgotten: what was good stays good.      *)
LEMMA RunsStay ==
  ASSUME \A v \in Wrappers : ran[v] # None => ran'[v] = ran[v]
  PROVE  /\ \A k, o : Good(k, o) => Good(k, o)'
         /\ \A w \in Wrappers : \A o : Ran(w, o) => Ran(w, o)'
         /\ \A w \in Wrappers : ran[w] # None /\ Cacheable(w) => Cacheable(w)'
         /\ \A w \in Wrappers : Answers(w) \subseteq Answers(w)'
<1>1. \A k, o : Good(k, o) => Good(k, o)'
  BY DEF Good, Ran, Cacheable
<1>2. \A w \in Wrappers : Answers(w) \subseteq Answers(w)'
  BY <1>1 DEF Answers
<1> QED BY <1>1, <1>2 DEF Ran, Cacheable

-----------------------------------------------------------------------------
(* The inductive invariant: initially, then one lemma for each action.     *)
LEMMA InitIInv == Init => IInv
  BY ResultCacheAssumption
  DEF Init, IInv, TypeOK, Results, Connections, Replies, StoreIsGood, Printed,
      Final, Words

LEMMA StepInitClient ==
  ASSUME IInv, NEW w \in Wrappers, Init_Client(w) PROVE IInv'
<1> USE DEF IInv
<1>1. \A v \in Wrappers : ran[v] # None => ran'[v] = ran[v]
  BY DEF Init_Client, Goto, Report_Error, cacheVars, runVars, faults, TypeOK,
         Results
<1>2. TypeOK'
  BY DEF Init_Client, Goto, Report_Error, cacheVars, runVars, faults, TypeOK,
         Final
<1>3. Results'
  BY <1>1, RunsStay
  DEF Init_Client, Goto, Report_Error, cacheVars, runVars, faults, TypeOK,
      Results, Ran
<1>4. Connections'
  <2>1. CASE conn' = conn /\ \E label \in {"done", "died"} : pc' = [pc EXCEPT ![w] = label]
    BY <2>1
    DEF Init_Client, Goto, Report_Error, cacheVars, runVars, faults, TypeOK,
        Connections, Final
  <2>2. CASE /\ pc' = [pc EXCEPT ![w] = "lookup"]
             /\ conn' = [conn EXCEPT ![w] = IF kind = "file" THEN @ ELSE "open"]
    <3>1. CASE kind = "file"
      BY <2>2, <3>1
      DEF Init_Client, Goto, Report_Error, cacheVars, runVars, faults, TypeOK,
          Connections
    <3>2. CASE kind = "memcached"
      BY <2>2, <3>2
      DEF Init_Client, Goto, Report_Error, cacheVars, runVars, faults, TypeOK,
          Connections
    <3> QED BY <3>1, <3>2 DEF TypeOK
  <2> QED BY <2>1, <2>2
     DEF Init_Client, Goto, Report_Error, cacheVars, runVars, faults
<1>5. Replies'
  BY <1>1, RunsStay
  DEF Init_Client, Goto, Report_Error, cacheVars, runVars, faults, TypeOK,
      Replies, Final
<1>6. StoreIsGood'
  BY <1>1, RunsStay
  DEF Init_Client, Goto, Report_Error, cacheVars, runVars, faults, TypeOK,
      StoreIsGood
<1>7. Printed'
  BY <1>1, RunsStay
  DEF Init_Client, Goto, Report_Error, cacheVars, runVars, faults, TypeOK,
      Printed, Results
<1> QED BY <1>2, <1>3, <1>4, <1>5, <1>6, <1>7

LEMMA StepExists ==
  ASSUME IInv, NEW w \in Wrappers, Exists(w) PROVE IInv'
<1> USE DEF IInv
<1>1. \A v \in Wrappers : ran[v] # None => ran'[v] = ran[v]
  BY DEF Exists, Goto, cacheVars, connVars, runVars, faults, TypeOK, Results
<1>2. TypeOK'
  BY DEF Exists, Goto, cacheVars, connVars, runVars, faults, TypeOK, Final
<1>3. Results'
  BY <1>1, RunsStay
  DEF Exists, Goto, cacheVars, connVars, runVars, faults, TypeOK, Results, Ran
<1>4. Connections'
  BY DEF Exists, Goto, cacheVars, connVars, runVars, faults, TypeOK,
         Connections, Final
<1>5. Replies'
  BY <1>1, RunsStay
  DEF Exists, Goto, cacheVars, connVars, runVars, faults, TypeOK, Replies,
      Final
<1>6. StoreIsGood'
  BY <1>1, RunsStay
  DEF Exists, Goto, cacheVars, connVars, runVars, faults, TypeOK, StoreIsGood
<1>7. Printed'
  BY <1>1, RunsStay
  DEF Exists, Goto, cacheVars, connVars, runVars, faults, TypeOK, Printed,
      Results
<1> QED BY <1>2, <1>3, <1>4, <1>5, <1>6, <1>7

LEMMA StepReadFileIntoString ==
  ASSUME IInv, NEW w \in Wrappers, Read_File_Into_String(w) PROVE IInv'
<1> USE DEF IInv
<1>1. \A v \in Wrappers : ran[v] # None => ran'[v] = ran[v]
  BY DEF Read_File_Into_String, Goto, Found, cacheVars, connVars, faults,
         TypeOK, Results
<1>2. TypeOK'
  <2>1. store[Key[w]] \in Outputs
    BY KeyType
    DEF Read_File_Into_String, Goto, Found, cacheVars, connVars, faults,
        TypeOK, Connections
  <2> QED BY <2>1
     DEF Read_File_Into_String, Goto, Found, cacheVars, connVars, faults,
         TypeOK, Final
<1>3. Results'
  <2>1. PICK q : q = store[Key[w]]
    OBVIOUS
  <2>2. Good(Key[w], q)
    BY <2>1, KeyType
    DEF Read_File_Into_String, Goto, Found, cacheVars, connVars, faults,
        Connections, StoreIsGood
  <2>3. Good(Key[w], q)'
    BY <1>1, <2>2, RunsStay
  <2>4. /\ msg' = [msg EXCEPT ![w] = q]
        /\ pc' = [pc EXCEPT ![w] = IF q = <<>> THEN "run" ELSE "print"]
        /\ UNCHANGED <<ran, request, temp>>
        /\ ran[w] = None /\ request[w] = "none" /\ temp[w] = None
    BY <2>1
    DEF Read_File_Into_String, Goto, Found, cacheVars, connVars, faults,
        Results, Replies, Final
  <2> QED BY <1>1, <2>3, <2>4, RunsStay DEF TypeOK, Results, Ran, Cacheable
<1>4. Connections'
  BY DEF Read_File_Into_String, Goto, Found, cacheVars, connVars, faults,
         TypeOK, Connections, Final
<1>5. Replies'
  BY <1>1, RunsStay
  DEF Read_File_Into_String, Goto, Found, cacheVars, connVars, faults, TypeOK,
      Replies, Final
<1>6. StoreIsGood'
  BY <1>1, RunsStay
  DEF Read_File_Into_String, Goto, Found, cacheVars, connVars, faults, TypeOK,
      StoreIsGood
<1>7. Printed'
  BY <1>1, RunsStay
  DEF Read_File_Into_String, Goto, Found, cacheVars, connVars, faults, TypeOK,
      Printed, Results
<1> QED BY <1>2, <1>3, <1>4, <1>5, <1>6, <1>7

LEMMA StepGetCommandOutput ==
  ASSUME IInv, NEW w \in Wrappers, Get_Command_Output(w) PROVE IInv'
<1> USE DEF IInv
<1>1. \A v \in Wrappers : ran[v] # None => ran'[v] = ran[v]
  BY DEF Get_Command_Output, Goto, cacheVars, connVars, faults, TypeOK,
         Results
<1>2. TypeOK'
  <2>1. CASE /\ UNCHANGED <<msg, ran, status>>
             /\ pc' = [pc EXCEPT ![w] = "died"]
    BY <2>1
    DEF Get_Command_Output, Goto, cacheVars, connVars, faults, TypeOK, Final
  <2>2. ASSUME NEW output \in Outputs, NEW code \in {0, 1},
               msg' = [msg EXCEPT ![w] = output],
               ran' = [ran EXCEPT ![w] = [output |-> output, code |-> code]],
               status' = [status EXCEPT ![w] = code],
               pc' = [pc EXCEPT ![w] = IF code = 0 \/ ~IsGnatwhy3(w)
                                       THEN "store" ELSE "print"]
        PROVE  TypeOK'
    BY <2>2
    DEF Get_Command_Output, Goto, cacheVars, connVars, faults, TypeOK, Final
  <2> QED BY <2>1, <2>2
     DEF Get_Command_Output, Goto, cacheVars, connVars, faults
<1>3. Results'
  <2>1. request[w] = "none" /\ ran[w] = None
    BY DEF Get_Command_Output, Goto, cacheVars, connVars, faults, Replies,
           Final, Results
  <2>2. CASE /\ UNCHANGED <<msg, ran, status>>
             /\ pc' = [pc EXCEPT ![w] = "died"]
    BY <1>1, <2>1, <2>2, RunsStay
    DEF Get_Command_Output, Goto, cacheVars, connVars, faults, TypeOK,
        Results, Ran, Cacheable
  <2>3. ASSUME NEW output \in Outputs, NEW code \in {0, 1},
               msg' = [msg EXCEPT ![w] = output],
               ran' = [ran EXCEPT ![w] = [output |-> output, code |-> code]],
               pc' = [pc EXCEPT ![w] = IF code = 0 \/ ~IsGnatwhy3(w)
                                       THEN "store" ELSE "print"]
        PROVE  Results'
    <3>1. ran'[w] = [output |-> output, code |-> code] /\ msg'[w] = output
      BY <2>3 DEF TypeOK
    <3>2. ran'[w] # None /\ Ran(w, msg[w])'
      BY <1>2, <2>3, <3>1, ResultCacheAssumption DEF TypeOK, Ran
    <3>3. pc'[w] \in {"store", "print"} /\ (pc'[w] = "store" => Cacheable(w)')
      BY <2>3, <3>1 DEF TypeOK, Cacheable, IsGnatwhy3
    <3>4. \A v \in Wrappers \ {w} : /\ ran'[v] = ran[v] /\ msg'[v] = msg[v]
                                   /\ pc'[v] = pc[v]
      BY <2>3 DEF TypeOK
    <3> QED BY <1>1, <2>1, <3>2, <3>3, <3>4, RunsStay
            DEF Get_Command_Output, Goto, cacheVars, connVars, faults,
                Results, Ran, Cacheable
  <2> QED BY <2>2, <2>3
     DEF Get_Command_Output, Goto, cacheVars, connVars, faults
<1>4. Connections'
  <2>1. conn[w] # "none" \/ kind = "file"
    BY DEF Get_Command_Output, Goto, cacheVars, connVars, faults, Connections,
           TypeOK, Final
  <2> QED BY <2>1
     DEF Get_Command_Output, Goto, cacheVars, connVars, faults, TypeOK,
         Connections, Final
<1>5. Replies'
  <2>1. /\ pc'[w] \in {"store", "print", "died"} /\ pc[w] = "run"
        /\ \A v \in Wrappers \ {w} : pc'[v] = pc[v]
        /\ UNCHANGED <<request, reply, got>>
    BY DEF Get_Command_Output, Goto, cacheVars, connVars, faults, TypeOK
  <2> QED BY <1>1, <2>1, RunsStay DEF Replies, Final
<1>6. StoreIsGood'
  BY <1>1, RunsStay
  DEF Get_Command_Output, Goto, cacheVars, connVars, faults, TypeOK,
      StoreIsGood
<1>7. Printed'
  BY <1>1, RunsStay
  DEF Get_Command_Output, Goto, cacheVars, connVars, faults, TypeOK, Printed,
      Results
<1> QED BY <1>2, <1>3, <1>4, <1>5, <1>6, <1>7

LEMMA StepPutLine ==
  ASSUME IInv, NEW w \in Wrappers, Put_Line(w) PROVE IInv'
<1> USE DEF IInv
<1>1. \A v \in Wrappers : ran[v] # None => ran'[v] = ran[v]
  BY DEF Put_Line, Goto, cacheVars, connVars, faults, TypeOK, Results
<1>2. TypeOK'
  <2>1. msg[w] \in Outputs
    BY DEF Put_Line, Goto, cacheVars, connVars, faults, TypeOK, Results, Good,
           Ran
  <2> QED BY <2>1
     DEF Put_Line, Goto, cacheVars, connVars, faults, TypeOK, Final
<1>3. Results'
  BY <1>1, RunsStay
  DEF Put_Line, Goto, cacheVars, connVars, faults, TypeOK, Results, Ran
<1>4. Connections'
  BY DEF Put_Line, Goto, cacheVars, connVars, faults, TypeOK, Connections,
         Final
<1>5. Replies'
  BY <1>1, RunsStay
  DEF Put_Line, Goto, cacheVars, connVars, faults, TypeOK, Replies, Final
<1>6. StoreIsGood'
  BY <1>1, RunsStay
  DEF Put_Line, Goto, cacheVars, connVars, faults, TypeOK, StoreIsGood
<1>7. Printed'
  <2>1. /\ ran[w] = None => Good(Key[w], msg[w])
        /\ ran[w] # None => ran[w].output = msg[w]
    BY DEF Put_Line, Goto, cacheVars, connVars, faults, Results
  <2>2. stdout'[w] = msg[w] /\ pc'[w] = "done"
    BY DEF Put_Line, Goto, cacheVars, connVars, faults, TypeOK
  <2>3. \A v \in Wrappers \ {w} : stdout'[v] = stdout[v] /\ pc'[v] = pc[v]
    BY DEF Put_Line, Goto, cacheVars, connVars, faults, TypeOK
  <2> QED BY <1>1, <2>1, <2>2, <2>3, RunsStay
     DEF Put_Line, Goto, cacheVars, connVars, faults, Printed, Ran
<1> QED BY <1>2, <1>3, <1>4, <1>5, <1>6, <1>7

LEMMA StepCreateTempFile ==
  ASSUME IInv, NEW w \in Wrappers, Create_Temp_File(w) PROVE IInv'
<1> USE DEF IInv
<1>1. \A v \in Wrappers : ran[v] # None => ran'[v] = ran[v]
  BY DEF Create_Temp_File, Goto, cacheVars, connVars, runVars, faults, TypeOK,
         Results
<1>2. TypeOK'
  <2>1. <<>> \in Seq(Texts)
    OBVIOUS
  <2>2. temp' \in [Wrappers -> Seq(Texts) \cup {None}]
    BY <2>1
    DEF Create_Temp_File, Goto, cacheVars, connVars, runVars, faults, TypeOK
  <2>3. pc' \in [Wrappers -> {"init", "lookup", "read", "asked", "run", "store",
                             "write", "rename", "delete", "told", "print"}
                            \cup Final]
    <3>1. \E label \in {"write", "died"} : pc' = [pc EXCEPT ![w] = label]
      BY DEF Create_Temp_File, Goto, cacheVars, connVars, runVars, faults
    <3> QED BY <3>1 DEF TypeOK, Final
  <2> QED BY <2>2, <2>3
     DEF Create_Temp_File, Goto, cacheVars, connVars, runVars, faults, TypeOK
<1>3. Results'
  BY <1>1, RunsStay
  DEF Create_Temp_File, Goto, cacheVars, connVars, runVars, faults, TypeOK,
      Results, Ran
<1>4. Connections'
  BY DEF Create_Temp_File, Goto, cacheVars, connVars, runVars, faults, TypeOK,
         Connections, Final
<1>5. Replies'
  BY <1>1, RunsStay
  DEF Create_Temp_File, Goto, cacheVars, connVars, runVars, faults, TypeOK,
      Replies, Final
<1>6. StoreIsGood'
  BY <1>1, RunsStay
  DEF Create_Temp_File, Goto, cacheVars, connVars, runVars, faults, TypeOK,
      StoreIsGood
<1>7. Printed'
  BY <1>1, RunsStay
  DEF Create_Temp_File, Goto, cacheVars, connVars, runVars, faults, TypeOK,
      Printed, Results
<1> QED BY <1>2, <1>3, <1>4, <1>5, <1>6, <1>7

LEMMA StepWrite ==
  ASSUME IInv, NEW w \in Wrappers, Write(w) PROVE IInv'
<1> USE DEF IInv
<1>1. \A v \in Wrappers : ran[v] # None => ran'[v] = ran[v]
  BY DEF Write, Goto, cacheVars, connVars, runVars, faults, TypeOK, Results
<1>2. TypeOK'
  <2>1. msg[w] \in Seq(Texts)
    BY OutputType DEF TypeOK
  <2>2. \A n \in 0..(Len(msg[w]) - 1) : SubSeq(msg[w], 1, n) \in Seq(Texts)
    BY <2>1
  <2>3. \/ temp' = [temp EXCEPT ![w] = msg[w]]
        \/ \E n \in 0..(Len(msg[w]) - 1) :
             temp' = [temp EXCEPT ![w] = SubSeq(msg[w], 1, n)]
        \/ temp' = temp
    BY DEF Write, Goto, cacheVars, connVars, runVars, faults
  <2>4. temp' \in [Wrappers -> Seq(Texts) \cup {None}]
    BY <2>1, <2>2, <2>3 DEF TypeOK
  <2> QED BY <2>4
     DEF Write, Goto, cacheVars, connVars, runVars, faults, TypeOK, Final
<1>3. Results'
  BY <1>1, RunsStay
  DEF Write, Goto, cacheVars, connVars, runVars, faults, TypeOK, Results, Ran
<1>4. Connections'
  BY DEF Write, Goto, cacheVars, connVars, runVars, faults, TypeOK,
         Connections, Final
<1>5. Replies'
  BY <1>1, RunsStay
  DEF Write, Goto, cacheVars, connVars, runVars, faults, TypeOK, Replies,
      Final
<1>6. StoreIsGood'
  BY <1>1, RunsStay
  DEF Write, Goto, cacheVars, connVars, runVars, faults, TypeOK, StoreIsGood
<1>7. Printed'
  <2>1. Ran(w, msg[w])
    BY DEF Write, Goto, cacheVars, connVars, runVars, faults, Results
  <2>2. pc'[w] = "died" => kind = "file" /\ ran[w].output = <<>>
    BY <2>1
    DEF Write, Goto, cacheVars, connVars, runVars, faults, TypeOK,
        Connections, Ran
  <2>3. /\ \A v \in Wrappers : pc'[v] = "done" => pc[v] = "done"
        /\ \A v \in Wrappers \ {w} : temp'[v] = temp[v] /\ pc'[v] = pc[v]
    BY DEF Write, Goto, cacheVars, connVars, runVars, faults, TypeOK
  <2> QED BY <1>1, <2>2, <2>3, RunsStay
     DEF Write, Goto, cacheVars, connVars, runVars, faults, TypeOK, Printed
<1> QED BY <1>2, <1>3, <1>4, <1>5, <1>6, <1>7

LEMMA StepRenameFile ==
  ASSUME IInv, NEW w \in Wrappers, Rename_File(w) PROVE IInv'
<1> USE DEF IInv
<1>1. \A v \in Wrappers : ran[v] # None => ran'[v] = ran[v]
  BY DEF Rename_File, Goto, connVars, runVars, faults, TypeOK, Results
<1>2. TypeOK'
  <2>1. temp[w] \in Outputs
    BY DEF Rename_File, Goto, connVars, runVars, faults, TypeOK, Results, Ran
  <2> QED BY <2>1
     DEF Rename_File, Goto, connVars, runVars, faults, TypeOK, Final
<1>3. Results'
  BY <1>1, RunsStay
  DEF Rename_File, Goto, connVars, runVars, faults, TypeOK, Results, Ran
<1>4. Connections'
  <2>1. temp[w] # None
    BY ResultCacheAssumption, OutputType
    DEF Rename_File, Goto, connVars, runVars, faults, TypeOK, Results, Ran
  <2>2. \A k \in Keys : store[k] # None => store'[k] # None
    BY <2>1 DEF Rename_File, Goto, connVars, runVars, faults, TypeOK
  <2> QED BY <2>2, KeyType
     DEF Rename_File, Goto, connVars, runVars, faults, TypeOK, Connections,
         Final
<1>5. Replies'
  BY <1>1, RunsStay
  DEF Rename_File, Goto, connVars, runVars, faults, TypeOK, Replies, Final
<1>6. StoreIsGood'
  <2>1. Good(Key[w], temp[w])
    BY DEF Rename_File, Goto, connVars, runVars, faults, Results, Good
  <2>2. \A k \in Keys : store'[k] = store[k] \/ (k = Key[w] /\ store'[k] = temp[w])
    BY DEF Rename_File, Goto, connVars, runVars, faults, TypeOK
  <2> QED BY <1>1, <2>1, <2>2, RunsStay DEF StoreIsGood
<1>7. Printed'
  BY <1>1, RunsStay
  DEF Rename_File, Goto, connVars, runVars, faults, TypeOK, Printed, Results
<1> QED BY <1>2, <1>3, <1>4, <1>5, <1>6, <1>7

LEMMA StepDeleteFile ==
  ASSUME IInv, NEW w \in Wrappers, Delete_File(w) PROVE IInv'
<1> USE DEF IInv
<1>1. \A v \in Wrappers : ran[v] # None => ran'[v] = ran[v]
  BY DEF Delete_File, Goto, cacheVars, connVars, runVars, faults, TypeOK,
         Results
<1>2. TypeOK'
  BY DEF Delete_File, Goto, cacheVars, connVars, runVars, faults, TypeOK,
         Final
<1>3. Results'
  BY <1>1, RunsStay
  DEF Delete_File, Goto, cacheVars, connVars, runVars, faults, TypeOK,
      Results, Ran
<1>4. Connections'
  BY DEF Delete_File, Goto, cacheVars, connVars, runVars, faults, TypeOK,
         Connections, Final
<1>5. Replies'
  BY <1>1, RunsStay
  DEF Delete_File, Goto, cacheVars, connVars, runVars, faults, TypeOK,
      Replies, Final
<1>6. StoreIsGood'
  BY <1>1, RunsStay
  DEF Delete_File, Goto, cacheVars, connVars, runVars, faults, TypeOK,
      StoreIsGood
<1>7. Printed'
  BY <1>1, RunsStay
  DEF Delete_File, Goto, cacheVars, connVars, runVars, faults, TypeOK,
      Printed, Results
<1> QED BY <1>2, <1>3, <1>4, <1>5, <1>6, <1>7

LEMMA StepSendGet ==
  ASSUME IInv, NEW w \in Wrappers, Send_Get(w) PROVE IInv'
<1> USE DEF IInv
<1>1. \A v \in Wrappers : ran[v] # None => ran'[v] = ran[v]
  BY DEF Send_Get, Goto, Send, Connected, Report_Error, cacheVars, runVars,
         faults, TypeOK, Results
<1>2. TypeOK'
  BY DEF Send_Get, Goto, Send, Connected, Report_Error, cacheVars, runVars,
         faults, TypeOK, Final
<1>3. Results'
  BY <1>1, RunsStay
  DEF Send_Get, Goto, Send, Connected, Report_Error, cacheVars, runVars,
      faults, TypeOK, Results, Ran
<1>4. Connections'
  <2>1. /\ pc'[w] \in {"asked", "done"} /\ kind = "memcached" /\ conn[w] # "none"
        /\ \A v \in Wrappers \ {w} : pc'[v] = pc[v]
        /\ UNCHANGED <<kind, store, conn>>
    BY DEF Send_Get, Goto, Send, Connected, Report_Error, cacheVars, runVars,
           faults, TypeOK, Connections, Final
  <2> QED BY <2>1 DEF Connections, Final
<1>5. Replies'
  <2>1. request[w] = "none" /\ reply[w] = <<>> /\ got[w] = 0
    BY DEF Send_Get, Goto, Send, Connected, Report_Error, cacheVars, runVars,
           faults, Replies, Final
  <2>2. \/ pc' = [pc EXCEPT ![w] = "asked"] /\ request' = [request EXCEPT ![w] = "get"]
        \/ pc' = [pc EXCEPT ![w] = "done"] /\ request' = request
    BY DEF Send_Get, Goto, Send, Connected, Report_Error, cacheVars, runVars,
           faults
  <2> QED BY <1>1, <2>1, <2>2, RunsStay
     DEF Send_Get, Goto, Send, Connected, Report_Error, cacheVars, runVars,
         faults, TypeOK, Replies, Final
<1>6. StoreIsGood'
  BY <1>1, RunsStay
  DEF Send_Get, Goto, Send, Connected, Report_Error, cacheVars, runVars,
      faults, TypeOK, StoreIsGood
<1>7. Printed'
  BY <1>1, RunsStay
  DEF Send_Get, Goto, Send, Connected, Report_Error, cacheVars, runVars,
      faults, TypeOK, Printed, Results
<1> QED BY <1>2, <1>3, <1>4, <1>5, <1>6, <1>7

LEMMA StepReceiveAnswerOfGet ==
  ASSUME IInv, NEW w \in Wrappers, Receive_Answer_Of_Get(w) PROVE IInv'
<1> USE DEF IInv
<1>1. \A v \in Wrappers : ran[v] # None => ran'[v] = ran[v]
  BY DEF Receive_Answer_Of_Get, Goto, Found, Ends_With_Marker, cacheVars,
         faults, TypeOK, Results
<1>2. TypeOK'
  <2>1. CASE UNCHANGED <<pc, msg, reply>>
    <3>1. PICK n \in (got[w] + 1)..Len(reply[w]) :
            got' = [got EXCEPT ![w] = 0] \/ got' = [got EXCEPT ![w] = n]
      BY DEF Receive_Answer_Of_Get, Goto, Found, Ends_With_Marker, cacheVars,
             faults
    <3>2. n \in Nat
      BY DEF TypeOK
    <3>3. got' \in [Wrappers -> Nat]
      <4>1. CASE got' = [got EXCEPT ![w] = 0]
        BY <4>1 DEF TypeOK
      <4>2. CASE got' = [got EXCEPT ![w] = n]
        BY <3>2, <4>2 DEF TypeOK
      <4> QED BY <3>1, <4>1, <4>2
    <3> QED BY <2>1, <3>3
       DEF Receive_Answer_Of_Get, Goto, Found, Ends_With_Marker, cacheVars,
           faults, TypeOK
  <2>2. ASSUME NEW n \in (got[w] + 1)..Len(reply[w]),
               Ends_With_Marker(SubSeq(reply[w], 1, n)),
               Found(w, Payload(SubSeq(reply[w], 1, n))),
               reply' = [reply EXCEPT ![w] = SubSeq(@, n + 1, Len(@))],
               got' = [got EXCEPT ![w] = 0]
        PROVE  TypeOK'
    <3> PICK p : p = Payload(SubSeq(reply[w], 1, n))
      OBVIOUS
    <3>1. reply[w] \in Answers(w) /\ request[w] = "none" /\ n \in 1..Len(reply[w])
      BY <2>2
      DEF Receive_Answer_Of_Get, Goto, Found, Ends_With_Marker, cacheVars,
          faults, TypeOK, Replies
    <3>2. /\ SubSeq(reply[w], n + 1, Len(reply[w])) = <<>>
          /\ p = <<>> \/ (p \in Outputs /\ Good(Key[w], p))
      BY <2>2, <3>1, AnswerComplete
    <3>3. /\ msg' = [msg EXCEPT ![w] = p]
          /\ pc' = [pc EXCEPT ![w] = IF p = <<>> THEN "run" ELSE "print"]
          /\ reply' = [reply EXCEPT ![w] = <<>>]
      BY <2>2, <3>2 DEF Found, Goto, TypeOK
    <3>4. reply' \in [Wrappers -> Seq(Texts \cup Words)]
      BY <3>3 DEF TypeOK
    <3> QED BY <2>2, <3>2, <3>3, <3>4
       DEF Receive_Answer_Of_Get, Goto, Found, Ends_With_Marker, cacheVars,
           faults, TypeOK, Final
  <2> QED BY <2>1, <2>2
     DEF Receive_Answer_Of_Get, Goto, Found, Ends_With_Marker, cacheVars,
         faults
<1>3. Results'
  <2>1. CASE UNCHANGED <<pc, msg, reply>>
    BY <1>1, <2>1, RunsStay
    DEF Receive_Answer_Of_Get, Goto, Found, Ends_With_Marker, cacheVars,
        faults, TypeOK, Results, Final, Ran
  <2>2. ASSUME NEW n \in (got[w] + 1)..Len(reply[w]),
               Ends_With_Marker(SubSeq(reply[w], 1, n)),
               Found(w, Payload(SubSeq(reply[w], 1, n))),
               reply' = [reply EXCEPT ![w] = SubSeq(@, n + 1, Len(@))],
               got' = [got EXCEPT ![w] = 0]
        PROVE  Results'
    <3> PICK p : p = Payload(SubSeq(reply[w], 1, n))
      OBVIOUS
    <3>1. reply[w] \in Answers(w) /\ request[w] = "none" /\ n \in 1..Len(reply[w])
      BY <2>2
      DEF Receive_Answer_Of_Get, Goto, Found, Ends_With_Marker, cacheVars,
          faults, TypeOK, Replies
    <3>2. /\ SubSeq(reply[w], n + 1, Len(reply[w])) = <<>>
          /\ p = <<>> \/ (p \in Outputs /\ Good(Key[w], p))
      BY <2>2, <3>1, AnswerComplete
    <3>3. /\ msg' = [msg EXCEPT ![w] = p]
          /\ pc' = [pc EXCEPT ![w] = IF p = <<>> THEN "run" ELSE "print"]
          /\ reply' = [reply EXCEPT ![w] = <<>>]
      BY <2>2, <3>2 DEF Found, Goto, TypeOK
    <3>4. ran[w] = None /\ ran' = ran
      BY DEF Receive_Answer_Of_Get, Goto, Found, Ends_With_Marker, cacheVars,
             faults, Results
    <3>5. p # <<>> => Good(Key[w], p)'
      BY <1>1, <3>2, RunsStay
    <3> QED BY <1>1, <3>1, <3>3, <3>4, <3>5, RunsStay
            DEF Receive_Answer_Of_Get, Goto, Found, Ends_With_Marker,
                cacheVars, faults, TypeOK, Results, Ran
  <2> QED BY <2>1, <2>2
     DEF Receive_Answer_Of_Get, Goto, Found, Ends_With_Marker, cacheVars,
         faults
<1>4. Connections'
  <2>1. /\ pc'[w] \in {"run", "print", "asked"} /\ pc[w] = "asked"
        /\ \A v \in Wrappers \ {w} : pc'[v] = pc[v]
        /\ UNCHANGED <<kind, store, conn>>
    BY DEF Receive_Answer_Of_Get, Goto, Found, Ends_With_Marker, cacheVars,
           faults, TypeOK
  <2> QED BY <2>1 DEF Connections, Final
<1>5. Replies'
  <2>1. CASE UNCHANGED <<pc, msg, reply>>
    <3>1. Len(reply[w]) > 0 /\ pc[w] = "asked"
      BY DEF Receive_Answer_Of_Get, Goto, Found, Ends_With_Marker, cacheVars,
             faults, TypeOK
    <3>2. request[w] = "none" /\ reply[w] \in Answers(w)
      BY <3>1 DEF Replies
    <3>3. UNCHANGED request /\ \A v \in Wrappers \ {w} : got'[v] = got[v]
      BY DEF Receive_Answer_Of_Get, Goto, Found, Ends_With_Marker, cacheVars,
             faults, TypeOK
    <3> QED BY <1>1, <2>1, <3>1, <3>2, <3>3, RunsStay
       DEF TypeOK, Replies, Final
  <2>2. ASSUME NEW n \in (got[w] + 1)..Len(reply[w]),
               Ends_With_Marker(SubSeq(reply[w], 1, n)),
               Found(w, Payload(SubSeq(reply[w], 1, n))),
               reply' = [reply EXCEPT ![w] = SubSeq(@, n + 1, Len(@))],
               got' = [got EXCEPT ![w] = 0]
        PROVE  Replies'
    <3> PICK p : p = Payload(SubSeq(reply[w], 1, n))
      OBVIOUS
    <3>1. reply[w] \in Answers(w) /\ request[w] = "none" /\ n \in 1..Len(reply[w])
      BY <2>2
      DEF Receive_Answer_Of_Get, Goto, Found, Ends_With_Marker, cacheVars,
          faults, TypeOK, Replies
    <3>2. /\ SubSeq(reply[w], n + 1, Len(reply[w])) = <<>>
          /\ p = <<>> \/ (p \in Outputs /\ Good(Key[w], p))
      BY <2>2, <3>1, AnswerComplete
    <3>3. /\ msg' = [msg EXCEPT ![w] = p]
          /\ pc' = [pc EXCEPT ![w] = IF p = <<>> THEN "run" ELSE "print"]
          /\ reply' = [reply EXCEPT ![w] = <<>>]
      BY <2>2, <3>2 DEF Found, Goto, TypeOK
    <3> QED BY <1>1, <2>2, <3>1, <3>3, RunsStay
       DEF Receive_Answer_Of_Get, Goto, Found, Ends_With_Marker, cacheVars,
           faults, TypeOK, Replies, Final
  <2> QED BY <2>1, <2>2
     DEF Receive_Answer_Of_Get, Goto, Found, Ends_With_Marker, cacheVars,
         faults
<1>6. StoreIsGood'
  BY <1>1, RunsStay
  DEF Receive_Answer_Of_Get, Goto, Found, Ends_With_Marker, cacheVars, faults,
      TypeOK, StoreIsGood
<1>7. Printed'
  BY <1>1, RunsStay
  DEF Receive_Answer_Of_Get, Goto, Found, Ends_With_Marker, cacheVars, faults,
      TypeOK, Printed, Results
<1> QED BY <1>2, <1>3, <1>4, <1>5, <1>6, <1>7

LEMMA StepSendSet ==
  ASSUME IInv, NEW w \in Wrappers, Send_Set(w) PROVE IInv'
<1> USE DEF IInv
<1>1. \A v \in Wrappers : ran[v] # None => ran'[v] = ran[v]
  BY DEF Send_Set, Goto, Send, Connected, Report_Error, cacheVars, runVars,
         faults, TypeOK, Results
<1>2. TypeOK'
  BY DEF Send_Set, Goto, Send, Connected, Report_Error, cacheVars, runVars,
         faults, TypeOK, Final
<1>3. Results'
  BY <1>1, RunsStay
  DEF Send_Set, Goto, Send, Connected, Report_Error, cacheVars, runVars,
      faults, TypeOK, Results, Ran
<1>4. Connections'
  <2>1. /\ pc'[w] \in {"told", "done"} /\ kind = "memcached" /\ conn[w] # "none"
        /\ \A v \in Wrappers \ {w} : pc'[v] = pc[v]
        /\ UNCHANGED <<kind, store, conn>>
    BY DEF Send_Set, Goto, Send, Connected, Report_Error, cacheVars, runVars,
           faults, TypeOK, Connections, Final
  <2> QED BY <2>1 DEF Connections, Final
<1>5. Replies'
  <2>1. request[w] = "none" /\ reply[w] = <<>> /\ got[w] = 0
    BY DEF Send_Set, Goto, Send, Connected, Report_Error, cacheVars, runVars,
           faults, Replies, Final
  <2>2. \/ pc' = [pc EXCEPT ![w] = "told"] /\ request' = [request EXCEPT ![w] = "set"]
        \/ pc' = [pc EXCEPT ![w] = "done"] /\ request' = request
    BY DEF Send_Set, Goto, Send, Connected, Report_Error, cacheVars, runVars,
           faults
  <2> QED BY <1>1, <2>1, <2>2, RunsStay
     DEF Send_Set, Goto, Send, Connected, Report_Error, cacheVars, runVars,
         faults, TypeOK, Replies, Final
<1>6. StoreIsGood'
  BY <1>1, RunsStay
  DEF Send_Set, Goto, Send, Connected, Report_Error, cacheVars, runVars,
      faults, TypeOK, StoreIsGood
<1>7. Printed'
  <2>1. conn[w] # "none"
    BY DEF Send_Set, Goto, Send, Connected, Report_Error, cacheVars, runVars,
           faults, Connections, Final
  <2>2. pc'[w] = "done" => stdout'[w] = <<"error">> /\ conn'[w] \in {"closed", "reset"}
    BY <2>1
    DEF Send_Set, Goto, Send, Connected, Report_Error, cacheVars, runVars,
        faults, TypeOK
  <2>3. pc'[w] \in {"done", "told"} /\ UNCHANGED <<ran, conn, kind, temp>>
    BY DEF Send_Set, Goto, Send, Connected, Report_Error, cacheVars, runVars,
           faults, TypeOK
  <2>4. \A v \in Wrappers \ {w} : stdout'[v] = stdout[v] /\ pc'[v] = pc[v]
    BY DEF Send_Set, Goto, Send, Connected, Report_Error, cacheVars, runVars,
           faults, TypeOK
  <2> QED BY <1>1, <2>2, <2>3, <2>4, RunsStay DEF Printed
<1> QED BY <1>2, <1>3, <1>4, <1>5, <1>6, <1>7

LEMMA StepReceiveAnswerOfSet ==
  ASSUME IInv, NEW w \in Wrappers, Receive_Answer_Of_Set(w) PROVE IInv'
<1> USE DEF IInv
<1>1. \A v \in Wrappers : ran[v] # None => ran'[v] = ran[v]
  BY DEF Receive_Answer_Of_Set, Goto, Expected, cacheVars, runVars, faults,
         TypeOK, Results
<1>2. TypeOK'
  BY DEF Receive_Answer_Of_Set, Goto, Expected, cacheVars, runVars, faults,
         TypeOK, Final
<1>3. Results'
  BY <1>1, RunsStay
  DEF Receive_Answer_Of_Set, Goto, Expected, cacheVars, runVars, faults,
      TypeOK, Results, Ran
<1>4. Connections'
  BY DEF Receive_Answer_Of_Set, Goto, Expected, cacheVars, runVars, faults,
         TypeOK, Connections, Final
<1>5. Replies'
  <2>1. got[w] = 0 /\ reply[w] \in {<<>>, <<"STORED">>, <<"SERVER_ERROR">>}
    BY DEF Receive_Answer_Of_Set, Goto, Expected, cacheVars, runVars, faults,
           Replies
  <2>2. PICK n \in (got[w] + 1)..Len(reply[w]) :
          /\ reply' = [reply EXCEPT ![w] = SubSeq(reply[w], n + 1, Len(reply[w]))]
          /\ got' = [got EXCEPT ![w] = 0]
          /\ pc' = [pc EXCEPT ![w] = IF Expected(SubSeq(reply[w], 1, n))
                                     THEN "print" ELSE "died"]
    BY DEF Receive_Answer_Of_Set, Goto, Expected, cacheVars, runVars, faults
  <2>3. n \in 1..Len(reply[w])
    BY <2>1
  <2>4. Len(reply[w]) = 1 /\ n = 1
    BY <2>1, <2>3, OneLine
  <2>5. SubSeq(reply[w], 2, 1) = <<>>
    BY DEF TypeOK
  <2>6. SubSeq(reply[w], n + 1, Len(reply[w])) = <<>>
    BY <2>4, <2>5
  <2>7. reply' = [reply EXCEPT ![w] = <<>>]
    BY <2>2, <2>6
  <2>8. reply[w] # <<>>
    BY <2>4
  <2>9. pc'[w] \in {"print", "died"} /\ pc[w] = "told" /\ request[w] = "none"
    BY <2>2, <2>8
    DEF Receive_Answer_Of_Set, Goto, Expected, cacheVars, runVars, faults,
        TypeOK, Replies
  <2>10. UNCHANGED request /\ \A v \in Wrappers \ {w} : pc'[v] = pc[v]
    BY <2>2
    DEF Receive_Answer_Of_Set, Goto, Expected, cacheVars, runVars, faults,
        TypeOK
  <2> QED BY <1>1, <2>2, <2>7, <2>9, <2>10, RunsStay
     DEF TypeOK, Replies, Final
<1>6. StoreIsGood'
  BY <1>1, RunsStay
  DEF Receive_Answer_Of_Set, Goto, Expected, cacheVars, runVars, faults,
      TypeOK, StoreIsGood
<1>7. Printed'
  <2>1. PICK n \in (got[w] + 1)..Len(reply[w]) :
          pc' = [pc EXCEPT ![w] = IF Expected(SubSeq(reply[w], 1, n))
                                  THEN "print" ELSE "died"]
    BY DEF Receive_Answer_Of_Set, Goto, Expected, cacheVars, runVars, faults
  <2>2. got[w] = 0 /\ reply[w] \in {<<>>, <<"STORED">>, <<"SERVER_ERROR">>}
    BY DEF Receive_Answer_Of_Set, Goto, Expected, cacheVars, runVars, faults,
           Replies
  <2>3. n \in 1..Len(reply[w])
    BY <2>2
  <2>4. Len(reply[w]) = 1 /\ n = 1 /\ Expected(reply[w])
    BY <2>2, <2>3, OneLine
  <2>5. SubSeq(reply[w], 1, Len(reply[w])) = reply[w]
    BY DEF TypeOK
  <2>6. Expected(SubSeq(reply[w], 1, n))
    BY <2>4, <2>5
  <2>7. pc'[w] = "print"
    BY <2>1, <2>6 DEF TypeOK
  <2>8. \A v \in Wrappers \ {w} : pc'[v] = pc[v]
    BY <2>1 DEF TypeOK
  <2> QED BY <1>1, <2>7, <2>8, RunsStay
     DEF Receive_Answer_Of_Set, Goto, Expected, cacheVars, runVars, faults,
         Printed
<1> QED BY <1>2, <1>3, <1>4, <1>5, <1>6, <1>7

LEMMA StepReceiveFails ==
  ASSUME IInv, NEW w \in Wrappers, Receive_Fails(w) PROVE IInv'
<1> USE DEF IInv
<1>1. \A v \in Wrappers : ran[v] # None => ran'[v] = ran[v]
  BY DEF Receive_Fails, Goto, Report_Error, cacheVars, connVars, faults,
         TypeOK, Results
<1>2. TypeOK'
  BY DEF Receive_Fails, Goto, Report_Error, cacheVars, connVars, faults,
         TypeOK, Final
<1>3. Results'
  BY <1>1, RunsStay
  DEF Receive_Fails, Goto, Report_Error, cacheVars, connVars, faults, TypeOK,
      Results, Ran
<1>4. Connections'
  BY DEF Receive_Fails, Goto, Report_Error, cacheVars, connVars, faults,
         TypeOK, Connections, Final
<1>5. Replies'
  BY <1>1, RunsStay
  DEF Receive_Fails, Goto, Report_Error, cacheVars, connVars, faults, TypeOK,
      Replies, Final
<1>6. StoreIsGood'
  BY <1>1, RunsStay
  DEF Receive_Fails, Goto, Report_Error, cacheVars, connVars, faults, TypeOK,
      StoreIsGood
<1>7. Printed'
  BY <1>1, RunsStay
  DEF Receive_Fails, Goto, Report_Error, cacheVars, connVars, faults, TypeOK,
      Printed, Results
<1> QED BY <1>2, <1>3, <1>4, <1>5, <1>6, <1>7

LEMMA StepServerGet ==
  ASSUME IInv, NEW w \in Wrappers, Server_Get(w) PROVE IInv'
<1> USE DEF IInv
<1>1. \A v \in Wrappers : ran[v] # None => ran'[v] = ran[v]
  BY DEF Server_Get, Connected, cacheVars, runVars, faults, TypeOK, Results
<1>2. TypeOK'
  <2>1. store[Key[w]] \in Outputs \cup {None}
    BY KeyType DEF TypeOK
  <2>2. Answer(store[Key[w]]) \in Seq(Texts \cup Words)
    BY <2>1, AnswerType
  <2>3. <<"SERVER_ERROR">> \in Seq(Texts \cup Words) /\ reply[w] \in Seq(Texts \cup Words)
    BY DEF Words, TypeOK
  <2>4. /\ reply[w] \o Answer(store[Key[w]]) \in Seq(Texts \cup Words)
        /\ reply[w] \o <<"SERVER_ERROR">> \in Seq(Texts \cup Words)
    BY <2>2, <2>3
  <2>5. reply' \in [Wrappers -> Seq(Texts \cup Words)]
    BY <2>4 DEF Server_Get, Connected, cacheVars, runVars, faults, TypeOK
  <2> QED BY <2>5
     DEF Server_Get, Connected, cacheVars, runVars, faults, TypeOK
<1>3. Results'
  BY <1>1, RunsStay
  DEF Server_Get, Connected, cacheVars, runVars, faults, TypeOK, Results, Ran
<1>4. Connections'
  BY DEF Server_Get, Connected, cacheVars, runVars, faults, TypeOK,
         Connections, Final
<1>5. Replies'
  <2>1. store[Key[w]] \in Outputs \cup {None} /\ Answer(store[Key[w]]) \in Answers(w)
    BY KeyType DEF TypeOK, StoreIsGood, Answers
  <2>2. <<"SERVER_ERROR">> \in Answers(w)
    BY DEF Answers
  <2>3. /\ Answer(store[Key[w]]) \in Seq(Texts \cup Words)
        /\ <<"SERVER_ERROR">> \in Seq(Texts \cup Words)
    BY <2>1, AnswerType DEF Words
  <2>4. ASSUME reply[w] = <<>>
        PROVE  /\ reply[w] \o Answer(store[Key[w]]) = Answer(store[Key[w]])
               /\ reply[w] \o <<"SERVER_ERROR">> = <<"SERVER_ERROR">>
    BY <2>3, <2>4
  <2>5. reply[w] = <<>> => reply'[w] \in Answers(w)
    BY <2>1, <2>2, <2>4
    DEF Server_Get, Connected, cacheVars, runVars, faults, TypeOK
  <2>6. /\ request'[w] = "none"
        /\ \A v \in Wrappers \ {w} :
              reply'[v] = reply[v] /\ request'[v] = request[v]
    BY DEF Server_Get, Connected, cacheVars, runVars, faults, TypeOK
  <2>7. reply[w] = <<>> => reply'[w] \in Answers(w)'
    BY <1>1, <2>5, RunsStay
  <2> QED BY <1>1, <2>6, <2>7, RunsStay
     DEF Server_Get, Connected, cacheVars, runVars, faults, Replies
<1>6. StoreIsGood'
  BY <1>1, RunsStay
  DEF Server_Get, Connected, cacheVars, runVars, faults, TypeOK, StoreIsGood
<1>7. Printed'
  BY <1>1, RunsStay
  DEF Server_Get, Connected, cacheVars, runVars, faults, TypeOK, Printed,
      Results
<1> QED BY <1>2, <1>3, <1>4, <1>5, <1>6, <1>7

LEMMA StepServerSet ==
  ASSUME IInv, NEW w \in Wrappers, Server_Set(w) PROVE IInv'
<1> USE DEF IInv
<1>1. \A v \in Wrappers : ran[v] # None => ran'[v] = ran[v]
  BY DEF Server_Set, Connected, runVars, faults, TypeOK, Results
<1>2. TypeOK'
  <2>1. msg[w] \in Outputs
    BY DEF Server_Set, Connected, runVars, faults, TypeOK, Results, Ran
  <2>2. /\ reply[w] \in Seq(Texts \cup Words) /\ <<"STORED">> \in Seq(Texts \cup Words)
        /\ <<"SERVER_ERROR">> \in Seq(Texts \cup Words)
    BY DEF Words, TypeOK
  <2>3. /\ reply[w] \o <<"STORED">> \in Seq(Texts \cup Words)
        /\ reply[w] \o <<"SERVER_ERROR">> \in Seq(Texts \cup Words)
    BY <2>2
  <2> QED BY <2>1, <2>3
     DEF Server_Set, Connected, runVars, faults, TypeOK, Final
<1>3. Results'
  BY <1>1, RunsStay
  DEF Server_Set, Connected, runVars, faults, TypeOK, Results, Ran
<1>4. Connections'
  BY DEF Server_Set, Connected, runVars, faults, TypeOK, Connections, Final
<1>5. Replies'
  <2>1. ASSUME reply[w] = <<>>
        PROVE  /\ reply[w] \o <<"STORED">> = <<"STORED">>
               /\ reply[w] \o <<"SERVER_ERROR">> = <<"SERVER_ERROR">>
    BY <2>1
  <2>2. pc[w] \in Final \cup {"told"}
    BY DEF Server_Set, Connected, runVars, faults, Replies
  <2>3. /\ request'[w] = "none"
        /\ reply[w] = <<>> => reply'[w] \in {<<"STORED">>, <<"SERVER_ERROR">>}
        /\ \A v \in Wrappers \ {w} : reply'[v] = reply[v] /\ request'[v] = request[v]
    BY <2>1 DEF Server_Set, Connected, runVars, faults, TypeOK
  <2> QED BY <1>1, <2>2, <2>3, RunsStay
     DEF Server_Set, Connected, runVars, faults, Replies, Final
<1>6. StoreIsGood'
  <2>1. Good(Key[w], msg[w])
    BY DEF Server_Set, Connected, runVars, faults, Results, Good
  <2>2. \A k \in Keys : store'[k] = store[k] \/ (k = Key[w] /\ store'[k] = msg[w])
    BY DEF Server_Set, Connected, runVars, faults, TypeOK
  <2> QED BY <1>1, <2>1, <2>2, RunsStay DEF StoreIsGood
<1>7. Printed'
  BY <1>1, RunsStay
  DEF Server_Set, Connected, runVars, faults, TypeOK, Printed, Results
<1> QED BY <1>2, <1>3, <1>4, <1>5, <1>6, <1>7

LEMMA StepServerCloses ==
  ASSUME IInv, NEW w \in Wrappers, Server_Closes(w) PROVE IInv'
<1> USE DEF IInv
<1>1. \A v \in Wrappers : ran[v] # None => ran'[v] = ran[v]
  BY DEF Server_Closes, Connected, cacheVars, runVars, TypeOK, Results
<1>2. TypeOK'
  BY DEF Server_Closes, Connected, cacheVars, runVars, TypeOK, Final
<1>3. Results'
  BY <1>1, RunsStay
  DEF Server_Closes, Connected, cacheVars, runVars, TypeOK, Results, Ran
<1>4. Connections'
  BY DEF Server_Closes, Connected, cacheVars, runVars, TypeOK, Connections,
         Final
<1>5. Replies'
  BY <1>1, RunsStay
  DEF Server_Closes, Connected, cacheVars, runVars, TypeOK, Replies, Final
<1>6. StoreIsGood'
  BY <1>1, RunsStay
  DEF Server_Closes, Connected, cacheVars, runVars, TypeOK, StoreIsGood
<1>7. Printed'
  BY <1>1, RunsStay
  DEF Server_Closes, Connected, cacheVars, runVars, TypeOK, Printed, Results
<1> QED BY <1>2, <1>3, <1>4, <1>5, <1>6, <1>7

LEMMA StepKillWrapper ==
  ASSUME IInv, NEW w \in Wrappers, KillWrapper(w) PROVE IInv'
<1> USE DEF IInv
<1>1. \A v \in Wrappers : ran[v] # None => ran'[v] = ran[v]
  BY DEF KillWrapper, Goto, cacheVars, connVars, runVars, TypeOK, Results
<1>2. TypeOK'
  BY DEF KillWrapper, Goto, cacheVars, connVars, runVars, TypeOK, Final
<1>3. Results'
  BY <1>1, RunsStay
  DEF KillWrapper, Goto, cacheVars, connVars, runVars, TypeOK, Results, Ran
<1>4. Connections'
  BY DEF KillWrapper, Goto, cacheVars, connVars, runVars, TypeOK, Connections,
         Final
<1>5. Replies'
  BY <1>1, RunsStay
  DEF KillWrapper, Goto, cacheVars, connVars, runVars, TypeOK, Replies, Final
<1>6. StoreIsGood'
  BY <1>1, RunsStay
  DEF KillWrapper, Goto, cacheVars, connVars, runVars, TypeOK, StoreIsGood
<1>7. Printed'
  BY <1>1, RunsStay
  DEF KillWrapper, Goto, cacheVars, connVars, runVars, TypeOK, Printed,
      Results
<1> QED BY <1>2, <1>3, <1>4, <1>5, <1>6, <1>7

LEMMA StepServerEvicts ==
  ASSUME IInv, NEW k \in Keys, Server_Evicts(k) PROVE IInv'
<1> USE DEF IInv
<1>1. \A v \in Wrappers : ran[v] # None => ran'[v] = ran[v]
  BY DEF Server_Evicts, runVars
<1>2. /\ store' = [store EXCEPT ![k] = None] /\ kind = "memcached"
      /\ UNCHANGED <<kind, pc, conn, request, reply, got, temp, msg, ran,
                     status, stdout, kills, closings>>
  BY DEF Server_Evicts, connVars, runVars, faults
<1>3. TypeOK'
  BY <1>2 DEF TypeOK
<1>4. Results' /\ Replies' /\ Printed'
  BY <1>1, <1>2, RunsStay DEF Results, Replies, Printed, Ran, Cacheable
<1>5. Connections'
  BY <1>2 DEF Connections
<1>6. StoreIsGood'
  BY <1>1, <1>2, RunsStay DEF TypeOK, StoreIsGood
<1> QED BY <1>3, <1>4, <1>5, <1>6

LEMMA StepStutter == ASSUME IInv, UNCHANGED vars PROVE IInv'
<1> USE DEF IInv
<1>1. UNCHANGED <<kind, store, pc, conn, request, reply, got, temp, msg, ran,
                  status, stdout, kills, closings>>
  BY DEF vars, cacheVars, connVars, runVars, faults
<1>2. \A v \in Wrappers : ran[v] # None => ran'[v] = ran[v]
  BY <1>1
<1>3. TypeOK' /\ Connections'
  BY <1>1 DEF TypeOK, Connections
<1>4. Results' /\ Replies' /\ StoreIsGood' /\ Printed'
  BY <1>1, <1>2, RunsStay
  DEF Results, Replies, StoreIsGood, Printed, Ran, Cacheable
<1> QED BY <1>3, <1>4

LEMMA NextIInv == IInv /\ [Next]_vars => IInv'
<1> SUFFICES ASSUME IInv, [Next]_vars PROVE IInv'
  OBVIOUS
<1>1. ASSUME NEW w \in Wrappers, Wrapper(w) PROVE IInv'
  <2>1. CASE Client(w)
    BY <2>1, StepSendGet, StepReceiveAnswerOfGet, StepSendSet,
       StepReceiveAnswerOfSet, StepReceiveFails DEF Client
  <2>2. CASE Set(w)
    BY <2>2, StepCreateTempFile, StepWrite, StepRenameFile, StepDeleteFile
    DEF Set
  <2> QED BY <1>1, <2>1, <2>2, StepInitClient, StepExists,
             StepReadFileIntoString, StepGetCommandOutput, StepPutLine
             DEF Wrapper
<1>2. ASSUME NEW w \in Wrappers, Server(w) PROVE IInv'
  BY <1>2, StepServerGet, StepServerSet DEF Server
<1>3. ASSUME NEW w \in Wrappers, Server_Closes(w) \/ KillWrapper(w) PROVE IInv'
  BY <1>3, StepServerCloses, StepKillWrapper
<1> QED BY <1>1, <1>2, <1>3, StepServerEvicts, StepStutter DEF Next

-----------------------------------------------------------------------------
(* IInv holds in every state of every behaviour of the wrappers and of the *)
(* cache they share, with any number of them.                              *)
THEOREM Invariance == Spec => []IInv
<1> QED BY InitIInv, NextIInv, PTL DEF Spec

(* Every variable keeps its type: in particular what is stored is an       *)
(* output, and the answers of the server leave nothing else in msg.        *)
THEOREM TypeCorrect == Spec => []TypeOK
<1>1. IInv => TypeOK
  BY DEF IInv
<1> QED BY <1>1, Invariance, PTL

(* The cache has, for every key, all that one run of a command with this   *)
(* key printed, whatever wrappers were killed, ran out of space or wrote   *)
(* for the same key at the same time.                                      *)
THEOREM StoreSound == Spec => []StoreHasRuns
<1>1. IInv => StoreHasRuns
  BY DEF IInv, StoreIsGood, Good, StoreHasRuns
<1> QED BY <1>1, Invariance, PTL

(* A wrapper prints all that its run printed, or all that a cacheable run  *)
(* of a command with the same key printed, however the answer was cut.     *)
THEOREM OutputsWhole == Spec => []PrintsWholeOutputs
<1>1. IInv => PrintsWholeOutputs
  BY DEF IInv, Printed, Good, PrintsWholeOutputs
<1> QED BY <1>1, Invariance, PTL

(* A wrapper that ran its command reports what the command printed: the    *)
(* cache alone makes it lose this only when the connection was closed.     *)
THEOREM ResultsReported == Spec => []ResultIsReported
<1>1. IInv => ResultIsReported
  BY DEF IInv, Printed, ResultIsReported
<1> QED BY <1>1, Invariance, PTL
=============================================================================
