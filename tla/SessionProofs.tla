---------------------------- MODULE SessionProofs ----------------------------
(***************************************************************************)
(* What holds of Session for every number of clients, threads and puzzles, *)
(* every retry limit, both kinds of verification and every way recv() may  *)
(* cut the streams: type correctness, and that nobody is served before the *)
(* thread of its connection accepted an answer.                            *)
(***************************************************************************)
EXTENDS Session, SequenceTheorems, FiniteSetTheorems, TLAPS

ClientUnits == Units(ClientMessages, Answers)
ServerUnits == Units(ServerMessages, Puzzles)

-----------------------------------------------------------------------------
(* The streams.                                                              *)

(* A recv() returns a nonempty prefix of the units queued and leaves the     *)
(* rest in order.                                                            *)
LEMMA ChunkProperties ==
    ASSUME NEW S, NEW q \in Seq(S), NEW us \in Chunks(q)
    PROVE  /\ us \in Seq(S)
           /\ Len(us) \in 1 .. Len(q)
           /\ us[1] = q[1]
           /\ After(q, us) \in Seq(S)
           /\ \A i \in DOMAIN After(q, us) : \E j \in DOMAIN q : After(q, us)[i] = q[j]
<1>1. PICK n \in 1 .. Len(q) : us = SubSeq(q, 1, n)
  BY DEF Chunks
<1>2. /\ Len(q) \in Nat /\ DOMAIN q = 1 .. Len(q)
      /\ \A i \in 1 .. Len(q) : q[i] \in S
  BY LenProperties, ElementOfSeq
<1>3. us \in Seq(S) /\ Len(us) = n /\ us[1] = q[1]
  BY <1>1, <1>2, SubSeqProperties
<1>4. /\ After(q, us) \in Seq(S)
      /\ Len(After(q, us)) = Len(q) - n
      /\ \A i \in 1 .. Len(q) - n : After(q, us)[i] = q[n + i]
  <2>1. PICK m \in Int : m = n + 1
    OBVIOUS
  <2>2. \A i \in m .. Len(q) : q[i] \in S
    BY <1>2, <2>1
  <2>3. After(q, us) = SubSeq(q, m, Len(q)) /\ Len(q) \in Int
    BY <1>2, <1>3, <2>1 DEF After
  <2>4. /\ SubSeq(q, m, Len(q)) \in Seq(S)
        /\ Len(SubSeq(q, m, Len(q))) = IF m <= Len(q) THEN Len(q) - m + 1 ELSE 0
        /\ \A i \in 1 .. Len(q) - m + 1 : SubSeq(q, m, Len(q))[i] = q[m + i - 1]
    BY <2>2, <2>3, SubSeqProperties
  <2>5. Len(SubSeq(q, m, Len(q))) = Len(q) - n
    <3>1. n \in Int /\ 1 <= n /\ n <= Len(q) /\ Len(q) \in Int
      BY <1>2
    <3>2. CASE m <= Len(q)
      BY <2>1, <2>4, <3>1, <3>2
    <3>3. CASE ~(m <= Len(q))
      BY <2>1, <2>4, <3>1, <3>3
    <3> QED
      BY <3>2, <3>3
  <2>6. \A i \in 1 .. Len(q) - n : SubSeq(q, m, Len(q))[i] = q[n + i]
    BY <1>2, <2>1, <2>4
  <2> QED
    BY <2>3, <2>4, <2>5, <2>6
<1>5. \A i \in DOMAIN After(q, us) : \E j \in DOMAIN q : After(q, us)[i] = q[j]
  <2> SUFFICES ASSUME NEW i \in DOMAIN After(q, us)
               PROVE  \E j \in DOMAIN q : After(q, us)[i] = q[j]
    OBVIOUS
  <2>1. i \in 1 .. Len(After(q, us))
    <3>1. After(q, us) \in Seq(S)
      BY <1>4
    <3> QED
      BY <3>1, LenProperties
  <2>2. i \in 1 .. Len(q) - n
    BY <1>4, <2>1
  <2>3. n + i \in 1 .. Len(q)
    BY <1>2, <2>2
  <2>4. After(q, us)[i] = q[n + i]
    BY <1>4, <2>2
  <2> QED
    BY <1>2, <2>3, <2>4
<1> QED
  BY <1>2, <1>3, <1>4, <1>5

(* A text parses to data its sender put in a payload, or does not parse.     *)
LEMMA ParsedType ==
    ASSUME NEW M, NEW D, NoMsg \notin M, NEW us \in Seq(Units(M, D))
    PROVE  /\ Parsed(us) \subseteq D \cup {Unparsable}
           /\ ClientData(us) \subseteq D \cup {Unparsable}
           /\ ServerData(us) \subseteq D \cup {Unparsable, Wrong}
<1>1. \A i \in PayloadAt(us) : us[i] \in Units(M, D) /\ us[i].msg = NoMsg
  BY LenProperties, ElementOfSeq DEF PayloadAt
<1>2. \A u \in Units(M, D) : u.msg = NoMsg => u.data \in D
  BY DEF Units, Header, Payload
<1>3. Parsed(us) \subseteq D \cup {Unparsable}
  BY <1>1, <1>2 DEF Parsed
<1> QED
  BY <1>3 DEF ClientData, ServerData

(* Only a text whose first unit is a RESOURCE header reads as RESOURCE.      *)
LEMMA TextIsFirst ==
    ASSUME NEW us, NEW m \in ServerMessages, Text(us) = m
    PROVE  us[1].msg = m
BY DEF Text, Garbled, ServerMessages

LEMMA ClientUnitsType ==
    /\ \A m \in ClientMessages : Header(m) \in ClientUnits
    /\ \A d \in Answers : Payload(d) \in ClientUnits
    /\ NoMsg \notin ClientMessages
BY DEF ClientUnits, Units, ClientMessages, NoMsg

LEMMA ServerUnitsType ==
    /\ \A m \in ServerMessages : Header(m) \in ServerUnits
    /\ \A p \in Puzzles : Payload(p) \in ServerUnits
    /\ NoMsg \notin ServerMessages
BY DEF ServerUnits, Units, ServerMessages, NoMsg

-----------------------------------------------------------------------------
(* The helpers of the actions.                                               *)

LEMMA ServerReadsType ==
    ASSUME TypeOK, NEW t \in Threads, NEW at, NEW us, ServerReads(t, at, us)
    PROVE  /\ fd[t] \in Clients
           /\ us \in Seq(ClientUnits)
           /\ toServer' \in [Clients -> Seq(ClientUnits)]
<1>1. /\ fd[t] \in Clients
      /\ toServer \in [Clients -> Seq(ClientUnits)]
      /\ us \in Chunks(toServer[fd[t]])
      /\ toServer' = [toServer EXCEPT ![fd[t]] = After(@, us)]
  BY DEF TypeOK, ServerReads, ClientUnits
<1>2. us \in Seq(ClientUnits) /\ After(toServer[fd[t]], us) \in Seq(ClientUnits)
  BY <1>1, ChunkProperties
<1> QED
  BY <1>1, <1>2

LEMMA ServerCollectsType ==
    ASSUME TypeOK, NEW t \in Threads, NEW us \in Seq(ClientUnits), ServerCollects(t, us)
    PROVE  /\ sHasData' \in [Threads -> BOOLEAN]
           /\ sDataBuf' \in [Threads -> Answers \cup {Unparsable}]
<1>1. Parsed(us) \subseteq Answers \cup {Unparsable}
  BY ParsedType, ClientUnitsType DEF ClientUnits
<1> QED
  BY <1>1 DEF TypeOK, ServerCollects

LEMMA ReplyType ==
    ASSUME TypeOK, NEW t \in Threads, NEW units \in Seq(ServerUnits), Reply(t, units)
    PROVE  toClient' \in [Clients -> Seq(ServerUnits)]
<1>1. toClient \in [Clients -> Seq(ServerUnits)]
  BY DEF TypeOK, ServerUnits
<1>2. fd[t] \in Clients => toClient[fd[t]] \o units \in Seq(ServerUnits)
  BY <1>1, ConcatProperties
<1> QED
  BY <1>1, <1>2 DEF Reply

LEMMA HeaderReply ==
    ASSUME NEW m \in ServerMessages
    PROVE  <<Header(m)>> \in Seq(ServerUnits)
BY ServerUnitsType

LEMMA HandOutType ==
    ASSUME TypeOK, NEW t \in Threads, NEW m \in ServerMessages, NEW p \in Puzzles,
           NEW left \in SUBSET Puzzles, HandOut(t, m, p, left)
    PROVE  /\ toClient' \in [Clients -> Seq(ServerUnits)]
           /\ given' \in [Threads -> Seq(Puzzles)]
           /\ bucket' \subseteq Puzzles
<1>1. PuzzleUnits(m, p) \in Seq(ServerUnits)
  BY ServerUnitsType DEF PuzzleUnits
<1>2. toClient' \in [Clients -> Seq(ServerUnits)]
  BY <1>1, ReplyType DEF HandOut
<1>3. Append(given[t], p) \in Seq(Puzzles)
  BY AppendProperties DEF TypeOK
<1> QED
  BY <1>2, <1>3 DEF HandOut, TypeOK

LEMMA JudgesType ==
    ASSUME TypeOK, NEW t \in Threads, NEW d \in Answers, NEW ok \in BOOLEAN, Judges(t, d, ok)
    PROVE  /\ sDataBuf' \in [Threads -> Answers \cup {Unparsable}]
           /\ verdicts' \in [Threads -> Seq([answer : Answers, ok : BOOLEAN])]
           /\ LeftAfter(d) \in SUBSET Puzzles
<1>1. [answer |-> d, ok |-> ok] \in [answer : Answers, ok : BOOLEAN]
  OBVIOUS
<1>2. Append(verdicts[t], [answer |-> d, ok |-> ok]) \in Seq([answer : Answers, ok : BOOLEAN])
  BY <1>1, AppendProperties DEF TypeOK
<1> QED
  BY <1>2 DEF TypeOK, Judges, DataLeft, LeftAfter

LEMMA ClientReadsType ==
    ASSUME TypeOK, NEW c \in Clients, NEW at, NEW us, ClientReads(c, at, us)
    PROVE  /\ us \in Seq(ServerUnits)
           /\ toClient' \in [Clients -> Seq(ServerUnits)]
<1>1. /\ toClient \in [Clients -> Seq(ServerUnits)]
      /\ us \in Chunks(toClient[c])
      /\ toClient' = [toClient EXCEPT ![c] = After(@, us)]
  BY DEF TypeOK, ClientReads, ServerUnits
<1>2. us \in Seq(ServerUnits) /\ After(toClient[c], us) \in Seq(ServerUnits)
  BY <1>1, ChunkProperties
<1> QED
  BY <1>1, <1>2

LEMMA ClientCollectsType ==
    ASSUME TypeOK, NEW c \in Clients, NEW us \in Seq(ServerUnits), ClientCollects(c, us)
    PROVE  /\ cHasData' \in [Clients -> BOOLEAN]
           /\ cDataBuf' \in [Clients -> Puzzles \cup {Unparsable}]
<1>1. Parsed(us) \subseteq Puzzles \cup {Unparsable}
  BY ParsedType, ServerUnitsType DEF ServerUnits
<1> QED
  BY <1>1 DEF TypeOK, ClientCollects

LEMMA ClientSendsType ==
    ASSUME TypeOK, NEW c \in Clients, NEW units \in Seq(ClientUnits), ClientSends(c, units)
    PROVE  toServer' \in [Clients -> Seq(ClientUnits)]
<1>1. toServer \in [Clients -> Seq(ClientUnits)]
  BY DEF TypeOK, ClientUnits
<1>2. toServer[c] \o units \in Seq(ClientUnits)
  BY <1>1, ConcatProperties
<1> QED
  BY <1>1, <1>2 DEF ClientSends

-----------------------------------------------------------------------------
(* Type correctness.                                                         *)

LEMMA InitTypeOK == Init => TypeOK
<1>1. \A S : <<>> \in Seq(S)
  BY EmptySeq
<1> QED
  BY <1>1, ParameterAssumption DEF Init, TypeOK

LEMMA ServerStepTypeOK ==
    ASSUME TypeOK, NEW t \in Threads, ServerStep(t)
    PROVE  TypeOK'
<1> USE DEF ClientUnits, ServerUnits
<1>1. ASSUME NEW us, RejectBytes(t, us)
      PROVE  TypeOK'
  <2>1. ServerReads(t, "recv", us) /\ Reply(t, <<Header("INVALID_REQUEST")>>)
    BY <1>1 DEF RejectBytes
  <2>2. fd[t] \in Clients /\ toServer' \in [Clients -> Seq(ClientUnits)]
    BY <2>1, ServerReadsType
  <2>3. toClient' \in [Clients -> Seq(ServerUnits)]
    BY <2>1, <2>2, ReplyType, HeaderReply DEF ServerMessages
  <2> QED
    BY <1>1, <2>2, <2>3 DEF RejectBytes, Reply, TypeOK, socketVars, threadVars, clientVars,
                            bookVars
<1>2. ASSUME NEW us, ServerReads(t, "recv", us), ServerCollects(t, us),
             NEW m \in ServerMessages, Reply(t, <<Header(m)>>),
             UNCHANGED <<spc, issued, authenticated, retry, bookVars>>
      PROVE  TypeOK'
  <2>1. /\ fd[t] \in Clients /\ us \in Seq(ClientUnits)
        /\ toServer' \in [Clients -> Seq(ClientUnits)]
    BY <1>2, ServerReadsType
  <2>2. toClient' \in [Clients -> Seq(ServerUnits)]
    BY <1>2, <2>1, ReplyType, HeaderReply
  <2>3. /\ sHasData' \in [Threads -> BOOLEAN]
        /\ sDataBuf' \in [Threads -> Answers \cup {Unparsable}]
    BY <1>2, <2>1, ServerCollectsType
  <2> QED
    BY <1>2, <2>1, <2>2, <2>3 DEF Reply, TypeOK, socketVars, clientVars, bookVars
<1>3. ASSUME NEW us, IssuePuzzle(t, us)
      PROVE  TypeOK'
  <2>1. PICK p \in Puzzles : HandOut(t, "CLIENT_PUZZLE", p, bucket)
    BY <1>3 DEF IssuePuzzle
  <2>2. /\ fd[t] \in Clients /\ us \in Seq(ClientUnits)
        /\ toServer' \in [Clients -> Seq(ClientUnits)]
    BY <1>3, ServerReadsType DEF IssuePuzzle
  <2>3. /\ toClient' \in [Clients -> Seq(ServerUnits)]
        /\ given' \in [Threads -> Seq(Puzzles)]
        /\ bucket' \subseteq Puzzles
    BY <2>1, <2>2, HandOutType DEF TypeOK, ServerMessages
  <2>4. /\ sHasData' \in [Threads -> BOOLEAN]
        /\ sDataBuf' \in [Threads -> Answers \cup {Unparsable}]
    BY <1>3, <2>2, ServerCollectsType DEF IssuePuzzle
  <2> QED
    BY <1>3, <2>1, <2>2, <2>3, <2>4 DEF IssuePuzzle, HandOut, Reply, TypeOK, socketVars,
                                        clientVars
<1>4. ASSUME NEW us, ServerReads(t, "recv", us), ServerCollects(t, us),
             spc' \in [Threads -> {"recv", "recvData", "judge", "done"}],
             UNCHANGED <<socketVars, issued, authenticated, retry, clientVars, toClient,
                         bookVars>>
      PROVE  TypeOK'
  <2>1. us \in Seq(ClientUnits) /\ toServer' \in [Clients -> Seq(ClientUnits)]
    BY <1>4, ServerReadsType
  <2>2. /\ sHasData' \in [Threads -> BOOLEAN]
        /\ sDataBuf' \in [Threads -> Answers \cup {Unparsable}]
    BY <1>4, <2>1, ServerCollectsType
  <2> QED
    BY <1>4, <2>1, <2>2 DEF TypeOK, socketVars, clientVars, bookVars
<1>5. ASSUME NEW us, ReadSolutionData(t, us)
      PROVE  TypeOK'
  <2>1. us \in Seq(ClientUnits) /\ toServer' \in [Clients -> Seq(ClientUnits)]
    BY <1>5, ServerReadsType DEF ReadSolutionData
  <2>2. ServerData(us) \subseteq Answers \cup {Unparsable}
    BY <2>1, ParsedType, ClientUnitsType DEF Answers
  <2> QED
    BY <1>5, <2>1, <2>2 DEF ReadSolutionData, TypeOK, socketVars, clientVars, bookVars
<1>6. ASSUME NEW d \in Answers, AcceptAnswer(t, d)
      PROVE  TypeOK'
  <2>1. /\ sDataBuf' \in [Threads -> Answers \cup {Unparsable}]
        /\ verdicts' \in [Threads -> Seq([answer : Answers, ok : BOOLEAN])]
        /\ LeftAfter(d) \in SUBSET Puzzles
    BY <1>6, JudgesType DEF AcceptAnswer
  <2>2. toClient' \in [Clients -> Seq(ServerUnits)]
    BY <1>6, ReplyType, HeaderReply DEF AcceptAnswer, ServerMessages
  <2> QED
    BY <1>6, <2>1, <2>2 DEF AcceptAnswer, Reply, TypeOK, socketVars, clientVars
<1>7. ASSUME NEW d \in Answers, AskAgain(t, d)
      PROVE  TypeOK'
  <2>1. /\ sDataBuf' \in [Threads -> Answers \cup {Unparsable}]
        /\ verdicts' \in [Threads -> Seq([answer : Answers, ok : BOOLEAN])]
        /\ LeftAfter(d) \in SUBSET Puzzles
    BY <1>7, JudgesType DEF AskAgain
  <2>2. PICK p \in Puzzles : HandOut(t, "CLIENT_PUZZLE_RETRY", p, LeftAfter(d))
    BY <1>7 DEF AskAgain
  <2>3. /\ toClient' \in [Clients -> Seq(ServerUnits)]
        /\ given' \in [Threads -> Seq(Puzzles)]
        /\ bucket' \subseteq Puzzles
    BY <2>1, <2>2, HandOutType DEF ServerMessages
  <2>4. retry' \in [Threads -> 0 .. MAX_RETRY]
    BY <1>7, ParameterAssumption DEF AskAgain, RetryLeft, TypeOK
  <2> QED
    BY <1>7, <2>1, <2>2, <2>3, <2>4 DEF AskAgain, HandOut, Reply, TypeOK, socketVars,
                                        clientVars
<1>8. ASSUME NEW d \in Answers, GiveUp(t, d)
      PROVE  TypeOK'
  <2>1. /\ sDataBuf' \in [Threads -> Answers \cup {Unparsable}]
        /\ verdicts' \in [Threads -> Seq([answer : Answers, ok : BOOLEAN])]
        /\ LeftAfter(d) \in SUBSET Puzzles
    BY <1>8, JudgesType DEF GiveUp
  <2>2. Farewell \in Seq(ServerUnits)
    BY HeaderReply DEF Farewell, ServerMessages
  <2>3. toClient' \in [Clients -> Seq(ServerUnits)]
    BY <1>8, <2>2, ReplyType DEF GiveUp
  <2> QED
    BY <1>8, <2>1, <2>3 DEF GiveUp, Reply, TypeOK, socketVars, clientVars
<1>9. ASSUME FailToParse(t) \/ LosePeer(t)
      PROVE  TypeOK'
  BY <1>9 DEF FailToParse, LosePeer, TypeOK, threadVars, clientVars, netVars, bookVars
<1>10. ASSUME NEW us, AnswerHello(t, us) \/ HelloAgain(t, us)
       PROVE  TypeOK'
  BY <1>2, <1>10 DEF AnswerHello, HelloAgain, ServerMessages
<1>11. ASSUME NEW us, RefuseSolution(t, us)
       PROVE  TypeOK'
  BY <1>2, <1>11 DEF RefuseSolution, ServerMessages
<1>12. ASSUME NEW us, SendResource(t, us)
       PROVE  TypeOK'
  <2>1. CASE authenticated[t]
    BY <1>2, <1>12, <2>1 DEF SendResource, ServerMessages
  <2>2. CASE ~authenticated[t]
    BY <1>2, <1>12, <2>2 DEF SendResource, ServerMessages
  <2> QED
    BY <2>1, <2>2
<1>13. ASSUME NEW us, TakeSolution(t, us)
       PROVE  TypeOK'
  <2>1. spc' \in [Threads -> {"recv", "recvData", "judge", "done"}]
    BY <1>13 DEF TakeSolution, DataNext, TypeOK
  <2> QED
    BY <1>4, <1>13, <2>1 DEF TakeSolution
<1>14. ASSUME NEW us, CloseThread(t, us)
       PROVE  TypeOK'
  <2>1. spc' \in [Threads -> {"recv", "recvData", "judge", "done"}]
    BY <1>14 DEF CloseThread, TypeOK
  <2> QED
    BY <1>4, <1>14, <2>1 DEF CloseThread
<1>15. ASSUME NEW us, IgnoreText(t, us)
       PROVE  TypeOK'
  <2>1. spc' \in [Threads -> {"recv", "recvData", "judge", "done"}]
    BY <1>15 DEF IgnoreText, TypeOK
  <2> QED
    BY <1>4, <1>15, <2>1 DEF IgnoreText
<1> QED
  BY <1>1, <1>3, <1>5, <1>6, <1>7, <1>8, <1>9, <1>10, <1>11, <1>12, <1>13, <1>14, <1>15
     DEF ServerStep

LEMMA ClientStepTypeOK ==
    ASSUME TypeOK, NEW c \in Clients, ClientStep(c) \/ Vanish(c)
    PROVE  TypeOK'
<1> USE DEF ClientUnits, ServerUnits
<1>1. ASSUME Connect(c)
      PROVE  TypeOK'
  <2>1. <<Header("CLIENT_HELLO")>> \in Seq(ClientUnits)
    BY ClientUnitsType DEF ClientMessages
  <2>2. toServer' \in [Clients -> Seq(ClientUnits)]
    BY <1>1, <2>1, ClientSendsType DEF Connect
  <2> QED
    BY <1>1, <2>2 DEF Connect, ClientSends, TypeOK, socketVars, threadVars, bookVars
<1>2. ASSUME ConnectionFailed(c) \/ ClientFailsToParse(c) \/ LoseServer(c)
      PROVE  TypeOK'
  BY <1>2 DEF ConnectionFailed, ClientFailsToParse, LoseServer, Closed, TypeOK, socketVars,
              threadVars, netVars, bookVars
<1>3. ASSUME NEW us, ClientAnswers(c, us)
      PROVE  TypeOK'
  <2>1. us \in Seq(ServerUnits) /\ toClient' \in [Clients -> Seq(ServerUnits)]
    BY <1>3, ClientReadsType DEF ClientAnswers
  <2>2. /\ cHasData' \in [Clients -> BOOLEAN]
        /\ cDataBuf' \in [Clients -> Puzzles \cup {Unparsable}]
    BY <1>3, <2>1, ClientCollectsType DEF ClientAnswers
  <2>3. ReplyTo[Text(us)] \in ClientMessages
    BY <1>3 DEF ClientAnswers, ReplyTo, ClientMessages, NoMsg
  <2>4. <<Header(ReplyTo[Text(us)])>> \in Seq(ClientUnits)
    BY <2>3, ClientUnitsType
  <2>5. toServer' \in [Clients -> Seq(ClientUnits)]
    BY <1>3, <2>4, ClientSendsType DEF ClientAnswers
  <2> QED
    BY <1>3, <2>1, <2>2, <2>5 DEF ClientAnswers, ClientSends, TypeOK, socketVars,
                                  threadVars, bookVars
<1>4. ASSUME NEW us, TakeResource(c, us)
      PROVE  TypeOK'
  <2>1. us \in Seq(ServerUnits) /\ toClient' \in [Clients -> Seq(ServerUnits)]
    BY <1>4, ClientReadsType DEF TakeResource
  <2>2. /\ cHasData' \in [Clients -> BOOLEAN]
        /\ cDataBuf' \in [Clients -> Puzzles \cup {Unparsable}]
    BY <1>4, <2>1, ClientCollectsType DEF TakeResource
  <2>3. <<Header("END_SESSION")>> \in Seq(ClientUnits)
    BY ClientUnitsType DEF ClientMessages
  <2>4. toServer' \in [Clients -> Seq(ClientUnits)]
    BY <1>4, <2>3, ClientSendsType DEF TakeResource
  <2> QED
    BY <1>4, <2>1, <2>2, <2>4 DEF TakeResource, ClientSends, Closed, TypeOK, socketVars,
                                  threadVars, bookVars
<1>5. ASSUME NEW us, TakePuzzle(c, us) \/ TakeEnd(c, us) \/ ClientIgnores(c, us)
      PROVE  TypeOK'
  <2>1. ClientReads(c, "recv", us) /\ ClientCollects(c, us)
    BY <1>5 DEF TakePuzzle, TakeEnd, ClientIgnores
  <2>2. us \in Seq(ServerUnits) /\ toClient' \in [Clients -> Seq(ServerUnits)]
    BY <2>1, ClientReadsType
  <2>3. /\ cHasData' \in [Clients -> BOOLEAN]
        /\ cDataBuf' \in [Clients -> Puzzles \cup {Unparsable}]
    BY <2>1, <2>2, ClientCollectsType
  <2> QED
    BY <1>5, <2>2, <2>3 DEF TakePuzzle, TakeEnd, ClientIgnores, Closed, TypeOK, socketVars,
                            threadVars, bookVars
<1>6. ASSUME NEW us, ReadPuzzleData(c, us)
      PROVE  TypeOK'
  <2>1. us \in Seq(ServerUnits) /\ toClient' \in [Clients -> Seq(ServerUnits)]
    BY <1>6, ClientReadsType DEF ReadPuzzleData
  <2>2. ClientData(us) \subseteq Puzzles \cup {Unparsable}
    BY <2>1, ParsedType, ServerUnitsType
  <2> QED
    BY <1>6, <2>1, <2>2 DEF ReadPuzzleData, TypeOK, socketVars, threadVars, bookVars
<1>7. ASSUME SendSolution(c)
      PROVE  TypeOK'
  <2>1. AnswerTo(cDataBuf[c]) \in Answers
    BY <1>7 DEF SendSolution, AnswerTo, Answers
  <2>2. <<Header("CLIENT_PUZZLE_SOLUTION"), Payload(AnswerTo(cDataBuf[c]))>> \in Seq(ClientUnits)
    BY <2>1, ClientUnitsType DEF ClientMessages
  <2>3. toServer' \in [Clients -> Seq(ClientUnits)]
    BY <1>7, <2>2, ClientSendsType DEF SendSolution
  <2> QED
    BY <1>7, <2>3 DEF SendSolution, ClientSends, TypeOK, socketVars, threadVars, bookVars
<1>8. ASSUME Vanish(c)
      PROVE  TypeOK'
  <2>1. toServer[c] \in Seq(ClientUnits)
    BY DEF TypeOK
  <2>2. toServer[c] # <<>> => SubSeq(toServer[c], 1, Len(toServer[c]) - 1) \in Seq(ClientUnits)
    <3>1. Len(toServer[c]) \in Nat
      BY <2>1, LenProperties
    <3>2. PICK n \in Int : n = Len(toServer[c]) - 1
      <4>1. Len(toServer[c]) - 1 \in Int
        BY <3>1
      <4> QED
        BY <4>1
    <3>3. ASSUME NEW i \in 1 .. n
          PROVE  toServer[c][i] \in ClientUnits
      <4>1. i \in 1 .. Len(toServer[c])
        BY <3>1, <3>2
      <4> QED
        BY <2>1, <4>1, ElementOfSeq
    <3>4. SubSeq(toServer[c], 1, n) \in Seq(ClientUnits)
      BY <3>3, SubSeqProperties
    <3> QED
      BY <3>2, <3>4
  <2>3. toServer' \in [Clients -> Seq(ClientUnits)]
    BY <1>8, <2>2 DEF Vanish, TypeOK
  <2> QED
    BY <1>8, <2>3 DEF Vanish, Closed, TypeOK, socketVars, threadVars, bookVars
<1> QED
  BY <1>1, <1>2, <1>3, <1>4, <1>5, <1>6, <1>7, <1>8 DEF ClientStep

LEMMA NextTypeOK == TypeOK /\ [Next]_vars => TypeOK'
<1> SUFFICES ASSUME TypeOK, [Next]_vars
             PROVE  TypeOK'
  OBVIOUS
<1>1. CASE Next
  BY <1>1, ServerStepTypeOK, ClientStepTypeOK DEF Next
<1>2. CASE UNCHANGED vars
  BY <1>2 DEF TypeOK, vars, socketVars, threadVars, clientVars, netVars, bookVars
<1> QED
  BY <1>1, <1>2

(* Whatever recv() returns and whoever is killed, no thread counts past the  *)
(* retry limit of server.cpp:126, and each end parses every payload of the   *)
(* other.                                                                    *)
THEOREM TypeCorrect == Spec => []TypeOK
BY InitTypeOK, NextTypeOK, PTL DEF Spec

-----------------------------------------------------------------------------
(* Nobody is served before an answer was accepted.  The inductive invariant  *)
(* follows the resource back: the client that holds it received it, it was   *)
(* sent by an authenticated thread, and that thread accepted an answer.      *)

OnTheWay(c) == \E i \in DOMAIN toClient[c] : toClient[c][i].msg = "RESOURCE"

ResourceIsPaidFor ==
    /\ \A t \in Threads : authenticated[t] => Paid(t)
    /\ \A c \in Clients : OnTheWay(c) => PaidOn(c)
    /\ ServedAfterAccepted

(* A reply adds the resource to a stream only if it contains it.             *)
LEMMA ReplyOnTheWay ==
    ASSUME TypeOK, NEW t \in Threads, NEW units \in Seq(ServerUnits), Reply(t, units),
           NEW c \in Clients, OnTheWay(c)'
    PROVE  OnTheWay(c) \/ (c = fd[t] /\ \E i \in DOMAIN units : units[i].msg = "RESOURCE")
<1>1. toClient[c] \in Seq(ServerUnits)
  BY DEF TypeOK, ServerUnits
<1>2. CASE c # fd[t]
  BY <1>2 DEF Reply, OnTheWay, TypeOK
<1>3. CASE c = fd[t]
  <2>1. toClient'[c] = toClient[c] \o units
    BY <1>3 DEF Reply, TypeOK
  <2>2. PICK i \in DOMAIN toClient'[c] : toClient'[c][i].msg = "RESOURCE"
    BY DEF OnTheWay
  <2>3. /\ toClient'[c] \in Seq(ServerUnits)
        /\ Len(toClient'[c]) = Len(toClient[c]) + Len(units)
        /\ \A j \in 1 .. Len(toClient[c]) + Len(units) :
              toClient'[c][j] = IF j <= Len(toClient[c]) THEN toClient[c][j]
                                ELSE units[j - Len(toClient[c])]
    BY <1>1, <2>1, ConcatProperties
  <2>4. Len(toClient[c]) \in Nat /\ DOMAIN toClient[c] = 1 .. Len(toClient[c])
    BY <1>1, LenProperties
  <2>5. Len(units) \in Nat /\ DOMAIN units = 1 .. Len(units)
    BY LenProperties
  <2>6. DOMAIN toClient'[c] = 1 .. Len(toClient'[c])
    BY <2>3, LenProperties
  <2>7. i \in 1 .. Len(toClient[c]) + Len(units)
    BY <2>2, <2>3, <2>6
  <2>8. CASE i <= Len(toClient[c])
    <3>1. i \in DOMAIN toClient[c]
      BY <2>4, <2>5, <2>7, <2>8
    <3>2. toClient[c][i].msg = "RESOURCE"
      BY <2>2, <2>3, <2>7, <2>8
    <3> QED
      BY <3>1, <3>2 DEF OnTheWay
  <2>9. CASE ~(i <= Len(toClient[c]))
    <3>1. i - Len(toClient[c]) \in DOMAIN units
      BY <2>4, <2>5, <2>7, <2>9
    <3>2. units[i - Len(toClient[c])].msg = "RESOURCE"
      BY <2>2, <2>3, <2>7, <2>9
    <3> QED
      BY <1>3, <3>1, <3>2
  <2> QED
    BY <2>8, <2>9
<1> QED
  BY <1>2, <1>3

(* Of the headers a thread sends, only RESOURCE carries the resource.        *)
LEMMA OtherReplyOnTheWay ==
    ASSUME TypeOK, NEW t \in Threads, NEW c \in Clients, OnTheWay(c)',
           \/ Reply(t, Farewell)
           \/ \E m \in ServerMessages \ {"RESOURCE"} : Reply(t, <<Header(m)>>)
           \/ \E m \in ServerMessages \ {"RESOURCE"}, p \in Puzzles :
                 Reply(t, PuzzleUnits(m, p))
    PROVE  OnTheWay(c)
<1>1. PICK units \in Seq(ServerUnits) :
         Reply(t, units) /\ \A i \in DOMAIN units : units[i].msg # "RESOURCE"
  <2>1. ASSUME NEW m \in ServerMessages \ {"RESOURCE"}
        PROVE  /\ <<Header(m)>> \in Seq(ServerUnits)
               /\ \A i \in DOMAIN <<Header(m)>> : <<Header(m)>>[i].msg # "RESOURCE"
    BY ServerUnitsType DEF Header
  <2>2. ASSUME NEW m \in ServerMessages \ {"RESOURCE"}, NEW p \in Puzzles
        PROVE  /\ PuzzleUnits(m, p) \in Seq(ServerUnits)
               /\ \A i \in DOMAIN PuzzleUnits(m, p) : PuzzleUnits(m, p)[i].msg # "RESOURCE"
    <3>1. PuzzleUnits(m, p) \in Seq(ServerUnits)
      BY ServerUnitsType DEF PuzzleUnits
    <3>2. Header(m).msg # "RESOURCE" /\ Payload(p).msg # "RESOURCE"
      BY DEF Header, Payload, NoMsg
    <3>3. \A i \in DOMAIN <<Header(m), Payload(p)>> :
             \/ <<Header(m), Payload(p)>>[i] = Header(m)
             \/ <<Header(m), Payload(p)>>[i] = Payload(p)
      OBVIOUS
    <3> QED
      BY <3>1, <3>2, <3>3 DEF PuzzleUnits
  <2> QED
    BY <2>1, <2>2 DEF Farewell, ServerMessages
<1> QED
  BY <1>1, ReplyOnTheWay

(* Receiving adds nothing to a stream.                                       *)
LEMMA ReadOnTheWay ==
    ASSUME TypeOK, NEW b \in Clients, NEW at, NEW us, ClientReads(b, at, us),
           NEW c \in Clients, OnTheWay(c)'
    PROVE  OnTheWay(c)
<1>1. toClient[b] \in Seq(ServerUnits) /\ us \in Chunks(toClient[b])
  BY DEF TypeOK, ServerUnits, ClientReads
<1>2. \A i \in DOMAIN After(toClient[b], us) :
         \E j \in DOMAIN toClient[b] : After(toClient[b], us)[i] = toClient[b][j]
  BY <1>1, ChunkProperties
<1>3. CASE c = b
  <2>1. toClient'[c] = After(toClient[b], us)
    BY <1>3 DEF ClientReads, TypeOK
  <2> QED
    BY <1>2, <1>3, <2>1 DEF OnTheWay
<1>4. CASE c # b
  BY <1>4 DEF ClientReads, TypeOK, OnTheWay
<1> QED
  BY <1>3, <1>4

(* What was accepted stays accepted: verdicts only grow.                     *)
LEMMA VerdictsGrow ==
    ASSUME TypeOK, NEW t \in Threads, NEW d \in Answers, NEW ok \in BOOLEAN, Judges(t, d, ok)
    PROVE  /\ \A s \in Threads : Paid(s) => Paid(s)'
           /\ ok /\ d \in Puzzles => Paid(t)'
<1> DEFINE v == [answer |-> d, ok |-> ok]
<1>1. verdicts[t] \in Seq([answer : Answers, ok : BOOLEAN])
  BY DEF TypeOK
<1>2. /\ Append(verdicts[t], v) \in Seq([answer : Answers, ok : BOOLEAN])
      /\ Len(Append(verdicts[t], v)) = Len(verdicts[t]) + 1
      /\ \A i \in 1 .. Len(verdicts[t]) : Append(verdicts[t], v)[i] = verdicts[t][i]
      /\ Append(verdicts[t], v)[Len(verdicts[t]) + 1] = v
  BY <1>1, AppendProperties
<1>3. /\ Len(verdicts[t]) \in Nat
      /\ DOMAIN verdicts[t] = 1 .. Len(verdicts[t])
  BY <1>1, LenProperties
<1>4. DOMAIN Append(verdicts[t], v) = 1 .. Len(verdicts[t]) + 1
  BY <1>2, LenProperties
<1>5. verdicts' = [verdicts EXCEPT ![t] = Append(verdicts[t], v)]
  BY DEF Judges
<1>6. verdicts'[t] = Append(verdicts[t], v)
  BY <1>5 DEF TypeOK
<1>7. Paid(t) => Paid(t)'
  <2> SUFFICES ASSUME NEW i \in DOMAIN verdicts[t],
                      verdicts[t][i].ok /\ verdicts[t][i].answer \in Puzzles
               PROVE  Paid(t)'
    BY DEF Paid
  <2>1. i \in DOMAIN verdicts'[t]
    BY <1>3, <1>4, <1>6
  <2>2. verdicts'[t][i] = verdicts[t][i]
    BY <1>2, <1>3, <1>6
  <2> QED
    BY <2>1, <2>2 DEF Paid
<1>8. \A s \in Threads \ {t} : Paid(s) => Paid(s)'
  BY <1>5 DEF Paid, TypeOK
<1>9. ok /\ d \in Puzzles => Paid(t)'
  <2>1. Len(verdicts[t]) + 1 \in DOMAIN verdicts'[t]
    BY <1>3, <1>4, <1>6
  <2>2. verdicts'[t][Len(verdicts[t]) + 1] = v
    BY <1>2, <1>6
  <2> QED
    BY <2>1, <2>2 DEF Paid
<1> QED
  BY <1>7, <1>8, <1>9

LEMMA InitPaidFor == Init => ResourceIsPaidFor
BY DEF Init, ResourceIsPaidFor, ServedAfterAccepted, OnTheWay

(* Only verifySolution() changes what was accepted, and only an accepted     *)
(* answer authenticates.                                                     *)
LEMMA ServerStepPaid ==
    ASSUME TypeOK, NEW t \in Threads, ServerStep(t)
    PROVE  /\ fd' = fd /\ cpc' = cpc
           /\ \A s \in Threads : Paid(s) => Paid(s)'
           /\ \A s \in Threads : authenticated'[s] => authenticated[s] \/ Paid(s)'
<1>1. CASE \E us : \/ RejectBytes(t, us)  \/ AnswerHello(t, us)    \/ IssuePuzzle(t, us)
                  \/ TakeSolution(t, us) \/ RefuseSolution(t, us) \/ ReadSolutionData(t, us)
                  \/ SendResource(t, us) \/ HelloAgain(t, us)     \/ CloseThread(t, us)
                  \/ IgnoreText(t, us)
  <2>1. UNCHANGED <<fd, cpc, authenticated, verdicts>>
    BY <1>1 DEF RejectBytes, AnswerHello, IssuePuzzle, TakeSolution, RefuseSolution,
                ReadSolutionData, SendResource, HelloAgain, CloseThread, IgnoreText, Reply,
                HandOut, socketVars, threadVars, clientVars, bookVars
  <2> QED
    BY <2>1 DEF Paid
<1>2. CASE FailToParse(t) \/ LosePeer(t)
  BY <1>2 DEF FailToParse, LosePeer, threadVars, clientVars, bookVars, Paid
<1>3. ASSUME NEW d \in Answers, AcceptAnswer(t, d)
      PROVE  /\ UNCHANGED <<fd, cpc>>
             /\ \A s \in Threads : Paid(s) => Paid(s)'
             /\ \A s \in Threads : authenticated'[s] => authenticated[s] \/ Paid(s)'
  <2>1. Judges(t, d, TRUE) /\ UNCHANGED <<fd, cpc>>
    BY <1>3 DEF AcceptAnswer, Reply, socketVars, clientVars
  <2>2. d \in Puzzles
    BY <2>1 DEF Judges, Valid, TypeOK, Answers
  <2>3. (\A s \in Threads : Paid(s) => Paid(s)') /\ Paid(t)'
    BY <2>1, <2>2, VerdictsGrow
  <2> QED
    BY <1>3, <2>1, <2>3 DEF AcceptAnswer, TypeOK
<1>4. ASSUME NEW d \in Answers, AskAgain(t, d) \/ GiveUp(t, d)
      PROVE  /\ UNCHANGED <<fd, cpc, authenticated>>
             /\ \A s \in Threads : Paid(s) => Paid(s)'
  <2>1. Judges(t, d, FALSE) /\ UNCHANGED <<fd, cpc, authenticated>>
    BY <1>4 DEF AskAgain, GiveUp, HandOut, Reply, socketVars, clientVars
  <2> QED
    BY <2>1, VerdictsGrow
<1> QED
  BY <1>1, <1>2, <1>3, <1>4 DEF ServerStep

(* Only an authenticated thread sends the resource.                          *)
LEMMA ServerStepOnTheWay ==
    ASSUME TypeOK, NEW t \in Threads, ServerStep(t), NEW c \in Clients, OnTheWay(c)'
    PROVE  OnTheWay(c) \/ (fd[t] = c /\ authenticated[t])
<1>1. ASSUME NEW us, SendResource(t, us)
      PROVE  OnTheWay(c) \/ (fd[t] = c /\ authenticated[t])
  <2>1. CASE authenticated[t]
    <3>1. Reply(t, <<Header("RESOURCE")>>) /\ <<Header("RESOURCE")>> \in Seq(ServerUnits)
      BY <1>1, <2>1, HeaderReply DEF SendResource, ServerMessages
    <3> QED
      BY <2>1, <3>1, ReplyOnTheWay
  <2>2. CASE ~authenticated[t]
    BY <1>1, <2>2, OtherReplyOnTheWay DEF SendResource, ServerMessages
  <2> QED
    BY <2>1, <2>2
<1>2. ASSUME NEW us, \/ RejectBytes(t, us)    \/ AnswerHello(t, us)
                     \/ RefuseSolution(t, us) \/ HelloAgain(t, us)
      PROVE  OnTheWay(c)
  <2>1. \E m \in ServerMessages \ {"RESOURCE"} : Reply(t, <<Header(m)>>)
    BY <1>2 DEF RejectBytes, AnswerHello, RefuseSolution, HelloAgain, ServerMessages
  <2> QED
    BY <2>1, OtherReplyOnTheWay
<1>3. ASSUME NEW us, IssuePuzzle(t, us)
      PROVE  OnTheWay(c)
  <2>1. \E p \in Puzzles : Reply(t, PuzzleUnits("CLIENT_PUZZLE", p))
    BY <1>3 DEF IssuePuzzle, HandOut
  <2> QED
    BY <2>1, OtherReplyOnTheWay DEF ServerMessages
<1>4. ASSUME NEW us, \/ TakeSolution(t, us) \/ ReadSolutionData(t, us)
                     \/ CloseThread(t, us)  \/ IgnoreText(t, us)
      PROVE  OnTheWay(c)
  BY <1>4 DEF TakeSolution, ReadSolutionData, CloseThread, IgnoreText, OnTheWay
<1>5. ASSUME NEW d \in Answers, AcceptAnswer(t, d)
      PROVE  OnTheWay(c)
  BY <1>5, OtherReplyOnTheWay DEF AcceptAnswer, ServerMessages
<1>6. ASSUME NEW d \in Answers, AskAgain(t, d)
      PROVE  OnTheWay(c)
  <2>1. \E p \in Puzzles : Reply(t, PuzzleUnits("CLIENT_PUZZLE_RETRY", p))
    BY <1>6 DEF AskAgain, HandOut
  <2> QED
    BY <2>1, OtherReplyOnTheWay DEF ServerMessages
<1>7. ASSUME NEW d \in Answers, GiveUp(t, d)
      PROVE  OnTheWay(c)
  BY <1>7, OtherReplyOnTheWay DEF GiveUp
<1>8. ASSUME FailToParse(t) \/ LosePeer(t)
      PROVE  OnTheWay(c)
  BY <1>8 DEF FailToParse, LosePeer, netVars, OnTheWay
<1> QED
  BY <1>1, <1>2, <1>3, <1>4, <1>5, <1>6, <1>7, <1>8 DEF ServerStep

(* A client is served only by receiving the resource.                        *)
LEMMA ClientStepPaid ==
    ASSUME TypeOK, NEW b \in Clients, ClientStep(b) \/ Vanish(b)
    PROVE  /\ UNCHANGED <<fd, authenticated, verdicts>>
           /\ \A c \in Clients : OnTheWay(c)' => OnTheWay(c)
           /\ \A c \in Clients : cpc'[c] = "served" => cpc[c] = "served" \/ OnTheWay(c)
<1>1. ASSUME NEW us, TakeResource(b, us)
      PROVE  /\ UNCHANGED <<fd, authenticated, verdicts>>
             /\ \A c \in Clients : OnTheWay(c)' => OnTheWay(c)
             /\ \A c \in Clients : cpc'[c] = "served" => cpc[c] = "served" \/ OnTheWay(c)
  <2>1. /\ ClientReads(b, "recv", us) /\ Text(us) = "RESOURCE"
        /\ cpc' = [cpc EXCEPT ![b] = "served"]
        /\ UNCHANGED <<fd, authenticated, verdicts>>
    BY <1>1 DEF TakeResource, ClientSends, socketVars, threadVars, bookVars
  <2>2. \A c \in Clients : OnTheWay(c)' => OnTheWay(c)
    BY <2>1, ReadOnTheWay
  <2>3. OnTheWay(b)
    <3>1. us[1].msg = "RESOURCE"
      BY <2>1, TextIsFirst DEF ServerMessages
    <3>2. toClient[b] \in Seq(ServerUnits) /\ us \in Chunks(toClient[b])
      BY <2>1 DEF TypeOK, ServerUnits, ClientReads
    <3>3. us[1] = toClient[b][1] /\ Len(us) \in 1 .. Len(toClient[b])
      BY <3>2, ChunkProperties
    <3>4. Len(toClient[b]) \in Nat /\ DOMAIN toClient[b] = 1 .. Len(toClient[b])
      BY <3>2, LenProperties
    <3>5. 1 \in DOMAIN toClient[b]
      BY <3>3, <3>4
    <3> QED
      BY <3>1, <3>3, <3>5 DEF OnTheWay
  <2>4. \A c \in Clients : cpc'[c] = "served" => cpc[c] = "served" \/ c = b
    BY <2>1 DEF TypeOK
  <2> QED
    BY <2>1, <2>2, <2>3, <2>4
<1>2. ASSUME NEW us, \/ ClientAnswers(b, us)  \/ TakePuzzle(b, us) \/ ReadPuzzleData(b, us)
                     \/ TakeEnd(b, us)        \/ ClientIgnores(b, us)
      PROVE  /\ UNCHANGED <<fd, authenticated, verdicts>>
             /\ \A c \in Clients : OnTheWay(c)' => OnTheWay(c)
             /\ \A c \in Clients : cpc'[c] = "served" => cpc[c] = "served" \/ OnTheWay(c)
  <2>1. ClientReads(b, "recv", us) \/ ClientReads(b, "recvData", us)
    BY <1>2 DEF ClientAnswers, TakePuzzle, ReadPuzzleData, TakeEnd, ClientIgnores
  <2>2. \A c \in Clients : OnTheWay(c)' => OnTheWay(c)
    BY <2>1, ReadOnTheWay
  <2>3. UNCHANGED <<fd, authenticated, verdicts>>
    BY <1>2 DEF ClientAnswers, TakePuzzle, ReadPuzzleData, TakeEnd, ClientIgnores,
                ClientSends, socketVars, threadVars, bookVars
  <2>4. \A c \in Clients : cpc'[c] = "served" => cpc[c] = "served"
    BY <1>2 DEF ClientAnswers, TakePuzzle, ReadPuzzleData, TakeEnd, ClientIgnores, TypeOK
  <2> QED
    BY <2>2, <2>3, <2>4
<1>3. CASE \/ Connect(b) \/ ConnectionFailed(b) \/ SendSolution(b)
           \/ ClientFailsToParse(b) \/ LoseServer(b) \/ Vanish(b)
  <2>1. UNCHANGED <<fd, authenticated, verdicts, toClient>>
    BY <1>3 DEF Connect, ConnectionFailed, SendSolution, ClientFailsToParse, LoseServer,
                Vanish, ClientSends, socketVars, threadVars, netVars, bookVars
  <2>2. \A c \in Clients : cpc'[c] = "served" => cpc[c] = "served"
    BY <1>3 DEF Connect, ConnectionFailed, SendSolution, ClientFailsToParse, LoseServer,
                Vanish, TypeOK
  <2> QED
    BY <2>1, <2>2 DEF OnTheWay
<1> QED
  BY <1>1, <1>2, <1>3 DEF ClientStep

LEMMA NextPaidFor == TypeOK /\ ResourceIsPaidFor /\ [Next]_vars => ResourceIsPaidFor'
<1> SUFFICES ASSUME TypeOK, ResourceIsPaidFor, [Next]_vars
             PROVE  ResourceIsPaidFor'
  OBVIOUS
<1> USE DEF ResourceIsPaidFor, ServedAfterAccepted
<1>1. ASSUME NEW t \in Threads, ServerStep(t)
      PROVE  ResourceIsPaidFor'
  <2>1. /\ fd' = fd /\ cpc' = cpc
        /\ \A s \in Threads : Paid(s) => Paid(s)'
        /\ \A s \in Threads : authenticated'[s] => authenticated[s] \/ Paid(s)'
    BY <1>1, ServerStepPaid
  <2>2. \A c \in Clients : PaidOn(c) => PaidOn(c)'
    BY <2>1 DEF PaidOn
  <2>3. \A c \in Clients : OnTheWay(c)' => OnTheWay(c) \/ PaidOn(c)
    BY <1>1, ServerStepOnTheWay DEF PaidOn
  <2> QED
    BY <2>1, <2>2, <2>3
<1>2. ASSUME NEW b \in Clients, ClientStep(b) \/ Vanish(b)
      PROVE  ResourceIsPaidFor'
  <2>1. /\ UNCHANGED <<fd, authenticated, verdicts>>
        /\ \A c \in Clients : OnTheWay(c)' => OnTheWay(c)
        /\ \A c \in Clients : cpc'[c] = "served" => cpc[c] = "served" \/ OnTheWay(c)
    BY <1>2, ClientStepPaid
  <2>2. (\A t \in Threads : Paid(t)' <=> Paid(t)) /\ (\A c \in Clients : PaidOn(c)' <=> PaidOn(c))
    BY <2>1 DEF Paid, PaidOn
  <2> QED
    BY <2>1, <2>2
<1>3. CASE UNCHANGED vars
  <2>1. UNCHANGED <<fd, authenticated, verdicts, toClient, cpc>>
    BY <1>3 DEF vars, socketVars, threadVars, clientVars, netVars, bookVars
  <2> QED
    BY <2>1 DEF OnTheWay, Paid, PaidOn
<1> QED
  BY <1>1, <1>2, <1>3 DEF Next

(* However the streams are cut and whoever is killed, a client holds the     *)
(* resource only if the thread of its connection accepted an answer.         *)
THEOREM NobodyServedUnpaid == Spec => []ServedAfterAccepted
<1>1. ResourceIsPaidFor => ServedAfterAccepted
  BY DEF ResourceIsPaidFor
<1> QED
  BY <1>1, InitTypeOK, NextTypeOK, InitPaidFor, NextPaidFor, PTL DEF Spec

-----------------------------------------------------------------------------
(***************************************************************************)
(* The turns of the handshake, for every number of clients, threads and    *)
(* puzzles, every retry limit, both kinds of verification, every way       *)
(* recv() may cut the streams, and clients that are killed.                *)
(*                                                                         *)
(* The properties of Session speak of the streams or of the verdicts; what *)
(* keeps them is where a session stands as a whole.  A session is one of   *)
(* four kinds, by what its thread knows: the client has not asked, it owes *)
(* an answer, it has passed, it has failed.  For each kind the invariant   *)
(* lists what may be on the two streams and where both ends may be then.   *)
(* Something is on at most one stream, and if nothing is on either, an end *)
(* is at work, finished or lost.  A client that was killed or has aborted  *)
(* leaves its session where it was, and the thread may go on for one turn. *)
(***************************************************************************)
Lost == {"killed", "aborted"}
Peer(t) == cpc[fd[t]]
Here(t, pc) == Peer(t) \in {pc} \cup Lost
Streams(t, up, down) == toServer[fd[t]] = up /\ toClient[fd[t]] = down

Owed(t) == given[t][Len(given[t])]
Solution(t) == Payload(AnswerTo(Owed(t)))

NotAsked(t) ==
    /\ spc[t] = "recv" /\ ~ issued[t] /\ ~ authenticated[t]
    /\ given[t] = <<>> /\ verdicts[t] = <<>> /\ retry[t] = 0
    /\ \/ Peer(t) \in {"start", "refused"} /\ Streams(t, <<>>, <<>>)
       \/ /\ Here(t, "recv")
          /\ \/ \E m \in {"CLIENT_HELLO", "ACK_HELLO"} : Streams(t, <<Header(m)>>, <<>>)
             \/ Streams(t, <<>>, <<Header("SERVER_HELLO")>>)

(* The client has the turn: the puzzle is on its way to it, or it searches.  *)
Searching(t) ==
    /\ spc[t] = "recv"
    /\ \/ /\ Here(t, "recv")
          /\ \E m \in {"CLIENT_PUZZLE", "CLIENT_PUZZLE_RETRY"} :
                 Streams(t, <<>>, <<Header(m), Payload(Owed(t))>>)
       \/ /\ Here(t, "recvData") \/ (Peer(t) = "solve" /\ cDataBuf[fd[t]] = Unparsable)
          /\ Streams(t, <<>>, <<Payload(Owed(t))>>)
       \/ /\ Peer(t) \in Lost \/ (Peer(t) = "solve" /\ cDataBuf[fd[t]] = Owed(t))
          /\ Streams(t, <<>>, <<>>)

(* The thread has it: the answer is on its way, or is being judged.          *)
Judging(t) ==
    \/ /\ spc[t] = "recv"
       /\ \/ Here(t, "recv") /\ Streams(t, <<Header("CLIENT_PUZZLE_SOLUTION"), Solution(t)>>, <<>>)
          \/ Peer(t) \in Lost /\ Streams(t, <<Header("CLIENT_PUZZLE_SOLUTION")>>, <<>>)
    \/ /\ spc[t] = "recvData" \/ (spc[t] = "judge" /\ sDataBuf[t] = Unparsable)
       /\ \/ Here(t, "recv") /\ Streams(t, <<Solution(t)>>, <<>>)
          \/ Peer(t) \in Lost /\ Streams(t, <<>>, <<>>)
    \/ /\ spc[t] = "judge" /\ sDataBuf[t] = AnswerTo(Owed(t))
       /\ Here(t, "recv") /\ Streams(t, <<>>, <<>>)

Asked(t) ==
    /\ issued[t] /\ ~ authenticated[t]
    /\ Len(given[t]) = Len(verdicts[t]) + 1
    /\ Searching(t) \/ Judging(t)

Passed(t) ==
    /\ ~ issued[t] /\ authenticated[t]
    /\ Len(given[t]) = Len(verdicts[t])
    /\ \/ /\ spc[t] = "recv" /\ Here(t, "recv")
          /\ \/ Streams(t, <<>>, <<Header("HANDSHAKE_COMPLETE")>>)
             \/ Streams(t, <<Header("GET_RESOURCE")>>, <<>>)
             \/ Streams(t, <<>>, <<Header("RESOURCE")>>)
       \/ spc[t] = "recv" /\ Peer(t) = "served" /\ Streams(t, <<Header("END_SESSION")>>, <<>>)
       \/ spc[t] = "done" /\ Peer(t) = "served" /\ Streams(t, <<>>, <<>>)

Failed(t) ==
    /\ spc[t] = "done" /\ ~ authenticated[t] /\ retry[t] = MAX_RETRY
    /\ Len(given[t]) = Len(verdicts[t])
    /\ \/ Here(t, "recv") /\ Streams(t, <<>>, <<Header("END_SESSION")>>)
       \/ Peer(t) = "ended" /\ Streams(t, <<>>, <<>>)

(* The history agrees with the counters.                                     *)
Books(t) ==
    /\ \A i \in 1 .. Len(verdicts[t]) :
          /\ verdicts[t][i].answer \in {given[t][i], Wrong}
          /\ verdicts[t][i].ok <=> authenticated[t] /\ i = Len(verdicts[t])
    /\ Len(verdicts[t]) = retry[t] + (IF authenticated[t] \/ spc[t] = "done" THEN 1 ELSE 0)

(* A buffer is empty while its owner waits for a message.                    *)
Buffers(t) ==
    /\ spc[t] \in {"recv", "recvData"} => sDataBuf[t] = Unparsable
    /\ Peer(t) \in {"start", "recv", "recvData"} => cDataBuf[fd[t]] = Unparsable

InTurn(t) ==
    /\ Books(t) /\ Buffers(t)
    /\ NotAsked(t) \/ Asked(t) \/ Passed(t) \/ Failed(t)

Connected ==
    /\ fd \in [Threads -> Clients]
    /\ \A s, t \in Threads : fd[s] = fd[t] => s = t

HasPeer(t) == fd[t] \in Clients

(* Nobody answers a client that has no thread.                               *)
Unanswered(c) == (\A t \in Threads : fd[t] # c) => toClient[c] = <<>>

Handshake ==
    /\ TypeOK /\ Connected
    /\ \A t \in Threads : InTurn(t)
    /\ \A c \in Clients : Unanswered(c)
    /\ BucketOutstanding

-----------------------------------------------------------------------------
(* What recv() makes of the few streams there are.                           *)
LEMMA ChunkOfNone == Chunks(<<>>) = {}
  BY DEF Chunks

LEMMA Pieces ==
    ASSUME NEW u, NEW v
    PROVE  /\ SubSeq(<<u>>, 1, 1) = <<u>>
           /\ SubSeq(<<u>>, 2, 1) = <<>>
           /\ SubSeq(<<u, v>>, 1, 1) = <<u>>
           /\ SubSeq(<<u, v>>, 1, 2) = <<u, v>>
           /\ SubSeq(<<u, v>>, 2, 2) = <<v>>
           /\ SubSeq(<<u, v>>, 3, 2) = <<>>
<1>1. <<u>> \in Seq({u, v}) /\ <<v>> \in Seq({u, v}) /\ <<u, v>> \in Seq({u, v})
  OBVIOUS
<1>2. Len(<<u>>) = 1 /\ Len(<<v>>) = 1 /\ Len(<<u, v>>) = 2
  OBVIOUS
<1>3. SubSeq(<<u>>, 1, 1) = <<u>> /\ SubSeq(<<u, v>>, 1, 2) = <<u, v>>
  BY <1>1, <1>2, SubSeqFull
<1>4. SubSeq(<<u>>, 2, 1) = <<>> /\ SubSeq(<<u, v>>, 3, 2) = <<>>
  BY SubSeqEmpty
<1>5. ASSUME NEW i \in {1, 2}
      PROVE  /\ SubSeq(<<u, v>>, i, i) \in Seq({u, v})
             /\ Len(SubSeq(<<u, v>>, i, i)) = 1
             /\ SubSeq(<<u, v>>, i, i)[1] = <<u, v>>[i]
  <2>1. \A k \in i .. i : <<u, v>>[k] \in {u, v}
    BY <1>1
  <2> QED
    BY <2>1, SubSeqProperties
<1>6. \A w \in {u, v} : \A s \in Seq({u, v}) : Len(s) = 1 /\ s[1] = w => s = <<w>>
  <2> SUFFICES ASSUME NEW w \in {u, v}, NEW s \in Seq({u, v}), Len(s) = 1, s[1] = w
               PROVE  s = <<w>>
    OBVIOUS
  <2>1. <<w>> \in Seq({u, v}) /\ Len(<<w>>) = 1 /\ \A k \in 1 .. 1 : s[k] = <<w>>[k]
    OBVIOUS
  <2> QED
    BY <2>1, SeqEqual
<1>7. SubSeq(<<u, v>>, 1, 1) = <<u>> /\ SubSeq(<<u, v>>, 2, 2) = <<v>>
  <2>1. <<u, v>>[1] = u /\ <<u, v>>[2] = v
    OBVIOUS
  <2> QED
    BY <1>5, <1>6, <2>1
<1> QED
  BY <1>3, <1>4, <1>7

LEMMA ChunkOfOne ==
    ASSUME NEW u, NEW us \in Chunks(<<u>>)
    PROVE  us = <<u>> /\ After(<<u>>, us) = <<>>
<1>1. Len(<<u>>) = 1 /\ 1 .. 1 = {1}
  OBVIOUS
<1>2. us = SubSeq(<<u>>, 1, 1)
  BY <1>1 DEF Chunks
<1>3. us = <<u>>
  BY <1>2, Pieces
<1>4. After(<<u>>, us) = SubSeq(<<u>>, 2, 1)
  BY <1>1, <1>3 DEF After
<1> QED
  BY <1>3, <1>4, Pieces

LEMMA ChunkOfTwo ==
    ASSUME NEW u, NEW v, NEW us \in Chunks(<<u, v>>)
    PROVE  \/ us = <<u>> /\ After(<<u, v>>, us) = <<v>>
           \/ us = <<u, v>> /\ After(<<u, v>>, us) = <<>> /\ Arrival # "single"
<1>1. Len(<<u, v>>) = 2 /\ Len(<<u>>) = 1 /\ 1 .. 2 = {1, 2}
  OBVIOUS
<1>2. PICK n \in {1, 2} : us = SubSeq(<<u, v>>, 1, n) /\ (Arrival = "single" => n = 1)
  BY <1>1 DEF Chunks
<1>3. CASE n = 1
  <2>1. us = <<u>>
    BY <1>2, <1>3, Pieces
  <2>2. After(<<u, v>>, us) = SubSeq(<<u, v>>, 2, 2)
    BY <1>1, <2>1 DEF After
  <2> QED
    BY <2>1, <2>2, Pieces
<1>4. CASE n = 2
  <2>1. us = <<u, v>>
    BY <1>2, <1>4, Pieces
  <2>2. After(<<u, v>>, us) = SubSeq(<<u, v>>, 3, 2)
    BY <1>1, <2>1 DEF After
  <2>3. After(<<u, v>>, us) = <<>>
    BY <2>2, Pieces
  <2>4. Arrival # "single"
    BY <1>2, <1>4
  <2> QED
    BY <2>1, <2>3, <2>4
<1> QED
  BY <1>3, <1>4

LEMMA UnitTexts ==
    ASSUME NEW m \in ClientMessages \cup ServerMessages, NEW d
    PROVE  /\ Text(<<Header(m)>>) = m
           /\ ~ Carries(<<Header(m)>>)
           /\ Text(<<Payload(d)>>) = NoMsg
           /\ ~ Carries(<<Payload(d)>>)
           /\ ServerData(<<Payload(d)>>) = {d}
           /\ ClientData(<<Payload(d)>>) = {d}
           /\ Text(<<Header(m), Payload(d)>>) = m
           /\ Carries(<<Header(m), Payload(d)>>)
           /\ Parsed(<<Header(m), Payload(d)>>) = {d}
<1>1. m # NoMsg /\ Header(m).msg = m /\ Payload(d).msg = NoMsg /\ Payload(d).data = d
  BY DEF ClientMessages, ServerMessages, NoMsg, Header, Payload
<1>2. PayloadAt(<<Header(m)>>) = {} /\ PayloadAt(<<Payload(d)>>) = {1}
  <2>1. DOMAIN <<Header(m)>> = {1} /\ DOMAIN <<Payload(d)>> = {1}
    OBVIOUS
  <2>2. <<Header(m)>>[1].msg # NoMsg /\ <<Payload(d)>>[1].msg = NoMsg
    BY <1>1
  <2> QED
    BY <2>1, <2>2 DEF PayloadAt
<1>3. PayloadAt(<<Header(m), Payload(d)>>) = {2}
  <2>1. DOMAIN <<Header(m), Payload(d)>> = {1, 2}
    OBVIOUS
  <2> QED
    BY <1>1, <2>1 DEF PayloadAt
<1>4. Cardinality({1}) = 1 /\ Cardinality({2}) = 1
  BY FS_Singleton
<1>5. Text(<<Header(m)>>) = m /\ Text(<<Payload(d)>>) = NoMsg
  BY <1>1 DEF Text
<1>6. Text(<<Header(m), Payload(d)>>) = m
  BY <1>1 DEF Text
<1>7. ~ Carries(<<Header(m)>>) /\ ~ Carries(<<Payload(d)>>) /\ Carries(<<Header(m), Payload(d)>>)
  BY <1>1, <1>2, <1>3 DEF Carries
<1>8. Parsed(<<Payload(d)>>) = {d}
  BY <1>1, <1>2, <1>4 DEF Parsed
<1>9. Parsed(<<Header(m), Payload(d)>>) = {d}
  BY <1>1, <1>3, <1>4 DEF Parsed
<1>10. ClientData(<<Payload(d)>>) = {d}
  BY <1>2, <1>8 DEF ClientData
<1>11. ServerData(<<Payload(d)>>) = {d}
  BY <1>7, <1>10 DEF ServerData
<1> QED
  BY <1>5, <1>6, <1>7, <1>9, <1>10, <1>11

LEMMA OwedType ==
    ASSUME TypeOK, NEW t \in Threads, Len(given[t]) = Len(verdicts[t]) + 1
    PROVE  Owed(t) \in Puzzles /\ AnswerTo(Owed(t)) \in Answers
           /\ Owed(t) # Unparsable /\ AnswerTo(Owed(t)) # Unparsable
<1>1. given[t] \in Seq(Puzzles) /\ Len(verdicts[t]) \in Nat
  BY LenProperties DEF TypeOK
<1>2. Len(given[t]) \in 1 .. Len(given[t])
  BY <1>1, LenProperties
<1>3. Owed(t) \in Puzzles
  BY <1>1, <1>2, ElementOfSeq DEF Owed
<1> QED
  BY <1>3, ValueAssumption DEF AnswerTo, Answers

LEMMA HandshakeInit == Init => Handshake
<1> SUFFICES ASSUME Init PROVE Handshake
  OBVIOUS
<1>1. TypeOK
  BY InitTypeOK
<1>2. Connected /\ (\A c \in Clients : Unanswered(c)) /\ BucketOutstanding
  BY DEF Init, Connected, Unanswered, BucketOutstanding
<1>3. ASSUME NEW t \in Threads PROVE InTurn(t)
  <2>1. fd[t] \in Clients
    BY <1>2 DEF Connected
  <2>2. NotAsked(t) /\ Buffers(t)
    BY <2>1 DEF Init, NotAsked, Peer, Streams, Buffers
  <2>3. Books(t)
    BY DEF Init, Books
  <2> QED
    BY <2>2, <2>3 DEF InTurn
<1> QED
  BY <1>1, <1>2, <1>3 DEF Handshake

-----------------------------------------------------------------------------
(* A session nobody touches stays in turn.                                   *)
View(t) ==
    <<spc[t], issued[t], authenticated[t], retry[t], sDataBuf[t], given[t], verdicts[t], fd[t],
      cpc[fd[t]], cDataBuf[fd[t]], toServer[fd[t]], toClient[fd[t]]>>

LEMMA UntouchedKeeps ==
    ASSUME NEW t \in Threads, InTurn(t), View(t)' = View(t)
    PROVE  InTurn(t)'
<1>1. /\ spc'[t] = spc[t] /\ issued'[t] = issued[t] /\ authenticated'[t] = authenticated[t]
      /\ retry'[t] = retry[t] /\ sDataBuf'[t] = sDataBuf[t] /\ given'[t] = given[t]
      /\ verdicts'[t] = verdicts[t] /\ fd'[t] = fd[t]
      /\ cpc'[fd'[t]] = cpc[fd[t]] /\ cDataBuf'[fd'[t]] = cDataBuf[fd[t]]
      /\ toServer'[fd'[t]] = toServer[fd[t]] /\ toClient'[fd'[t]] = toClient[fd[t]]
  BY DEF View
<1>2. Books(t)' /\ Buffers(t)'
  BY <1>1 DEF InTurn, Books, Buffers, Peer
<1>3. /\ NotAsked(t) => NotAsked(t)'
      /\ Passed(t) => Passed(t)'
      /\ Failed(t) => Failed(t)'
  BY <1>1 DEF NotAsked, Passed, Failed, Here, Peer, Streams
<1>4. Asked(t) => Asked(t)'
  BY <1>1 DEF Asked, Searching, Judging, Here, Peer, Streams, Owed, Solution
<1> QED
  BY <1>2, <1>3, <1>4 DEF InTurn


(* A step of a thread touches its own session and connection only.           *)
Reading(t, us) ==
    \/ RejectBytes(t, us)  \/ AnswerHello(t, us)    \/ IssuePuzzle(t, us)
    \/ TakeSolution(t, us) \/ RefuseSolution(t, us) \/ ReadSolutionData(t, us)
    \/ SendResource(t, us) \/ HelloAgain(t, us)     \/ CloseThread(t, us)
    \/ IgnoreText(t, us)

Judgement(t, d) == AcceptAnswer(t, d) \/ AskAgain(t, d) \/ GiveUp(t, d)

LEMMA ServerStepKinds ==
    ASSUME NEW t \in Threads, ServerStep(t)
    PROVE  \/ \E us : Reading(t, us)
           \/ \E d \in Answers : Judgement(t, d)
           \/ /\ process' = "dead"
              /\ UNCHANGED <<fd, threadVars, clientVars, netVars, bookVars>>
BY DEF ServerStep, Reading, Judgement, FailToParse, LosePeer

Elsewhere(t) ==
    /\ UNCHANGED <<fd, clientVars>>
    /\ \A s \in Threads \ {t} :
          /\ spc'[s] = spc[s] /\ issued'[s] = issued[s] /\ authenticated'[s] = authenticated[s]
          /\ retry'[s] = retry[s] /\ sDataBuf'[s] = sDataBuf[s]
          /\ given'[s] = given[s] /\ verdicts'[s] = verdicts[s]
    /\ \A c \in Clients \ {fd[t]} : toServer'[c] = toServer[c] /\ toClient'[c] = toClient[c]

LEMMA ReadingIsOwn ==
    ASSUME TypeOK, NEW t \in Threads, NEW us, Reading(t, us)
    PROVE  Elsewhere(t)
<1> USE DEF RejectBytes, AnswerHello, IssuePuzzle, TakeSolution, RefuseSolution,
         ReadSolutionData, SendResource, HelloAgain, CloseThread, IgnoreText
<1>1. UNCHANGED <<fd, clientVars>>
  BY DEF Reading, Reply, HandOut, socketVars, clientVars
<1>2. \A s \in Threads \ {t} : spc'[s] = spc[s] /\ issued'[s] = issued[s]
  BY DEF Reading, threadVars, TypeOK
<1>3. \A s \in Threads \ {t} : authenticated'[s] = authenticated[s] /\ retry'[s] = retry[s]
  BY DEF Reading, threadVars, TypeOK
<1>4. \A s \in Threads \ {t} : sDataBuf'[s] = sDataBuf[s]
  BY DEF Reading, ServerCollects, threadVars, TypeOK
<1>5. given' = given \/ \E p : given' = [given EXCEPT ![t] = p]
  <2>1. CASE IssuePuzzle(t, us)
    BY <2>1 DEF HandOut
  <2>2. CASE ~ IssuePuzzle(t, us)
    BY <2>2 DEF Reading, bookVars
  <2> QED
    BY <2>1, <2>2
<1>6. verdicts' = verdicts
  BY DEF Reading, bookVars
<1>7. \A s \in Threads \ {t} : given'[s] = given[s]
  BY <1>5 DEF TypeOK
<1>8. \E q : toServer' = [toServer EXCEPT ![fd[t]] = q]
  BY DEF Reading, ServerReads
<1>9. \A c \in Clients \ {fd[t]} : toServer'[c] = toServer[c]
  BY <1>8 DEF TypeOK
<1>10. toClient' = toClient \/ \E q : toClient' = [toClient EXCEPT ![fd[t]] = q]
  <2>1. CASE \E units : Reply(t, units)
    BY <2>1 DEF Reply
  <2>2. CASE ~ \E units : Reply(t, units)
    BY <2>2 DEF Reading, HandOut
  <2> QED
    BY <2>1, <2>2
<1>11. \A c \in Clients \ {fd[t]} : toClient'[c] = toClient[c]
  BY <1>10 DEF TypeOK
<1> QED
  BY <1>1, <1>2, <1>3, <1>4, <1>6, <1>7, <1>9, <1>11 DEF Elsewhere

LEMMA JudgementIsOwn ==
    ASSUME TypeOK, NEW t \in Threads, NEW d, Judgement(t, d)
    PROVE  Elsewhere(t)
<1> USE DEF AcceptAnswer, AskAgain, GiveUp, Judges
<1>1. UNCHANGED <<fd, clientVars>>
  BY DEF Judgement, Reply, HandOut, socketVars, clientVars
<1>2. \A s \in Threads \ {t} : spc'[s] = spc[s] /\ issued'[s] = issued[s]
  BY DEF Judgement, TypeOK
<1>3. \A s \in Threads \ {t} : authenticated'[s] = authenticated[s] /\ retry'[s] = retry[s]
  BY DEF Judgement, TypeOK
<1>4. \A s \in Threads \ {t} : sDataBuf'[s] = sDataBuf[s]
  BY DEF Judgement, TypeOK
<1>5. given' = given \/ \E p : given' = [given EXCEPT ![t] = p]
  <2>1. CASE AskAgain(t, d)
    BY <2>1 DEF HandOut
  <2>2. CASE ~ AskAgain(t, d)
    BY <2>2 DEF Judgement
  <2> QED
    BY <2>1, <2>2
<1>6. \E v : verdicts' = [verdicts EXCEPT ![t] = v]
  BY DEF Judgement
<1>7. \A s \in Threads \ {t} : given'[s] = given[s] /\ verdicts'[s] = verdicts[s]
  BY <1>5, <1>6 DEF TypeOK
<1>8. toServer' = toServer
  BY DEF Judgement
<1>9. \E units : Reply(t, units)
  BY DEF Judgement, HandOut
<1>10. \E q : toClient' = [toClient EXCEPT ![fd[t]] = q]
  BY <1>9 DEF Reply
<1>11. \A c \in Clients \ {fd[t]} : toClient'[c] = toClient[c]
  BY <1>10 DEF TypeOK
<1> QED
  BY <1>1, <1>2, <1>3, <1>4, <1>7, <1>8, <1>11 DEF Elsewhere

LEMMA ElsewhereKeeps ==
    ASSUME NEW t \in Threads, Elsewhere(t),
           NEW s \in Threads \ {t}, HasPeer(s), fd[s] # fd[t], InTurn(s)
    PROVE  InTurn(s)'
<1>1. fd[s] \in Clients \ {fd[t]}
  BY DEF HasPeer
<1>2. View(s)' = View(s)
  BY <1>1 DEF View, Elsewhere, clientVars
<1> QED
  BY <1>2, UntouchedKeeps

-----------------------------------------------------------------------------
(* What a thread may hear, and where its session stands when it does.        *)
Quiet(t) == toServer'[fd[t]] = <<>> /\ toClient[fd[t]] = <<>>

LEMMA ServerHears ==
    ASSUME TypeOK, NEW t \in Threads, HasPeer(t), InTurn(t),
           NEW us, ServerReads(t, "recv", us)
    PROVE  \/ /\ NotAsked(t) /\ Here(t, "recv") /\ Quiet(t) /\ ~ Carries(us)
              /\ Text(us) \in {"CLIENT_HELLO", "ACK_HELLO"}
           \/ /\ Asked(t) /\ Text(us) = "CLIENT_PUZZLE_SOLUTION" /\ toClient[fd[t]] = <<>>
              /\ \/ /\ Here(t, "recv") /\ Quiet(t)
                    /\ Carries(us) /\ Parsed(us) = {AnswerTo(Owed(t))}
                 \/ Here(t, "recv") /\ toServer'[fd[t]] = <<Solution(t)>> /\ ~ Carries(us)
                 \/ Peer(t) \in Lost /\ Quiet(t) /\ ~ Carries(us)
           \/ /\ Passed(t) /\ Here(t, "recv") /\ Quiet(t) /\ ~ Carries(us)
              /\ Text(us) = "GET_RESOURCE"
           \/ /\ Passed(t) /\ Peer(t) = "served" /\ Quiet(t) /\ ~ Carries(us)
              /\ Text(us) = "END_SESSION"
<1> DEFINE q == toServer[fd[t]]
<1>1. fd[t] \in Clients /\ spc[t] = "recv" /\ us \in Chunks(q)
      /\ toServer'[fd[t]] = After(q, us)
  BY DEF HasPeer, ServerReads, TypeOK
<1>2. q # <<>>
  BY <1>1, ChunkOfNone
<1> HIDE DEF q
<1>3. ASSUME NEW m \in ClientMessages, q = <<Header(m)>>
      PROVE  Text(us) = m /\ ~ Carries(us) /\ toServer'[fd[t]] = <<>>
  <2>1. us = <<Header(m)>> /\ After(q, us) = <<>>
    BY <1>1, <1>3, ChunkOfOne
  <2> QED
    BY <1>1, <2>1, UnitTexts
<1>4. CASE NotAsked(t)
  <2>1. PICK m \in {"CLIENT_HELLO", "ACK_HELLO"} :
            q = <<Header(m)>> /\ toClient[fd[t]] = <<>> /\ Here(t, "recv")
    BY <1>2, <1>4 DEF NotAsked, Streams, q
  <2>2. m \in ClientMessages
    BY DEF ClientMessages
  <2> QED
    BY <1>3, <1>4, <2>1, <2>2 DEF Quiet
<1>5. CASE Asked(t)
  <2>1. Judging(t)
    BY <1>2, <1>5 DEF Asked, Searching, Streams, q
  <2>2. toClient[fd[t]] = <<>>
    BY <2>1 DEF Judging, Streams
  <2>3. "CLIENT_PUZZLE_SOLUTION" \in ClientMessages
    BY DEF ClientMessages
  <2>4. CASE Here(t, "recv") /\ q = <<Header("CLIENT_PUZZLE_SOLUTION"), Solution(t)>>
    <3>1. \/ us = <<Header("CLIENT_PUZZLE_SOLUTION")>> /\ After(q, us) = <<Solution(t)>>
          \/ /\ us = <<Header("CLIENT_PUZZLE_SOLUTION"), Solution(t)>>
             /\ After(q, us) = <<>>
      BY <1>1, <2>4, ChunkOfTwo
    <3>2. Text(us) = "CLIENT_PUZZLE_SOLUTION"
      BY <2>3, <3>1, UnitTexts DEF Solution
    <3>3. CASE us = <<Header("CLIENT_PUZZLE_SOLUTION")>> /\ After(q, us) = <<Solution(t)>>
      <4>1. ~ Carries(us)
        BY <2>3, <3>3, UnitTexts
      <4> QED
        BY <1>1, <1>5, <2>2, <2>4, <3>2, <3>3, <4>1
    <3>4. CASE us = <<Header("CLIENT_PUZZLE_SOLUTION"), Solution(t)>> /\ After(q, us) = <<>>
      <4>1. Carries(us) /\ Parsed(us) = {AnswerTo(Owed(t))}
        BY <2>3, <3>4, UnitTexts DEF Solution
      <4> QED
        BY <1>1, <1>5, <2>2, <2>4, <3>2, <3>4, <4>1 DEF Quiet
    <3> QED
      BY <3>1, <3>3, <3>4
  <2>5. CASE Peer(t) \in Lost /\ q = <<Header("CLIENT_PUZZLE_SOLUTION")>>
    BY <1>3, <1>5, <2>2, <2>3, <2>5 DEF Quiet
  <2>6. \/ Here(t, "recv") /\ q = <<Header("CLIENT_PUZZLE_SOLUTION"), Solution(t)>>
        \/ Peer(t) \in Lost /\ q = <<Header("CLIENT_PUZZLE_SOLUTION")>>
    BY <1>1, <2>1 DEF Judging, Streams, q
  <2> QED
    BY <2>4, <2>5, <2>6
<1>6. CASE Passed(t)
  <2>1. \/ Here(t, "recv") /\ q = <<Header("GET_RESOURCE")>> /\ toClient[fd[t]] = <<>>
        \/ Peer(t) = "served" /\ q = <<Header("END_SESSION")>> /\ toClient[fd[t]] = <<>>
    BY <1>1, <1>2, <1>6 DEF Passed, Streams, q
  <2>2. {"GET_RESOURCE", "END_SESSION"} \subseteq ClientMessages
    BY DEF ClientMessages
  <2> QED
    BY <1>3, <1>6, <2>1, <2>2 DEF Quiet
<1>7. ~ Failed(t)
  BY <1>1 DEF Failed
<1> QED
  BY <1>4, <1>5, <1>6, <1>7 DEF InTurn

LEMMA ReplyArrives ==
    ASSUME TypeOK, NEW t \in Threads, HasPeer(t), toClient[fd[t]] = <<>>,
           NEW units \in Seq(ServerUnits), Reply(t, units)
    PROVE  /\ toClient'[fd[t]] = units
           /\ fd' = fd /\ cpc' = cpc /\ cDataBuf' = cDataBuf
<1>1. fd[t] \in Clients /\ <<>> \o units = units
  BY ConcatEmptySeq DEF HasPeer
<1> QED
  BY <1>1 DEF Reply, socketVars, clientVars, TypeOK

(* The books do not mind a step without a puzzle or a verdict.               *)
LEMMA BooksKept ==
    ASSUME NEW t \in Threads, Books(t),
           given'[t] = given[t], verdicts'[t] = verdicts[t], retry'[t] = retry[t],
           authenticated'[t] = authenticated[t],
           authenticated[t] \/ (spc'[t] = "done" <=> spc[t] = "done")
    PROVE  Books(t)'
BY DEF Books

-----------------------------------------------------------------------------
(* The turns of the thread.                                                  *)
LEMMA AnswerHelloTurn ==
    ASSUME TypeOK, NEW t \in Threads, HasPeer(t), InTurn(t), NEW us, AnswerHello(t, us)
    PROVE  InTurn(t)'
<1>1. /\ NotAsked(t) /\ Here(t, "recv") /\ Quiet(t) /\ ~ Carries(us)
  BY ServerHears DEF AnswerHello
<1>2. Reply(t, <<Header("SERVER_HELLO")>>) /\ <<Header("SERVER_HELLO")>> \in Seq(ServerUnits)
  BY HeaderReply DEF AnswerHello, ServerMessages
<1>3. /\ toClient'[fd[t]] = <<Header("SERVER_HELLO")>>
      /\ fd' = fd /\ cpc' = cpc /\ cDataBuf' = cDataBuf
  BY <1>1, <1>2, ReplyArrives DEF Quiet
<1>4. /\ UNCHANGED <<spc, issued, authenticated, retry, given, verdicts>>
      /\ sDataBuf' = sDataBuf
  BY <1>1 DEF AnswerHello, ServerCollects, bookVars
<1>5. NotAsked(t)'
  BY <1>1, <1>3, <1>4 DEF NotAsked, Here, Peer, Streams, Quiet
<1>6. Books(t)'
  BY <1>4, BooksKept DEF InTurn
<1>7. Buffers(t)'
  BY <1>3, <1>4 DEF InTurn, Buffers, Peer
<1> QED
  BY <1>5, <1>6, <1>7 DEF InTurn

LEMMA PuzzleArrives ==
    ASSUME TypeOK, NEW t \in Threads, HasPeer(t), toClient[fd[t]] = <<>>,
           NEW m \in {"CLIENT_PUZZLE", "CLIENT_PUZZLE_RETRY"}, NEW p \in Puzzles,
           NEW left, HandOut(t, m, p, left)
    PROVE  /\ toClient'[fd[t]] = <<Header(m), Payload(p)>>
           /\ fd' = fd /\ cpc' = cpc /\ cDataBuf' = cDataBuf
           /\ Len(given'[t]) = Len(given[t]) + 1
           /\ Owed(t)' = p
           /\ \A i \in 1 .. Len(given[t]) : given'[t][i] = given[t][i]
<1>1. Reply(t, <<Header(m), Payload(p)>>) /\ given' = [given EXCEPT ![t] = Append(@, p)]
  BY DEF HandOut, PuzzleUnits
<1>2. Header(m) \in ServerUnits /\ Payload(p) \in ServerUnits
  BY ServerUnitsType DEF ServerMessages
<1>3. <<Header(m), Payload(p)>> \in Seq(ServerUnits)
  BY <1>2
<1>4. /\ toClient'[fd[t]] = <<Header(m), Payload(p)>>
      /\ fd' = fd /\ cpc' = cpc /\ cDataBuf' = cDataBuf
  BY <1>1, <1>3, ReplyArrives
<1>5. given[t] \in Seq(Puzzles) /\ given'[t] = Append(given[t], p)
  BY <1>1 DEF TypeOK
<1>6. /\ Len(given'[t]) = Len(given[t]) + 1
      /\ given'[t][Len(given[t]) + 1] = p
      /\ \A i \in 1 .. Len(given[t]) : given'[t][i] = given[t][i]
  BY <1>5, AppendProperties
<1> QED
  BY <1>4, <1>6 DEF Owed

LEMMA IssuePuzzleTurn ==
    ASSUME TypeOK, NEW t \in Threads, HasPeer(t), InTurn(t), NEW us, IssuePuzzle(t, us)
    PROVE  InTurn(t)'
<1>1. /\ NotAsked(t) /\ Here(t, "recv") /\ Quiet(t) /\ ~ Carries(us)
  BY ServerHears DEF IssuePuzzle
<1>2. PICK p \in Puzzles : HandOut(t, "CLIENT_PUZZLE", p, bucket)
  BY DEF IssuePuzzle
<1>3. /\ toClient'[fd[t]] = <<Header("CLIENT_PUZZLE"), Payload(p)>>
      /\ fd' = fd /\ cpc' = cpc /\ cDataBuf' = cDataBuf
      /\ Len(given'[t]) = Len(given[t]) + 1
      /\ Owed(t)' = p
  BY <1>1, <1>2, PuzzleArrives DEF Quiet
<1>4. /\ UNCHANGED <<spc, authenticated, retry, verdicts, sDataBuf>>
      /\ issued'[t] = TRUE
  BY <1>1 DEF IssuePuzzle, ServerCollects, TypeOK
<1>5. given[t] = <<>> /\ verdicts[t] = <<>> /\ retry[t] = 0 /\ spc[t] = "recv"
      /\ ~ authenticated[t]
  BY <1>1 DEF NotAsked
<1>6. Len(given[t]) = 0 /\ Len(verdicts[t]) = 0
  BY <1>5
<1>7. Searching(t)'
  BY <1>1, <1>3, <1>4, <1>5 DEF Searching, Here, Peer, Streams, Quiet
<1>8. Asked(t)'
  BY <1>3, <1>4, <1>5, <1>6, <1>7 DEF Asked
<1>9. Books(t)'
  BY <1>4, <1>5, <1>6 DEF Books
<1>10. Buffers(t)'
  BY <1>3, <1>4 DEF InTurn, Buffers, Peer
<1> QED
  BY <1>8, <1>9, <1>10 DEF InTurn

LEMMA TakeSolutionTurn ==
    ASSUME TypeOK, NEW t \in Threads, HasPeer(t), InTurn(t), NEW us, TakeSolution(t, us)
    PROVE  InTurn(t)'
<1>1. /\ Asked(t) /\ toClient[fd[t]] = <<>>
      /\ \/ /\ Here(t, "recv") /\ Quiet(t)
            /\ Carries(us) /\ Parsed(us) = {AnswerTo(Owed(t))}
         \/ Here(t, "recv") /\ toServer'[fd[t]] = <<Solution(t)>> /\ ~ Carries(us)
         \/ Peer(t) \in Lost /\ Quiet(t) /\ ~ Carries(us)
  BY ServerHears DEF TakeSolution
<1>2. /\ UNCHANGED <<fd, issued, authenticated, retry, cpc, cDataBuf, toClient, given, verdicts>>
      /\ spc'[t] \in {"judge", "recvData"}
      /\ Carries(us) => spc'[t] = "judge"
  BY DEF TakeSolution, ServerCollects, DataNext, socketVars, clientVars, bookVars, TypeOK
<1>3. /\ Carries(us) => sDataBuf'[t] \in Parsed(us)
      /\ ~ Carries(us) => sDataBuf' = sDataBuf
  BY DEF TakeSolution, ServerCollects, TypeOK
<1>4. spc[t] = "recv" /\ sDataBuf[t] = Unparsable
  BY DEF TakeSolution, ServerReads, InTurn, Buffers
<1>5. Judging(t)'
  <2>1. CASE Here(t, "recv") /\ Quiet(t) /\ Carries(us) /\ Parsed(us) = {AnswerTo(Owed(t))}
    BY <1>2, <1>3, <2>1 DEF Judging, Here, Peer, Streams, Quiet, Owed
  <2>2. CASE Here(t, "recv") /\ toServer'[fd[t]] = <<Solution(t)>> /\ ~ Carries(us)
    BY <1>1, <1>2, <1>3, <1>4, <2>2 DEF Judging, Here, Peer, Streams, Solution, Owed
  <2>3. CASE Peer(t) \in Lost /\ Quiet(t) /\ ~ Carries(us)
    BY <1>1, <1>2, <1>3, <1>4, <2>3 DEF Judging, Here, Peer, Streams, Quiet
  <2> QED
    BY <1>1, <2>1, <2>2, <2>3
<1>6. Asked(t)'
  BY <1>1, <1>2, <1>5 DEF Asked
<1>7. Books(t)'
  BY <1>2, <1>4, BooksKept DEF InTurn
<1>8. Buffers(t)'
  BY <1>2, <1>3, <1>4 DEF InTurn, Buffers, Peer
<1> QED
  BY <1>6, <1>7, <1>8 DEF InTurn

LEMMA ReadSolutionDataTurn ==
    ASSUME TypeOK, NEW t \in Threads, HasPeer(t), InTurn(t), NEW us, ReadSolutionData(t, us)
    PROVE  InTurn(t)' /\ sDataBuf'[t] # Unparsable
<1>1. /\ fd[t] \in Clients /\ spc[t] = "recvData" /\ us \in Chunks(toServer[fd[t]])
      /\ toServer'[fd[t]] = After(toServer[fd[t]], us)
      /\ sDataBuf'[t] \in ServerData(us) /\ spc'[t] = "judge"
      /\ UNCHANGED <<fd, issued, authenticated, retry, cpc, cDataBuf, toClient, given, verdicts>>
  BY DEF ReadSolutionData, ServerReads, HasPeer, TypeOK, socketVars, clientVars, bookVars
<1>2. Asked(t) /\ Judging(t)
  BY <1>1 DEF InTurn, NotAsked, Passed, Failed, Asked, Searching
<1>3. toServer[fd[t]] = <<Solution(t)>> /\ toClient[fd[t]] = <<>> /\ Here(t, "recv")
  BY <1>1, <1>2, ChunkOfNone DEF Judging, Streams
<1>4. us = <<Solution(t)>> /\ toServer'[fd[t]] = <<>>
  BY <1>1, <1>3, ChunkOfOne
<1>5. ServerData(us) = {AnswerTo(Owed(t))}
  BY <1>4, UnitTexts DEF Solution, ClientMessages
<1>6. Asked(t)'
  BY <1>1, <1>2, <1>3, <1>4, <1>5 DEF Asked, Judging, Here, Peer, Streams, Owed
<1>7. Books(t)'
  BY <1>1, BooksKept DEF InTurn
<1>8. Buffers(t)'
  BY <1>1 DEF InTurn, Buffers, Peer
<1>9. sDataBuf'[t] # Unparsable
  BY <1>1, <1>2, <1>5, OwedType DEF Asked
<1> QED
  BY <1>6, <1>7, <1>8, <1>9 DEF InTurn

LEMMA SendResourceTurn ==
    ASSUME TypeOK, NEW t \in Threads, HasPeer(t), InTurn(t), NEW us, SendResource(t, us)
    PROVE  InTurn(t)'
<1>1. Passed(t) /\ Here(t, "recv") /\ Quiet(t) /\ ~ Carries(us)
  BY ServerHears DEF SendResource
<1>2. Reply(t, <<Header("RESOURCE")>>) /\ <<Header("RESOURCE")>> \in Seq(ServerUnits)
  BY <1>1, HeaderReply DEF SendResource, ServerMessages, Passed
<1>3. /\ toClient'[fd[t]] = <<Header("RESOURCE")>>
      /\ fd' = fd /\ cpc' = cpc /\ cDataBuf' = cDataBuf
  BY <1>1, <1>2, ReplyArrives DEF Quiet
<1>4. UNCHANGED <<spc, issued, authenticated, retry, given, verdicts, sDataBuf>>
  BY <1>1 DEF SendResource, ServerCollects, bookVars
<1>5. spc[t] = "recv"
  BY DEF SendResource, ServerReads
<1>6. Passed(t)'
  BY <1>1, <1>3, <1>4, <1>5 DEF Passed, Here, Peer, Streams, Quiet
<1>7. Books(t)'
  BY <1>4, BooksKept DEF InTurn
<1>8. Buffers(t)'
  BY <1>3, <1>4 DEF InTurn, Buffers, Peer
<1> QED
  BY <1>6, <1>7, <1>8 DEF InTurn

LEMMA CloseThreadTurn ==
    ASSUME TypeOK, NEW t \in Threads, HasPeer(t), InTurn(t), NEW us, CloseThread(t, us)
    PROVE  InTurn(t)' /\ Peer(t) = "served"
<1>1. Passed(t) /\ Peer(t) = "served" /\ Quiet(t) /\ ~ Carries(us)
  BY ServerHears DEF CloseThread
<1>2. /\ UNCHANGED <<fd, issued, authenticated, retry, cpc, cDataBuf, toClient, given, verdicts,
                     sDataBuf>>
      /\ spc'[t] = "done"
  BY <1>1 DEF CloseThread, ServerCollects, socketVars, clientVars, bookVars, TypeOK
<1>3. Passed(t)'
  BY <1>1, <1>2 DEF Passed, Here, Peer, Streams, Quiet
<1>4. Books(t)'
  BY <1>1, <1>2, BooksKept DEF InTurn, Passed
<1>5. Buffers(t)'
  BY <1>2 DEF InTurn, Buffers, Peer
<1> QED
  BY <1>1, <1>3, <1>4, <1>5 DEF InTurn

(* Where a session stands when its answer is judged, and what the books say  *)
(* of the verdict.                                                           *)
LEMMA Judged ==
    ASSUME TypeOK, NEW t \in Threads, HasPeer(t), InTurn(t),
           NEW d \in Answers, NEW ok \in BOOLEAN, Judges(t, d, ok)
    PROVE  /\ Asked(t) /\ d = AnswerTo(Owed(t)) /\ Here(t, "recv")
           /\ toServer[fd[t]] = <<>> /\ toClient[fd[t]] = <<>>
           /\ sDataBuf'[t] = Unparsable
           /\ Len(verdicts[t]) = retry[t] /\ Len(verdicts'[t]) = retry[t] + 1
           /\ \A i \in 1 .. retry[t] : verdicts'[t][i] = verdicts[t][i]
           /\ verdicts'[t][retry[t] + 1].answer \in {given[t][retry[t] + 1], Wrong}
           /\ verdicts'[t][retry[t] + 1].ok = ok
           /\ \A i \in 1 .. retry[t] : /\ ~ verdicts[t][i].ok
                                       /\ verdicts[t][i].answer \in {given[t][i], Wrong}
           /\ Len(given[t]) = retry[t] + 1 /\ retry[t] \in 0 .. MAX_RETRY
<1> DEFINE v == [answer |-> d, ok |-> ok]
<1>1. /\ spc[t] = "judge" /\ d = sDataBuf[t] /\ d # Unparsable
      /\ sDataBuf'[t] = Unparsable /\ verdicts'[t] = Append(verdicts[t], v)
  BY ValueAssumption DEF Judges, DataLeft, TypeOK, Answers
<1>2. Asked(t) /\ Judging(t)
  BY <1>1 DEF InTurn, NotAsked, Passed, Failed, Asked, Searching
<1>3. /\ d = AnswerTo(Owed(t)) /\ Here(t, "recv")
      /\ toServer[fd[t]] = <<>> /\ toClient[fd[t]] = <<>>
  BY <1>1, <1>2 DEF Judging, Streams
<1>4. ~ authenticated[t] /\ Len(given[t]) = Len(verdicts[t]) + 1
  BY <1>2 DEF Asked
<1>5. retry[t] \in 0 .. MAX_RETRY /\ Len(verdicts[t]) = retry[t]
  BY <1>1, <1>4, ParameterAssumption DEF InTurn, Books, TypeOK
<1>6. \A i \in 1 .. retry[t] : /\ ~ verdicts[t][i].ok
                               /\ verdicts[t][i].answer \in {given[t][i], Wrong}
  BY <1>4, <1>5 DEF InTurn, Books
<1>7. verdicts[t] \in Seq([answer : Answers, ok : BOOLEAN]) /\ v \in [answer : Answers, ok : BOOLEAN]
  BY DEF TypeOK
<1>8. /\ Len(verdicts'[t]) = retry[t] + 1
      /\ verdicts'[t][retry[t] + 1] = v
      /\ \A i \in 1 .. retry[t] : verdicts'[t][i] = verdicts[t][i]
  BY <1>1, <1>5, <1>7, AppendProperties
<1>9. d \in {given[t][retry[t] + 1], Wrong}
  BY <1>3, <1>4, <1>5 DEF AnswerTo, Owed
<1>10. v.answer = d /\ v.ok = ok
  OBVIOUS
<1> HIDE DEF v
<1> QED
  BY <1>1, <1>2, <1>3, <1>4, <1>5, <1>6, <1>8, <1>9, <1>10

LEMMA AcceptAnswerTurn ==
    ASSUME TypeOK, NEW t \in Threads, HasPeer(t), InTurn(t),
           NEW d \in Answers, AcceptAnswer(t, d)
    PROVE  InTurn(t)'
<1>1. Judges(t, d, TRUE) /\ Reply(t, <<Header("HANDSHAKE_COMPLETE")>>)
  BY DEF AcceptAnswer
<1>2. /\ Asked(t) /\ Here(t, "recv")
      /\ toServer[fd[t]] = <<>> /\ toClient[fd[t]] = <<>>
      /\ sDataBuf'[t] = Unparsable
      /\ Len(verdicts'[t]) = retry[t] + 1 /\ Len(given[t]) = retry[t] + 1
      /\ retry[t] \in 0 .. MAX_RETRY
  BY <1>1, Judged
<1>3. /\ \A i \in 1 .. retry[t] : /\ ~ verdicts'[t][i].ok
                                  /\ verdicts'[t][i].answer \in {given[t][i], Wrong}
      /\ verdicts'[t][retry[t] + 1].ok
      /\ verdicts'[t][retry[t] + 1].answer \in {given[t][retry[t] + 1], Wrong}
  <2>1. /\ \A i \in 1 .. retry[t] : verdicts'[t][i] = verdicts[t][i]
        /\ verdicts'[t][retry[t] + 1].answer \in {given[t][retry[t] + 1], Wrong}
        /\ verdicts'[t][retry[t] + 1].ok = TRUE
    BY <1>1, Judged
  <2>2. \A i \in 1 .. retry[t] : /\ ~ verdicts[t][i].ok
                                 /\ verdicts[t][i].answer \in {given[t][i], Wrong}
    BY <1>1, Judged
  <2>3. ASSUME NEW i \in 1 .. retry[t]
        PROVE  ~ verdicts'[t][i].ok /\ verdicts'[t][i].answer \in {given[t][i], Wrong}
    <3>1. verdicts'[t][i] = verdicts[t][i]
      BY <2>1
    <3> QED
      BY <2>2, <3>1
  <2> QED
    BY <2>1, <2>3
<1>4. <<Header("HANDSHAKE_COMPLETE")>> \in Seq(ServerUnits)
  BY HeaderReply DEF ServerMessages
<1>5. /\ toClient'[fd[t]] = <<Header("HANDSHAKE_COMPLETE")>>
      /\ fd' = fd /\ cpc' = cpc /\ cDataBuf' = cDataBuf
  BY <1>1, <1>2, <1>4, ReplyArrives
<1>6. /\ UNCHANGED <<retry, toServer, given>>
      /\ spc'[t] = "recv" /\ authenticated'[t] /\ ~ issued'[t]
  BY DEF AcceptAnswer, TypeOK
<1>7. Passed(t)'
  BY <1>2, <1>5, <1>6 DEF Passed, Here, Peer, Streams
<1>8. Books(t)'
  BY <1>2, <1>3, <1>6 DEF Books
<1>9. Buffers(t)'
  BY <1>2, <1>5, <1>6 DEF InTurn, Buffers, Peer
<1> QED
  BY <1>7, <1>8, <1>9 DEF InTurn

LEMMA AskAgainTurn ==
    ASSUME TypeOK, NEW t \in Threads, HasPeer(t), InTurn(t),
           NEW d \in Answers, AskAgain(t, d)
    PROVE  InTurn(t)'
<1>1. Judges(t, d, FALSE)
  BY DEF AskAgain
<1>2. /\ Asked(t) /\ Here(t, "recv")
      /\ toServer[fd[t]] = <<>> /\ toClient[fd[t]] = <<>>
      /\ sDataBuf'[t] = Unparsable
      /\ Len(verdicts'[t]) = retry[t] + 1 /\ Len(given[t]) = retry[t] + 1
      /\ retry[t] \in 0 .. MAX_RETRY
  BY <1>1, Judged
<1>3. /\ \A i \in 1 .. retry[t] : /\ ~ verdicts'[t][i].ok
                                  /\ verdicts'[t][i].answer \in {given[t][i], Wrong}
      /\ ~ verdicts'[t][retry[t] + 1].ok
      /\ verdicts'[t][retry[t] + 1].answer \in {given[t][retry[t] + 1], Wrong}
  BY <1>1, Judged
<1>4. PICK p \in Puzzles : HandOut(t, "CLIENT_PUZZLE_RETRY", p, LeftAfter(d))
  BY DEF AskAgain
<1>5. /\ toClient'[fd[t]] = <<Header("CLIENT_PUZZLE_RETRY"), Payload(p)>>
      /\ fd' = fd /\ cpc' = cpc /\ cDataBuf' = cDataBuf
      /\ Len(given'[t]) = Len(given[t]) + 1
      /\ Owed(t)' = p
      /\ \A i \in 1 .. Len(given[t]) : given'[t][i] = given[t][i]
  BY <1>2, <1>4, PuzzleArrives
<1>6. /\ UNCHANGED <<issued, authenticated, toServer>>
      /\ spc'[t] = "recv" /\ retry'[t] = retry[t] + 1
  BY DEF AskAgain, TypeOK
<1>7. Searching(t)'
  BY <1>2, <1>5, <1>6 DEF Searching, Here, Peer, Streams
<1>8. Asked(t)'
  BY <1>2, <1>5, <1>6, <1>7 DEF Asked
<1>9. ~ authenticated[t]
  BY <1>2 DEF Asked
<1>10. \A i \in 1 .. retry[t] + 1 : /\ ~ verdicts'[t][i].ok
                                   /\ verdicts'[t][i].answer \in {given'[t][i], Wrong}
  <2>1. \A i \in 1 .. retry[t] + 1 : given'[t][i] = given[t][i]
    BY <1>2, <1>5
  <2>2. \A i \in 1 .. retry[t] + 1 : i \in 1 .. retry[t] \/ i = retry[t] + 1
    BY <1>2
  <2> QED
    BY <1>3, <2>1, <2>2, Zenon
<1>11. Books(t)'
  BY <1>2, <1>6, <1>9, <1>10 DEF Books
<1>12. Buffers(t)'
  BY <1>2, <1>5, <1>6 DEF InTurn, Buffers, Peer
<1> QED
  BY <1>8, <1>11, <1>12 DEF InTurn

LEMMA GiveUpTurn ==
    ASSUME TypeOK, NEW t \in Threads, HasPeer(t), InTurn(t),
           NEW d \in Answers, GiveUp(t, d)
    PROVE  InTurn(t)' /\ retry[t] = MAX_RETRY
<1>1. Judges(t, d, FALSE) /\ Reply(t, <<Header("END_SESSION")>>) /\ ~ retry[t] < MAX_RETRY
  BY DEF GiveUp, RetryLeft, Farewell
<1>2. /\ Asked(t) /\ Here(t, "recv")
      /\ toServer[fd[t]] = <<>> /\ toClient[fd[t]] = <<>>
      /\ sDataBuf'[t] = Unparsable
      /\ Len(verdicts'[t]) = retry[t] + 1 /\ Len(given[t]) = retry[t] + 1
      /\ retry[t] \in 0 .. MAX_RETRY
  BY <1>1, Judged
<1>3. /\ \A i \in 1 .. retry[t] : /\ ~ verdicts'[t][i].ok
                                  /\ verdicts'[t][i].answer \in {given[t][i], Wrong}
      /\ ~ verdicts'[t][retry[t] + 1].ok
      /\ verdicts'[t][retry[t] + 1].answer \in {given[t][retry[t] + 1], Wrong}
  BY <1>1, Judged
<1>4. <<Header("END_SESSION")>> \in Seq(ServerUnits)
  BY HeaderReply DEF ServerMessages
<1>5. /\ toClient'[fd[t]] = <<Header("END_SESSION")>>
      /\ fd' = fd /\ cpc' = cpc /\ cDataBuf' = cDataBuf
  BY <1>1, <1>2, <1>4, ReplyArrives
<1>6. /\ UNCHANGED <<issued, authenticated, retry, toServer, given>>
      /\ spc'[t] = "done"
  BY DEF GiveUp, TypeOK
<1>7. retry[t] = MAX_RETRY
  BY <1>1, <1>2, ParameterAssumption
<1>8. ~ authenticated[t]
  BY <1>2 DEF Asked
<1>9. Failed(t)'
  BY <1>2, <1>5, <1>6, <1>7, <1>8 DEF Failed, Here, Peer, Streams
<1>10. Books(t)'
  BY <1>2, <1>3, <1>6, <1>8 DEF Books
<1>11. Buffers(t)'
  BY <1>2, <1>5, <1>6 DEF InTurn, Buffers, Peer
<1> QED
  BY <1>7, <1>9, <1>10, <1>11 DEF InTurn

(* The other branches of socketThread are not for a client of this program.  *)
LEMMA ServerTurn ==
    ASSUME TypeOK, NEW t \in Threads, HasPeer(t), InTurn(t), ServerStep(t)
    PROVE  /\ InTurn(t)'
           /\ \A s \in Threads \ {t} : HasPeer(s) /\ fd[s] # fd[t] /\ InTurn(s) => InTurn(s)'
           /\ fd' = fd
           /\ \A c \in Clients \ {fd[t]} : toClient'[c] = toClient[c]
<1>1. ASSUME NEW us, Reading(t, us)
      PROVE  InTurn(t)'
  <2>1. NoMsg \notin {"CLIENT_HELLO", "ACK_HELLO", "CLIENT_PUZZLE_SOLUTION", "GET_RESOURCE",
                      "END_SESSION"}
    BY DEF NoMsg
  <2>2. ~ RejectBytes(t, us)
    BY <2>1, ServerHears DEF RejectBytes
  <2>3. ~ RefuseSolution(t, us)
    BY ServerHears DEF RefuseSolution, Asked
  <2>4. ~ HelloAgain(t, us)
    BY ServerHears DEF HelloAgain
  <2>5. ~ IgnoreText(t, us)
    BY ServerHears DEF IgnoreText, Garbled
  <2> QED
    BY <1>1, <2>2, <2>3, <2>4, <2>5, AnswerHelloTurn, IssuePuzzleTurn, TakeSolutionTurn,
       ReadSolutionDataTurn, SendResourceTurn, CloseThreadTurn DEF Reading
<1>2. ASSUME NEW d \in Answers, Judgement(t, d)
      PROVE  InTurn(t)'
  BY <1>2, AcceptAnswerTurn, AskAgainTurn, GiveUpTurn DEF Judgement
<1>3. ASSUME UNCHANGED <<fd, threadVars, clientVars, netVars, bookVars>>
      PROVE  \A s \in Threads : InTurn(s) => InTurn(s)'
  <2>1. \A s \in Threads : View(s)' = View(s)
    BY <1>3 DEF View, threadVars, clientVars, netVars, bookVars
  <2> QED
    BY <2>1, UntouchedKeeps
<1>4. CASE Elsewhere(t)
  <2>1. InTurn(t)'
    BY <1>1, <1>2, <1>3, ServerStepKinds
  <2>2. \A s \in Threads \ {t} : HasPeer(s) /\ fd[s] # fd[t] /\ InTurn(s) => InTurn(s)'
    BY <1>4, ElsewhereKeeps
  <2> QED
    BY <1>4, <2>1, <2>2 DEF Elsewhere
<1>5. CASE ~ Elsewhere(t)
  <2>1. UNCHANGED <<fd, threadVars, clientVars, netVars, bookVars>>
    BY <1>5, ServerStepKinds, ReadingIsOwn, JudgementIsOwn
  <2> QED
    BY <1>3, <2>1 DEF netVars
<1> QED
  BY <1>4, <1>5

-----------------------------------------------------------------------------
(* A step of a client touches its own connection only.                       *)
Listening(c, us) ==
    \/ ClientAnswers(c, us)  \/ TakeResource(c, us) \/ TakePuzzle(c, us)
    \/ ReadPuzzleData(c, us) \/ TakeEnd(c, us)      \/ ClientIgnores(c, us)

LEMMA ClientStepKinds ==
    ASSUME NEW c \in Clients, ClientStep(c) \/ Vanish(c)
    PROVE  \/ \E us : Listening(c, us)
           \/ Connect(c) \/ ConnectionFailed(c) \/ SendSolution(c)
           \/ ClientFailsToParse(c) \/ LoseServer(c) \/ Vanish(c)
BY DEF ClientStep, Listening

LEMMA ClientStepIsOwn ==
    ASSUME TypeOK, NEW c \in Clients, ClientStep(c) \/ Vanish(c)
    PROVE  /\ UNCHANGED <<fd, threadVars, bookVars>>
           /\ \A b \in Clients \ {c} :
                 /\ cpc'[b] = cpc[b] /\ cDataBuf'[b] = cDataBuf[b]
                 /\ toServer'[b] = toServer[b] /\ toClient'[b] = toClient[b]
<1> USE DEF ClientAnswers, TakeResource, TakePuzzle, ReadPuzzleData, TakeEnd, ClientIgnores,
         Connect, ConnectionFailed, SendSolution, ClientFailsToParse, LoseServer, Vanish
<1>1. UNCHANGED <<fd, threadVars, bookVars>>
  BY ClientStepKinds DEF Listening, ClientSends, socketVars
<1>2. cpc' = cpc \/ \E x : cpc' = [cpc EXCEPT ![c] = x]
  <2>1. CASE \E us : Listening(c, us)
    BY <2>1 DEF Listening
  <2>2. CASE ~ \E us : Listening(c, us)
    BY <2>2, ClientStepKinds
  <2> QED
    BY <2>1, <2>2
<1>3. cDataBuf' = cDataBuf \/ \E x : cDataBuf' = [cDataBuf EXCEPT ![c] = x]
  <2>1. CASE \E us : Listening(c, us)
    <3>1. PICK us : Listening(c, us)
      BY <2>1
    <3>2. CASE ReadPuzzleData(c, us)
      BY <3>2
    <3>3. CASE ~ ReadPuzzleData(c, us)
      <4>1. ClientCollects(c, us)
        BY <3>1, <3>3 DEF Listening
      <4> QED
        BY <4>1 DEF ClientCollects
    <3> QED
      BY <3>2, <3>3
  <2>2. CASE ~ \E us : Listening(c, us)
    BY <2>2, ClientStepKinds
  <2> QED
    BY <2>1, <2>2
<1>4. toServer' = toServer \/ \E x : toServer' = [toServer EXCEPT ![c] = x]
  <2>1. CASE \E units : ClientSends(c, units)
    BY <2>1 DEF ClientSends
  <2>2. CASE ~ \E units : ClientSends(c, units)
    BY <2>2, ClientStepKinds DEF Listening, netVars
  <2> QED
    BY <2>1, <2>2
<1>5. toClient' = toClient \/ \E x : toClient' = [toClient EXCEPT ![c] = x]
  <2>1. CASE \E at, us : ClientReads(c, at, us)
    BY <2>1 DEF ClientReads
  <2>2. CASE ~ \E at, us : ClientReads(c, at, us)
    BY <2>2, ClientStepKinds DEF Listening, netVars
  <2> QED
    BY <2>1, <2>2
<1> QED
  BY <1>1, <1>2, <1>3, <1>4, <1>5 DEF TypeOK

LEMMA ClientStepKeeps ==
    ASSUME TypeOK, NEW c \in Clients, ClientStep(c) \/ Vanish(c),
           NEW t \in Threads, HasPeer(t), fd[t] # c, InTurn(t)
    PROVE  InTurn(t)'
<1>1. fd[t] \in Clients \ {c}
  BY DEF HasPeer
<1>2. View(t)' = View(t)
  BY <1>1, ClientStepIsOwn DEF View, threadVars, bookVars
<1> QED
  BY <1>2, UntouchedKeeps

(* What a client may hear.                                                   *)
Still(t) == toServer[fd[t]] = <<>> /\ toClient'[fd[t]] = <<>>

LEMMA ClientHears ==
    ASSUME TypeOK, NEW t \in Threads, HasPeer(t), InTurn(t),
           NEW us, ClientReads(fd[t], "recv", us)
    PROVE  \/ /\ NotAsked(t) /\ Still(t) /\ ~ Carries(us) /\ Text(us) = "SERVER_HELLO"
           \/ /\ Asked(t) /\ spc[t] = "recv" /\ toServer[fd[t]] = <<>>
              /\ Text(us) \in {"CLIENT_PUZZLE", "CLIENT_PUZZLE_RETRY"}
              /\ \/ Carries(us) /\ Parsed(us) = {Owed(t)} /\ toClient'[fd[t]] = <<>>
                 \/ ~ Carries(us) /\ toClient'[fd[t]] = <<Payload(Owed(t))>>
           \/ /\ Passed(t) /\ spc[t] = "recv" /\ Still(t) /\ ~ Carries(us)
              /\ Text(us) \in {"HANDSHAKE_COMPLETE", "RESOURCE"}
           \/ /\ Failed(t) /\ Still(t) /\ ~ Carries(us) /\ Text(us) = "END_SESSION"
<1> DEFINE q == toClient[fd[t]]
<1>1. fd[t] \in Clients /\ Peer(t) = "recv" /\ us \in Chunks(q)
      /\ toClient'[fd[t]] = After(q, us)
  BY DEF HasPeer, ClientReads, TypeOK, Peer
<1>2. q # <<>>
  BY <1>1, ChunkOfNone
<1> HIDE DEF q
<1>3. ASSUME NEW m \in ServerMessages, q = <<Header(m)>>
      PROVE  Text(us) = m /\ ~ Carries(us) /\ toClient'[fd[t]] = <<>>
  <2>1. us = <<Header(m)>> /\ After(q, us) = <<>>
    BY <1>1, <1>3, ChunkOfOne
  <2> QED
    BY <1>1, <2>1, UnitTexts
<1>4. {"SERVER_HELLO", "CLIENT_PUZZLE", "CLIENT_PUZZLE_RETRY", "HANDSHAKE_COMPLETE", "RESOURCE",
       "END_SESSION"} \subseteq ServerMessages
  BY DEF ServerMessages
<1>5. CASE NotAsked(t)
  <2>1. q = <<Header("SERVER_HELLO")>> /\ toServer[fd[t]] = <<>>
    BY <1>2, <1>5 DEF NotAsked, Streams, q
  <2> QED
    BY <1>3, <1>4, <1>5, <2>1 DEF Still
<1>6. CASE Asked(t)
  <2>1. Searching(t)
    BY <1>2, <1>6 DEF Asked, Judging, Streams, q
  <2>2. PICK m \in {"CLIENT_PUZZLE", "CLIENT_PUZZLE_RETRY"} :
            q = <<Header(m), Payload(Owed(t))>> /\ toServer[fd[t]] = <<>> /\ spc[t] = "recv"
    BY <1>1, <1>2, <2>1 DEF Searching, Streams, Here, Lost, q
  <2>3. \/ us = <<Header(m)>> /\ After(q, us) = <<Payload(Owed(t))>>
        \/ us = <<Header(m), Payload(Owed(t))>> /\ After(q, us) = <<>>
    BY <1>1, <2>2, ChunkOfTwo
  <2>4. m \in ServerMessages
    BY <1>4
  <2>5. CASE us = <<Header(m)>> /\ After(q, us) = <<Payload(Owed(t))>>
    <3>1. Text(us) = m /\ ~ Carries(us)
      BY <2>4, <2>5, UnitTexts
    <3> QED
      BY <1>1, <1>6, <2>2, <2>5, <3>1
  <2>6. CASE us = <<Header(m), Payload(Owed(t))>> /\ After(q, us) = <<>>
    <3>1. Text(us) = m /\ Carries(us) /\ Parsed(us) = {Owed(t)}
      BY <2>4, <2>6, UnitTexts
    <3> QED
      BY <1>1, <1>6, <2>2, <2>6, <3>1
  <2> QED
    BY <2>3, <2>5, <2>6
<1>7. CASE Passed(t)
  <2>1. PICK m \in {"HANDSHAKE_COMPLETE", "RESOURCE"} :
            q = <<Header(m)>> /\ toServer[fd[t]] = <<>> /\ spc[t] = "recv"
    BY <1>2, <1>7 DEF Passed, Streams, q
  <2> QED
    BY <1>3, <1>4, <1>7, <2>1 DEF Still
<1>8. CASE Failed(t)
  <2>1. q = <<Header("END_SESSION")>> /\ toServer[fd[t]] = <<>>
    BY <1>2, <1>8 DEF Failed, Streams, q
  <2> QED
    BY <1>3, <1>4, <1>8, <2>1 DEF Still
<1> QED
  BY <1>5, <1>6, <1>7, <1>8 DEF InTurn

LEMMA MessageArrives ==
    ASSUME TypeOK, NEW t \in Threads, HasPeer(t), toServer[fd[t]] = <<>>,
           NEW units \in Seq(ClientUnits), ClientSends(fd[t], units)
    PROVE  /\ toServer'[fd[t]] = units
           /\ UNCHANGED <<fd, spc, issued, authenticated, retry, sDataBuf, given, verdicts>>
<1>1. fd[t] \in Clients /\ <<>> \o units = units
  BY ConcatEmptySeq DEF HasPeer
<1> QED
  BY <1>1 DEF ClientSends, socketVars, threadVars, bookVars, TypeOK

LEMMA HeaderSent ==
    ASSUME NEW m \in ClientMessages
    PROVE  <<Header(m)>> \in Seq(ClientUnits)
BY ClientUnitsType

-----------------------------------------------------------------------------
(* The turns of the client.                                                  *)
LEMMA ClientAnswersTurn ==
    ASSUME TypeOK, NEW t \in Threads, HasPeer(t), InTurn(t), NEW us, ClientAnswers(fd[t], us)
    PROVE  InTurn(t)'
<1>1. ClientReads(fd[t], "recv", us) /\ Text(us) \in DOMAIN ReplyTo
  BY DEF ClientAnswers
<1>2. DOMAIN ReplyTo = {NoMsg, "SERVER_HELLO", "HANDSHAKE_COMPLETE", "INVALID_REQUEST"}
  BY DEF ReplyTo
<1>3. /\ ~ Carries(us) /\ Still(t)
      /\ \/ NotAsked(t) /\ Text(us) = "SERVER_HELLO"
         \/ Passed(t) /\ spc[t] = "recv" /\ Text(us) = "HANDSHAKE_COMPLETE"
  BY <1>1, <1>2, ClientHears DEF NoMsg
<1>4. /\ ReplyTo["SERVER_HELLO"] = "ACK_HELLO"
      /\ ReplyTo["HANDSHAKE_COMPLETE"] = "GET_RESOURCE"
  BY DEF ReplyTo, NoMsg
<1>5. PICK m \in {"ACK_HELLO", "GET_RESOURCE"} :
          /\ m = ReplyTo[Text(us)]
          /\ \/ NotAsked(t) /\ m = "ACK_HELLO"
             \/ Passed(t) /\ spc[t] = "recv" /\ m = "GET_RESOURCE"
  BY <1>3, <1>4
<1>6. ClientSends(fd[t], <<Header(m)>>) /\ <<Header(m)>> \in Seq(ClientUnits)
  BY <1>5, HeaderSent DEF ClientAnswers, ClientMessages
<1>7. /\ toServer'[fd[t]] = <<Header(m)>>
      /\ UNCHANGED <<fd, spc, issued, authenticated, retry, sDataBuf, given, verdicts>>
  BY <1>3, <1>6, MessageArrives DEF Still
<1>8. UNCHANGED <<cpc, cDataBuf>> /\ Peer(t) = "recv"
  BY <1>3 DEF ClientAnswers, ClientReads, ClientCollects, Peer
<1>9. NotAsked(t)' \/ Passed(t)'
  BY <1>3, <1>5, <1>7, <1>8 DEF NotAsked, Passed, Here, Peer, Streams, Still
<1>10. Books(t)'
  BY <1>7, BooksKept DEF InTurn
<1>11. Buffers(t)'
  BY <1>7, <1>8 DEF InTurn, Buffers, Peer
<1> QED
  BY <1>9, <1>10, <1>11 DEF InTurn

LEMMA TakeResourceTurn ==
    ASSUME TypeOK, NEW t \in Threads, HasPeer(t), InTurn(t), NEW us, TakeResource(fd[t], us)
    PROVE  InTurn(t)' /\ Passed(t) /\ spc[t] = "recv"
<1>1. Passed(t) /\ spc[t] = "recv" /\ Still(t) /\ ~ Carries(us)
  BY ClientHears DEF TakeResource
<1>2. /\ ClientSends(fd[t], <<Header("END_SESSION")>>)
      /\ <<Header("END_SESSION")>> \in Seq(ClientUnits)
  BY HeaderSent DEF TakeResource, ClientMessages
<1>3. /\ toServer'[fd[t]] = <<Header("END_SESSION")>>
      /\ UNCHANGED <<fd, spc, issued, authenticated, retry, sDataBuf, given, verdicts>>
  BY <1>1, <1>2, MessageArrives DEF Still
<1>4. fd[t] \in Clients /\ cpc'[fd[t]] = "served"
  BY DEF TakeResource, TypeOK, HasPeer
<1>5. Passed(t)'
  BY <1>1, <1>3, <1>4 DEF Passed, Peer, Streams, Still
<1>6. Books(t)'
  BY <1>3, BooksKept DEF InTurn
<1>7. Buffers(t)'
  BY <1>3, <1>4 DEF InTurn, Buffers, Peer
<1> QED
  BY <1>1, <1>5, <1>6, <1>7 DEF InTurn

LEMMA TakePuzzleTurn ==
    ASSUME TypeOK, NEW t \in Threads, HasPeer(t), InTurn(t), NEW us, TakePuzzle(fd[t], us)
    PROVE  InTurn(t)'
<1>1. /\ Asked(t) /\ spc[t] = "recv" /\ toServer[fd[t]] = <<>>
      /\ \/ Carries(us) /\ Parsed(us) = {Owed(t)} /\ toClient'[fd[t]] = <<>>
         \/ ~ Carries(us) /\ toClient'[fd[t]] = <<Payload(Owed(t))>>
  BY ClientHears DEF TakePuzzle
<1>2. /\ UNCHANGED <<fd, spc, issued, authenticated, retry, sDataBuf, given, verdicts, toServer>>
  BY DEF TakePuzzle, socketVars, threadVars, bookVars
<1>3. fd[t] \in Clients /\ cpc'[fd[t]] \in {"solve", "recvData"} /\ Peer(t) = "recv"
  BY DEF TakePuzzle, ClientReads, TypeOK, HasPeer, Peer
<1>4. ClientCollects(fd[t], us) /\ cDataBuf[fd[t]] = Unparsable
  BY <1>3 DEF TakePuzzle, InTurn, Buffers
<1>5. CASE Carries(us)
  <2>1. cHasData'[fd[t]] /\ cDataBuf'[fd[t]] = Owed(t)
    BY <1>1, <1>3, <1>4, <1>5 DEF ClientCollects, TypeOK
  <2>2. cpc'[fd[t]] = "solve"
    BY <1>3, <2>1 DEF TakePuzzle, TypeOK
  <2>3. Searching(t)'
    BY <1>1, <1>2, <1>5, <2>1, <2>2 DEF Searching, Peer, Streams, Owed
  <2> QED
    BY <1>1, <1>2, <2>2, <2>3, BooksKept DEF InTurn, Asked, Buffers, Peer
<1>6. CASE ~ Carries(us)
  <2>1. cDataBuf' = cDataBuf
    BY <1>4, <1>6 DEF ClientCollects
  <2>2. Searching(t)'
    BY <1>1, <1>2, <1>3, <1>4, <1>6, <2>1 DEF Searching, Here, Peer, Streams, Owed
  <2> QED
    BY <1>1, <1>2, <1>4, <2>1, <2>2, BooksKept DEF InTurn, Asked, Buffers, Peer
<1> QED
  BY <1>5, <1>6

LEMMA ReadPuzzleDataTurn ==
    ASSUME TypeOK, NEW t \in Threads, HasPeer(t), InTurn(t), NEW us, ReadPuzzleData(fd[t], us)
    PROVE  InTurn(t)' /\ cDataBuf'[fd[t]] # Unparsable
<1>1. /\ fd[t] \in Clients /\ Peer(t) = "recvData" /\ us \in Chunks(toClient[fd[t]])
      /\ toClient'[fd[t]] = After(toClient[fd[t]], us)
      /\ cpc'[fd[t]] = "solve" /\ cDataBuf'[fd[t]] \in ClientData(us)
      /\ UNCHANGED <<fd, spc, issued, authenticated, retry, sDataBuf, given, verdicts, toServer>>
  BY DEF ReadPuzzleData, ClientReads, HasPeer, TypeOK, Peer, socketVars, threadVars, bookVars
<1>2. Asked(t) /\ Searching(t)
  BY <1>1 DEF InTurn, NotAsked, Passed, Failed, Asked, Judging, Here, Lost
<1>3. toClient[fd[t]] = <<Payload(Owed(t))>> /\ toServer[fd[t]] = <<>> /\ spc[t] = "recv"
  BY <1>1, <1>2, ChunkOfNone DEF Searching, Streams, Here, Lost
<1>4. us = <<Payload(Owed(t))>> /\ toClient'[fd[t]] = <<>>
  BY <1>1, <1>3, ChunkOfOne
<1>5. ClientData(us) = {Owed(t)}
  BY <1>4, UnitTexts DEF ClientMessages
<1>6. Searching(t)'
  BY <1>1, <1>3, <1>4, <1>5 DEF Searching, Peer, Streams, Owed
<1>7. cDataBuf'[fd[t]] # Unparsable
  BY <1>1, <1>2, <1>5, OwedType DEF Asked
<1> QED
  BY <1>1, <1>2, <1>6, <1>7, BooksKept DEF InTurn, Asked, Buffers, Peer

LEMMA SendSolutionTurn ==
    ASSUME TypeOK, NEW t \in Threads, HasPeer(t), InTurn(t), SendSolution(fd[t])
    PROVE  InTurn(t)'
<1> DEFINE units(p) == <<Header("CLIENT_PUZZLE_SOLUTION"), Payload(AnswerTo(p))>>
<1>1. /\ fd[t] \in Clients /\ Peer(t) = "solve" /\ cDataBuf[fd[t]] \in Puzzles
      /\ cpc'[fd[t]] = "recv" /\ cDataBuf'[fd[t]] = Unparsable /\ toClient' = toClient
  BY DEF SendSolution, HasPeer, TypeOK, Peer
<1>2. Asked(t) /\ Searching(t)
  BY <1>1 DEF InTurn, NotAsked, Passed, Failed, Asked, Judging, Here, Lost
<1>3. /\ cDataBuf[fd[t]] = Owed(t) /\ spc[t] = "recv"
      /\ toClient[fd[t]] = <<>> /\ toServer[fd[t]] = <<>>
  BY <1>1, <1>2, ValueAssumption DEF Searching, Streams, Here, Lost
<1>4. AnswerTo(Owed(t)) \in Answers
  BY <1>2, OwedType DEF Asked
<1>5. /\ Header("CLIENT_PUZZLE_SOLUTION") \in ClientUnits
      /\ Payload(AnswerTo(Owed(t))) \in ClientUnits
  BY <1>4, ClientUnitsType DEF ClientMessages
<1>6. units(Owed(t)) \in Seq(ClientUnits) /\ ClientSends(fd[t], units(Owed(t)))
  BY <1>3, <1>5 DEF SendSolution
<1>7. /\ toServer'[fd[t]] = units(Owed(t))
      /\ UNCHANGED <<fd, spc, issued, authenticated, retry, sDataBuf, given, verdicts>>
  BY <1>3, <1>6, MessageArrives
<1>8. Judging(t)'
  BY <1>1, <1>3, <1>7 DEF Judging, Here, Peer, Streams, Solution, Owed
<1> QED
  BY <1>1, <1>2, <1>7, <1>8, BooksKept DEF InTurn, Asked, Buffers, Peer

LEMMA TakeEndTurn ==
    ASSUME TypeOK, NEW t \in Threads, HasPeer(t), InTurn(t), NEW us, TakeEnd(fd[t], us)
    PROVE  InTurn(t)'
<1>1. Failed(t) /\ Still(t)
  BY ClientHears DEF TakeEnd
<1>2. UNCHANGED <<fd, spc, issued, authenticated, retry, sDataBuf, given, verdicts, toServer>>
  BY DEF TakeEnd, socketVars, threadVars, bookVars
<1>3. cpc'[fd[t]] = "ended"
  BY DEF TakeEnd, TypeOK, HasPeer
<1>4. Failed(t)'
  BY <1>1, <1>2, <1>3 DEF Failed, Peer, Streams, Still
<1> QED
  BY <1>2, <1>3, <1>4, BooksKept DEF InTurn, Buffers, Peer

LEMMA ConnectTurn ==
    ASSUME TypeOK, NEW t \in Threads, HasPeer(t), InTurn(t), Connect(fd[t])
    PROVE  InTurn(t)'
<1>1. /\ fd[t] \in Clients /\ Peer(t) = "start" /\ cpc'[fd[t]] = "recv"
      /\ UNCHANGED <<cDataBuf, toClient>>
  BY DEF Connect, HasPeer, TypeOK, Peer
<1>2. NotAsked(t) /\ Streams(t, <<>>, <<>>)
  BY <1>1 DEF InTurn, NotAsked, Passed, Failed, Asked, Searching, Judging, Here, Lost
<1>3. /\ ClientSends(fd[t], <<Header("CLIENT_HELLO")>>)
      /\ <<Header("CLIENT_HELLO")>> \in Seq(ClientUnits)
  BY HeaderSent DEF Connect, ClientMessages
<1>4. /\ toServer'[fd[t]] = <<Header("CLIENT_HELLO")>>
      /\ UNCHANGED <<fd, spc, issued, authenticated, retry, sDataBuf, given, verdicts>>
  BY <1>2, <1>3, MessageArrives DEF Streams
<1>5. NotAsked(t)'
  BY <1>1, <1>2, <1>4 DEF NotAsked, Here, Peer, Streams
<1> QED
  BY <1>1, <1>4, <1>5, BooksKept DEF InTurn, Buffers, Peer

LEMMA ConnectionFailedTurn ==
    ASSUME TypeOK, NEW t \in Threads, HasPeer(t), InTurn(t), ConnectionFailed(fd[t])
    PROVE  InTurn(t)'
<1>1. /\ fd[t] \in Clients /\ Peer(t) = "start" /\ cpc'[fd[t]] = "refused"
      /\ UNCHANGED <<fd, spc, issued, authenticated, retry, sDataBuf, given, verdicts,
                     cDataBuf, toServer, toClient>>
  BY DEF ConnectionFailed, HasPeer, TypeOK, Peer, socketVars, threadVars, bookVars, netVars
<1>2. NotAsked(t) /\ Streams(t, <<>>, <<>>)
  BY <1>1 DEF InTurn, NotAsked, Passed, Failed, Asked, Searching, Judging, Here, Lost
<1>3. NotAsked(t)'
  BY <1>1, <1>2 DEF NotAsked, Peer, Streams
<1> QED
  BY <1>1, <1>3, BooksKept DEF InTurn, Buffers, Peer

(* Bytes to the server that are no single message are an answer.             *)
LEMMA OnlyTheAnswer ==
    ASSUME NEW t \in Threads, InTurn(t), toServer[fd[t]] # <<>>,
           \A m \in ClientMessages : toServer[fd[t]] # <<Header(m)>>
    PROVE  Asked(t) /\ Judging(t)
<1> DEFINE up == toServer[fd[t]]
<1>1. {"CLIENT_HELLO", "ACK_HELLO", "GET_RESOURCE", "END_SESSION"} \subseteq ClientMessages
  BY DEF ClientMessages
<1>2. \A m \in {"CLIENT_HELLO", "ACK_HELLO", "GET_RESOURCE", "END_SESSION"} : up # <<Header(m)>>
  BY <1>1
<1>3. up # <<>>
  OBVIOUS
<1> HIDE DEF up
<1>4. ~ NotAsked(t)
  BY <1>2, <1>3 DEF NotAsked, Streams, up
<1>5. ~ Passed(t)
  BY <1>2, <1>3 DEF Passed, Streams, up
<1>6. ~ Failed(t) /\ ~ Searching(t)
  BY <1>3 DEF Failed, Searching, Streams, up
<1> QED
  BY <1>4, <1>5, <1>6 DEF InTurn, Asked

(* A client that is lost leaves its session where it was, but for the answer *)
(* it may have been in the middle of.                                        *)
LEMMA LostTurn ==
    ASSUME NEW t \in Threads, HasPeer(t), InTurn(t),
           Peer(t) \in {"recv", "recvData", "solve"}, cpc'[fd[t]] \in Lost,
           UNCHANGED <<fd, spc, issued, authenticated, retry, sDataBuf, given, verdicts,
                       cDataBuf, toClient>>,
           \/ toServer'[fd[t]] = toServer[fd[t]]
           \/ /\ toServer[fd[t]] = <<Header("CLIENT_PUZZLE_SOLUTION"), Solution(t)>>
              /\ toServer'[fd[t]] = <<Header("CLIENT_PUZZLE_SOLUTION")>>
           \/ toServer[fd[t]] = <<Solution(t)>> /\ toServer'[fd[t]] = <<>>
    PROVE  InTurn(t)'
<1>1. Books(t)' /\ Buffers(t)'
  BY BooksKept DEF InTurn, Buffers, Peer, Lost
<1>2. CASE toServer'[fd[t]] = toServer[fd[t]]
  <2>1. /\ NotAsked(t) => NotAsked(t)'
        /\ Passed(t) => Passed(t)'
        /\ Failed(t) => Failed(t)'
    BY <1>2 DEF NotAsked, Passed, Failed, Here, Peer, Streams, Lost
  <2>2. Searching(t) => Searching(t)'
    BY <1>2 DEF Searching, Here, Peer, Streams, Lost, Owed
  <2>3. Judging(t) => Judging(t)'
    BY <1>2 DEF Judging, Here, Peer, Streams, Lost, Owed, Solution
  <2> QED
    BY <1>1, <2>1, <2>2, <2>3 DEF InTurn, Asked
<1>3. ASSUME toServer'[fd[t]] # toServer[fd[t]]
      PROVE  InTurn(t)'
  <2> DEFINE sol == Header("CLIENT_PUZZLE_SOLUTION")
  <2>1. sol # Solution(t) /\ \A m \in ClientMessages : Header(m) # Solution(t)
    BY DEF Header, Payload, Solution, ClientMessages, NoMsg
  <2>2. /\ \A u, v, w : <<u, v>> # <<w>> /\ <<u, v>> # <<>> /\ <<w>> # <<>>
        /\ \A u, v : <<u>> = <<v>> => u = v
    OBVIOUS
  <2>3. {"CLIENT_HELLO", "ACK_HELLO", "GET_RESOURCE", "END_SESSION",
         "CLIENT_PUZZLE_SOLUTION"} \subseteq ClientMessages
    BY DEF ClientMessages
  <2> HIDE DEF sol
  <2>4. \/ toServer[fd[t]] = <<sol, Solution(t)>> /\ toServer'[fd[t]] = <<sol>>
        \/ toServer[fd[t]] = <<Solution(t)>> /\ toServer'[fd[t]] = <<>>
    BY <1>3 DEF sol
  <2>5. toServer[fd[t]] # <<>> /\ \A m \in ClientMessages : toServer[fd[t]] # <<Header(m)>>
    BY <2>1, <2>2, <2>4
  <2>6. Judging(t) /\ Asked(t)
    BY <2>5, OnlyTheAnswer
  <2>7. Judging(t)'
    BY <2>1, <2>2, <2>3, <2>4, <2>6 DEF Judging, Here, Peer, Streams, sol
  <2> QED
    BY <1>1, <2>6, <2>7 DEF InTurn, Asked
<1> QED
  BY <1>2, <1>3

LEMMA VanishTurn ==
    ASSUME TypeOK, NEW t \in Threads, HasPeer(t), InTurn(t), Vanish(fd[t])
    PROVE  InTurn(t)'
<1> DEFINE q == toServer[fd[t]]
<1>1. /\ fd[t] \in Clients /\ Peer(t) \in {"recv", "recvData", "solve"}
      /\ cpc'[fd[t]] = "killed"
      /\ UNCHANGED <<fd, spc, issued, authenticated, retry, sDataBuf, given, verdicts,
                     cDataBuf, toClient>>
  BY DEF Vanish, HasPeer, TypeOK, Peer, socketVars, threadVars, bookVars
<1>2. \/ toServer'[fd[t]] = q
      \/ /\ q # <<>> /\ q[Len(q)].msg = NoMsg
         /\ toServer'[fd[t]] = SubSeq(q, 1, Len(q) - 1)
  BY <1>1 DEF Vanish, TypeOK
<1>3. ASSUME toServer'[fd[t]] # q
      PROVE  \/ /\ q = <<Header("CLIENT_PUZZLE_SOLUTION"), Solution(t)>>
                /\ toServer'[fd[t]] = <<Header("CLIENT_PUZZLE_SOLUTION")>>
             \/ q = <<Solution(t)>> /\ toServer'[fd[t]] = <<>>
  <2>1. ASSUME NEW m \in ClientMessages, q = <<Header(m)>> PROVE FALSE
    <3>1. Len(<<Header(m)>>) = 1 /\ <<Header(m)>>[1] = Header(m)
      OBVIOUS
    <3>2. Header(m).msg # NoMsg
      BY DEF Header, ClientMessages, NoMsg
    <3> HIDE DEF q
    <3>3. q[Len(q)].msg = NoMsg
      BY <1>2, <1>3 DEF q
    <3>4. Len(q) = 1 /\ q[1] = Header(m)
      BY <2>1, <3>1
    <3> QED
      BY <3>2, <3>3, <3>4
  <2>2. "CLIENT_PUZZLE_SOLUTION" \in ClientMessages
    BY DEF ClientMessages
  <2>3. Judging(t) /\ q # <<>>
    BY <1>2, <1>3, <2>1, OnlyTheAnswer
  <2> HIDE DEF q
  <2>4. q # <<Header("CLIENT_PUZZLE_SOLUTION")>>
    BY <2>1, <2>2
  <2>5. \/ q = <<Header("CLIENT_PUZZLE_SOLUTION"), Solution(t)>>
        \/ q = <<Solution(t)>>
    BY <2>3, <2>4 DEF Judging, Streams, q
  <2>6. toServer'[fd[t]] = SubSeq(q, 1, Len(q) - 1)
    BY <1>2, <1>3
  <2>7. CASE q = <<Header("CLIENT_PUZZLE_SOLUTION"), Solution(t)>>
    <3>1. Len(q) - 1 = 1
      BY <2>7
    <3> QED
      BY <2>6, <2>7, <3>1, Pieces
  <2>8. CASE q = <<Solution(t)>>
    <3>1. Len(q) - 1 = 0
      BY <2>8
    <3> QED
      BY <2>6, <2>8, <3>1, SubSeqEmpty
  <2> QED
    BY <2>5, <2>7, <2>8
<1>4. cpc'[fd[t]] \in Lost
  BY <1>1 DEF Lost
<1> QED
  BY <1>1, <1>3, <1>4, LostTurn

LEMMA AbortTurn ==
    ASSUME TypeOK, NEW t \in Threads, HasPeer(t), InTurn(t),
           ClientFailsToParse(fd[t]) \/ LoseServer(fd[t])
    PROVE  InTurn(t)'
<1>1. /\ fd[t] \in Clients /\ Peer(t) \in {"recv", "recvData", "solve"}
      /\ cpc'[fd[t]] = "aborted"
      /\ UNCHANGED <<fd, spc, issued, authenticated, retry, sDataBuf, given, verdicts,
                     cDataBuf, toClient, toServer>>
  BY DEF ClientFailsToParse, LoseServer, HasPeer, TypeOK, Peer, socketVars, threadVars,
         bookVars, netVars
<1>2. cpc'[fd[t]] \in Lost
  BY <1>1 DEF Lost
<1> QED
  BY <1>1, <1>2, LostTurn

LEMMA ClientTurn ==
    ASSUME TypeOK, NEW t \in Threads, HasPeer(t), InTurn(t),
           ClientStep(fd[t]) \/ Vanish(fd[t])
    PROVE  InTurn(t)'
<1>1. fd[t] \in Clients
  BY DEF HasPeer
<1>2. ASSUME NEW us PROVE ~ ClientIgnores(fd[t], us)
  BY ClientHears DEF ClientIgnores, Garbled
<1> QED
  BY <1>1, <1>2, ClientStepKinds, ClientAnswersTurn, TakeResourceTurn, TakePuzzleTurn,
     ReadPuzzleDataTurn, SendSolutionTurn, TakeEndTurn, ConnectTurn, ConnectionFailedTurn,
     VanishTurn, AbortTurn DEF Listening

-----------------------------------------------------------------------------
(* The bucket: an answer that is still accepted is still owed.               *)
LEMMA OthersOwe ==
    ASSUME BucketOutstanding, NEW t \in Threads, Elsewhere(t),
           NEW p \in bucket, Solvable(p), ~ Outstanding(t, p)
    PROVE  \E s \in Threads : Outstanding(s, p)'
<1>1. PICK s \in Threads : Outstanding(s, p)
  BY DEF BucketOutstanding
<1>2. s \in Threads \ {t}
  BY <1>1
<1>3. given'[s] = given[s] /\ verdicts'[s] = verdicts[s]
  BY <1>2 DEF Elsewhere
<1> QED
  BY <1>1, <1>3 DEF Outstanding

LEMMA NewPuzzleIsOwed ==
    ASSUME NEW t \in Threads, NEW p, Len(given'[t]) = Len(verdicts'[t]) + 1, Owed(t)' = p
    PROVE  Outstanding(t, p)'
BY DEF Outstanding, Owed

LEMMA BucketIssue ==
    ASSUME TypeOK, BucketOutstanding, NEW t \in Threads, HasPeer(t), InTurn(t),
           NEW us, IssuePuzzle(t, us)
    PROVE  BucketOutstanding'
<1>1. NotAsked(t) /\ Quiet(t)
  BY ServerHears DEF IssuePuzzle
<1>2. PICK p \in Puzzles : HandOut(t, "CLIENT_PUZZLE", p, bucket)
  BY DEF IssuePuzzle
<1>3. Len(given'[t]) = Len(given[t]) + 1 /\ Owed(t)' = p
  BY <1>1, <1>2, PuzzleArrives DEF Quiet
<1>4. Len(given[t]) = 0 /\ Len(verdicts[t]) = 0 /\ verdicts' = verdicts
  BY <1>1 DEF NotAsked, IssuePuzzle
<1>5. Outstanding(t, p)'
  BY <1>3, <1>4, NewPuzzleIsOwed
<1>6. bucket' \subseteq bucket \cup {p}
  BY <1>2 DEF HandOut
<1>7. \A q : ~ Outstanding(t, q)
  BY <1>4 DEF Outstanding
<1>8. Elsewhere(t)
  BY ReadingIsOwn DEF Reading
<1>9. ASSUME NEW q \in bucket', Solvable(q) PROVE \E s \in Threads : Outstanding(s, q)'
  BY <1>5, <1>6, <1>7, <1>8, <1>9, OthersOwe
<1> QED
  BY <1>9 DEF BucketOutstanding, Solvable

(* The answer to the puzzle a session owes is taken out with the verdict.    *)
LEMMA BucketJudgement ==
    ASSUME TypeOK, BucketOutstanding, NEW t \in Threads, HasPeer(t), InTurn(t),
           NEW d \in Answers, Judgement(t, d)
    PROVE  BucketOutstanding'
<1>1. PICK ok \in BOOLEAN : Judges(t, d, ok)
  BY DEF Judgement, AcceptAnswer, AskAgain, GiveUp
<1>2. /\ d = AnswerTo(Owed(t)) /\ toClient[fd[t]] = <<>>
      /\ Len(verdicts'[t]) = retry[t] + 1 /\ Len(given[t]) = retry[t] + 1
  BY <1>1, Judged
<1>3. Elsewhere(t)
  BY JudgementIsOwn
<1>4. ASSUME NEW q \in LeftAfter(d), Solvable(q)
      PROVE  \E s \in Threads : Outstanding(s, q)'
  <2>1. q \in bucket /\ q # d
    BY DEF LeftAfter
  <2>2. ~ Outstanding(t, q)
    BY <1>2, <1>4, <2>1 DEF Outstanding, Owed, AnswerTo
  <2> QED
    BY <1>3, <1>4, <2>1, <2>2, OthersOwe
<1>5. ASSUME NEW q \in bucket', q \notin LeftAfter(d)
      PROVE  Outstanding(t, q)'
  <2>1. AskAgain(t, d)
    BY <1>5 DEF Judgement, AcceptAnswer, GiveUp
  <2>2. PICK p \in Puzzles : HandOut(t, "CLIENT_PUZZLE_RETRY", p, LeftAfter(d))
    BY <2>1 DEF AskAgain
  <2>3. q = p
    BY <1>5, <2>2 DEF HandOut
  <2>4. Len(given'[t]) = Len(given[t]) + 1 /\ Owed(t)' = p
    BY <1>2, <2>2, PuzzleArrives
  <2>5. retry[t] \in Nat
    BY DEF TypeOK
  <2>6. Len(given'[t]) = Len(verdicts'[t]) + 1
    BY <1>2, <2>4, <2>5
  <2> QED
    BY <2>3, <2>4, <2>6, NewPuzzleIsOwed
<1> QED
  BY <1>4, <1>5 DEF BucketOutstanding, Solvable

LEMMA BucketKept ==
    ASSUME TypeOK, Connected, BucketOutstanding, \A t \in Threads : InTurn(t), [Next]_vars
    PROVE  BucketOutstanding'
<1>1. ASSUME UNCHANGED bookVars PROVE BucketOutstanding'
  BY <1>1 DEF bookVars, BucketOutstanding, Outstanding, Solvable
<1>2. ASSUME NEW t \in Threads, NEW us, Reading(t, us)
      PROVE  BucketOutstanding'
  <2>1. CASE IssuePuzzle(t, us)
    BY <2>1, BucketIssue DEF Connected, HasPeer
  <2>2. CASE ~ IssuePuzzle(t, us)
    <3>1. UNCHANGED bookVars
      BY <1>2, <2>2 DEF Reading, RejectBytes, AnswerHello, TakeSolution, RefuseSolution,
           ReadSolutionData, SendResource, HelloAgain, CloseThread, IgnoreText
    <3> QED
      BY <1>1, <3>1
  <2> QED
    BY <2>1, <2>2
<1>3. ASSUME NEW t \in Threads, ServerStep(t)
      PROVE  BucketOutstanding'
  <2>1. HasPeer(t)
    BY DEF Connected, HasPeer
  <2> QED
    BY <1>1, <1>2, <1>3, <2>1, ServerStepKinds, BucketJudgement
<1>4. ASSUME NEW c \in Clients, ClientStep(c) \/ Vanish(c)
      PROVE  BucketOutstanding'
  BY <1>1, <1>4, ClientStepIsOwn
<1> QED
  BY <1>1, <1>3, <1>4 DEF Next, vars

-----------------------------------------------------------------------------
(* The handshake, kept by every step.                                        *)
LEMMA UnansweredKept ==
    ASSUME TypeOK, Connected, \A c \in Clients : Unanswered(c),
           NEW b \in Clients, ClientStep(b) \/ Vanish(b)
    PROVE  \A c \in Clients : Unanswered(c)'
<1> SUFFICES ASSUME NEW c \in Clients, \A t \in Threads : fd'[t] # c
             PROVE  toClient'[c] = <<>>
  BY DEF Unanswered
<1>1. fd' = fd
  BY ClientStepIsOwn
<1>2. toClient[c] = <<>>
  BY <1>1 DEF Unanswered
<1>3. CASE c # b
  BY <1>2, <1>3, ClientStepIsOwn
<1>4. CASE c = b
  <2>1. Chunks(toClient[b]) = {}
    BY <1>2, <1>4, ChunkOfNone
  <2>2. \A us : ~ Listening(b, us)
    BY <2>1 DEF Listening, ClientAnswers, TakeResource, TakePuzzle, ReadPuzzleData, TakeEnd,
         ClientIgnores, ClientReads
  <2>3. toClient' = toClient
    BY <2>2, ClientStepKinds DEF Connect, ConnectionFailed, SendSolution, ClientFailsToParse,
         LoseServer, Vanish, netVars
  <2> QED
    BY <1>2, <2>3
<1> QED
  BY <1>3, <1>4

LEMMA HandshakeNext == Handshake /\ [Next]_vars => Handshake'
<1> SUFFICES ASSUME Handshake, [Next]_vars PROVE Handshake'
  OBVIOUS
<1>1. /\ TypeOK /\ Connected /\ (\A t \in Threads : InTurn(t))
      /\ (\A c \in Clients : Unanswered(c)) /\ BucketOutstanding
  BY DEF Handshake
<1>2. TypeOK' /\ BucketOutstanding'
  BY <1>1, NextTypeOK, BucketKept
<1>3. ASSUME UNCHANGED vars
      PROVE  Connected' /\ (\A t \in Threads : InTurn(t)') /\ (\A c \in Clients : Unanswered(c)')
  <2>1. Connected' /\ (\A c \in Clients : Unanswered(c)')
    BY <1>1, <1>3 DEF Connected, Unanswered, vars, socketVars, netVars
  <2>2. \A t \in Threads : View(t)' = View(t)
    BY <1>3 DEF View, vars, socketVars, threadVars, clientVars, netVars, bookVars
  <2> QED
    BY <1>1, <2>1, <2>2, UntouchedKeeps
<1>4. ASSUME NEW t \in Threads, ServerStep(t)
      PROVE  Connected' /\ (\A s \in Threads : InTurn(s)') /\ (\A c \in Clients : Unanswered(c)')
  <2>1. \A s \in Threads : HasPeer(s) /\ (s # t => fd[s] # fd[t])
    BY <1>1 DEF Connected, HasPeer
  <2>2. /\ InTurn(t)' /\ fd' = fd
        /\ \A s \in Threads \ {t} : HasPeer(s) /\ fd[s] # fd[t] /\ InTurn(s) => InTurn(s)'
        /\ \A c \in Clients \ {fd[t]} : toClient'[c] = toClient[c]
    BY <1>1, <1>4, <2>1, ServerTurn
  <2>3. Connected' /\ (\A c \in Clients : Unanswered(c)')
    BY <1>1, <2>2 DEF Connected, Unanswered
  <2> QED
    BY <1>1, <2>1, <2>2, <2>3
<1>5. ASSUME NEW c \in Clients, ClientStep(c) \/ Vanish(c)
      PROVE  Connected' /\ (\A t \in Threads : InTurn(t)') /\ (\A b \in Clients : Unanswered(b)')
  <2>1. fd' = fd
    BY <1>1, <1>5, ClientStepIsOwn
  <2>2. Connected'
    BY <1>1, <2>1 DEF Connected
  <2>3. \A b \in Clients : Unanswered(b)'
    BY <1>1, <1>5, UnansweredKept
  <2>4. \A t \in Threads : InTurn(t)'
    <3>1. \A t \in Threads : HasPeer(t)
      BY <1>1 DEF Connected, HasPeer
    <3> QED
      BY <1>1, <1>5, <3>1, ClientTurn, ClientStepKeeps
  <2> QED
    BY <2>2, <2>3, <2>4
<1> QED
  BY <1>2, <1>3, <1>4, <1>5 DEF Handshake, Next

(* Every session is in turn at all times.                                    *)
THEOREM SessionsInTurn == Spec => []Handshake
BY HandshakeInit, HandshakeNext, PTL DEF Spec

(* TurnTaking: bytes never travel both ways on a connection, since each loop *)
(* sends only what answers the message it has just received.                 *)
THEOREM EndsTakeTurns == Spec => []TurnTaking
<1>1. Handshake => TurnTaking
  <2> SUFFICES ASSUME Handshake, NEW c \in Clients
               PROVE  toServer[c] = <<>> \/ toClient[c] = <<>>
    BY DEF TurnTaking
  <2>1. CASE \E t \in Threads : fd[t] = c
    <3>1. PICK t \in Threads : fd[t] = c
      BY <2>1
    <3>2. InTurn(t)
      BY DEF Handshake
    <3> QED
      BY <3>1, <3>2 DEF InTurn, NotAsked, Asked, Searching, Judging, Passed, Failed, Streams
  <2>2. CASE \A t \in Threads : fd[t] # c
    BY <2>2 DEF Handshake, Unanswered
  <2> QED
    BY <2>1, <2>2
<1> QED
  BY <1>1, SessionsInTurn, PTL

(* NoStandoff: while both ends of a connection sit in a recv(), bytes are on *)
(* their way to one of them, so neither waits for what will not be sent.     *)
THEOREM NobodyWaitsInVain == Spec => []NoStandoff
<1>1. Handshake => NoStandoff
  <2> SUFFICES ASSUME Handshake, NEW t \in Threads, spc[t] \in {"recv", "recvData"},
                      Peer(t) \in {"recv", "recvData"}
               PROVE  toServer[fd[t]] # <<>> \/ toClient[fd[t]] # <<>>
    BY DEF NoStandoff, Peer
  <2> DEFINE up == toServer[fd[t]]
             down == toClient[fd[t]]
  <2>1. InTurn(t) /\ Peer(t) \notin Lost
    BY DEF Handshake, Lost
  <2>2. \A u, v : <<u>> # <<>> /\ <<u, v>> # <<>>
    OBVIOUS
  <2> HIDE DEF up, down
  <2>3. CASE NotAsked(t)
    <3>1. (\E m : up = <<Header(m)>>) \/ down = <<Header("SERVER_HELLO")>>
      BY <2>3 DEF NotAsked, Streams, up, down
    <3> QED
      BY <2>2, <3>1 DEF up, down
  <2>4. CASE Asked(t)
    <3>1. CASE Searching(t)
      <4>1. \E u, v : down = <<u>> \/ down = <<u, v>>
        BY <2>1, <3>1 DEF Searching, Streams, down
      <4> QED
        BY <2>2, <4>1 DEF down
    <3>2. CASE Judging(t)
      <4>1. \E u, v : up = <<u>> \/ up = <<u, v>>
        BY <2>1, <3>2 DEF Judging, Streams, up
      <4> QED
        BY <2>2, <4>1 DEF up
    <3> QED
      BY <2>4, <3>1, <3>2 DEF Asked
  <2>5. CASE Passed(t)
    <3>1. \E u : up = <<u>> \/ down = <<u>>
      BY <2>5 DEF Passed, Streams, up, down
    <3> QED
      BY <2>2, <3>1 DEF up, down
  <2>6. CASE Failed(t)
    <3>1. \E u : down = <<u>>
      BY <2>6 DEF Failed, Streams, down
    <3> QED
      BY <2>2, <3>1 DEF down
  <2> QED
    BY <2>1, <2>3, <2>4, <2>5, <2>6 DEF InTurn, up, down
<1> QED
  BY <1>1, SessionsInTurn, PTL

(* What the four kinds of session have in common in their counts.            *)
LEMMA Counts ==
    ASSUME TypeOK, NEW t \in Threads, InTurn(t)
    PROVE  /\ Len(verdicts[t]) \in Nat
           /\ Len(verdicts[t]) <= Len(given[t]) /\ Len(given[t]) <= MAX_RETRY + 1
           /\ spc[t] = "done" /\ ~ authenticated[t]
                <=> ~ authenticated[t] /\ Len(verdicts[t]) = MAX_RETRY + 1
<1>1. retry[t] \in 0 .. MAX_RETRY /\ MAX_RETRY \in Nat
  BY ParameterAssumption DEF TypeOK
<1>2. Len(verdicts[t]) = retry[t] + (IF authenticated[t] \/ spc[t] = "done" THEN 1 ELSE 0)
  BY DEF InTurn, Books
<1>3. CASE NotAsked(t)
  <2>1. Len(given[t]) = 0 /\ Len(verdicts[t]) = 0 /\ spc[t] = "recv"
    BY <1>3 DEF NotAsked
  <2> QED
    BY <1>1, <2>1
<1>4. CASE Asked(t)
  <2>1. spc[t] # "done" /\ ~ authenticated[t] /\ Len(given[t]) = Len(verdicts[t]) + 1
    BY <1>4 DEF Asked, Searching, Judging
  <2> QED
    BY <1>1, <1>2, <2>1
<1>5. CASE Passed(t)
  <2>1. authenticated[t] /\ Len(given[t]) = Len(verdicts[t])
    BY <1>5 DEF Passed
  <2> QED
    BY <1>1, <1>2, <2>1
<1>6. CASE Failed(t)
  <2>1. spc[t] = "done" /\ retry[t] = MAX_RETRY /\ Len(given[t]) = Len(verdicts[t])
    BY <1>6 DEF Failed
  <2> QED
    BY <1>1, <1>2, <2>1
<1> QED
  BY <1>3, <1>4, <1>5, <1>6 DEF InTurn

(* AnswerMatchesPuzzle: the i-th verdict of a thread is about the i-th       *)
(* puzzle it sent, so no answer is ever judged against another puzzle.       *)
THEOREM AnswersMatch == Spec => []AnswerMatchesPuzzle
<1>1. Handshake => AnswerMatchesPuzzle
  <2> SUFFICES ASSUME Handshake, NEW t \in Threads
               PROVE  /\ Len(verdicts[t]) <= Len(given[t])
                      /\ \A i \in DOMAIN verdicts[t] :
                            verdicts[t][i].answer \in {given[t][i], Wrong}
    BY DEF AnswerMatchesPuzzle
  <2>1. TypeOK /\ InTurn(t)
    BY DEF Handshake
  <2>2. DOMAIN verdicts[t] = 1 .. Len(verdicts[t])
    BY <2>1, LenProperties DEF TypeOK
  <2> QED
    BY <2>1, <2>2, Counts DEF InTurn, Books
<1> QED
  BY <1>1, SessionsInTurn, PTL

(* RetryLimit: the thread ends a session exactly when the answer to its last *)
(* allowed retry was wrong too, and sends no puzzle beyond that one.         *)
THEOREM RetriesAreLimited == Spec => []RetryLimit
<1>1. Handshake => RetryLimit
  <2> SUFFICES ASSUME Handshake, NEW t \in Threads
               PROVE  /\ Len(given[t]) <= MAX_RETRY + 1
                      /\ Rejections(t) = MAX_RETRY + 1 <=> (spc[t] = "done" /\ ~ authenticated[t])
    BY DEF RetryLimit
  <2> DEFINE n == Len(verdicts[t])
             wrong == { i \in DOMAIN verdicts[t] : ~ verdicts[t][i].ok }
  <2>1. TypeOK /\ InTurn(t)
    BY DEF Handshake
  <2>2. DOMAIN verdicts[t] = 1 .. n /\ n \in Nat
    BY <2>1, LenProperties DEF TypeOK
  <2>3. \A i \in 1 .. n : verdicts[t][i].ok <=> authenticated[t] /\ i = n
    BY <2>1 DEF InTurn, Books
  <2>4. /\ n <= Len(given[t]) /\ Len(given[t]) <= MAX_RETRY + 1
        /\ spc[t] = "done" /\ ~ authenticated[t] <=> ~ authenticated[t] /\ n = MAX_RETRY + 1
    BY <2>1, Counts
  <2>5. Rejections(t) = Cardinality(wrong)
    BY DEF Rejections
  <2>6. Len(given[t]) \in Nat /\ MAX_RETRY \in Nat
    BY <2>1, LenProperties, ParameterAssumption DEF TypeOK
  <2>7. CASE ~ authenticated[t]
    <3>1. wrong = 1 .. n
      BY <2>2, <2>3, <2>7
    <3>2. n \in Nat
      BY <2>2
    <3> HIDE DEF n, wrong
    <3>3. Cardinality(wrong) = n
      BY <3>1, <3>2, FS_Interval
    <3> QED
      BY <2>4, <2>5, <2>7, <3>3
  <2>8. CASE authenticated[t]
    <3>1. wrong = { i \in 1 .. n : i # n }
      BY <2>2, <2>3, <2>8
    <3>2. n \in Nat \ {0}
      <4>1. n = retry[t] + 1 /\ retry[t] \in Nat
        BY <2>1, <2>8 DEF InTurn, Books, TypeOK
      <4> QED
        BY <4>1
    <3> HIDE DEF n, wrong
    <3>3. wrong = 1 .. (n - 1)
      BY <3>1, <3>2
    <3>4. Cardinality(wrong) = n - 1
      BY <3>2, <3>3, FS_Interval
    <3>5. n - 1 # MAX_RETRY + 1
      <4>1. n <= Len(given[t]) /\ Len(given[t]) <= MAX_RETRY + 1
        BY <2>4
      <4> QED
        BY <2>6, <3>2, <4>1
    <3>6. Len(given[t]) <= MAX_RETRY + 1 /\ Rejections(t) # MAX_RETRY + 1
      BY <2>4, <2>5, <3>4, <3>5
    <3> QED
      BY <2>8, <3>6
  <2> QED
    BY <2>4, <2>7, <2>8
<1> QED
  BY <1>1, SessionsInTurn, PTL

(* BucketOutstanding: a puzzle a client can solve leaves the bucket with the *)
(* verdict on its answer, so no answer is good for a second use.             *)
THEOREM AnswersAreOneTime == Spec => []BucketOutstanding
<1>1. Handshake => BucketOutstanding
  BY DEF Handshake
<1> QED
  BY <1>1, SessionsInTurn, PTL

-----------------------------------------------------------------------------
(* The sessions implement the gate.  Five steps of a thread and one of a     *)
(* client move a session; each is the step of the gate named beside it.      *)
StageOf == [t \in Threads |-> Stage(t)]
Holders == { t \in Threads : cpc[fd[t]] = "served" }

LEMMA GateInitially == Init => Gate!GateInit
BY DEF Init, Gate!GateInit, Stage

LEMMA StageMoves ==
    ASSUME NEW t \in Threads, Elsewhere(t)
    PROVE  StageOf' = [StageOf EXCEPT ![t] = Stage(t)'] /\ Holders' = Holders
<1>1. \A s \in Threads \ {t} : Stage(s)' = Stage(s)
  BY DEF Elsewhere, Stage
<1>2. StageOf' = [StageOf EXCEPT ![t] = Stage(t)']
  BY <1>1 DEF StageOf
<1> QED
  BY <1>2 DEF Elsewhere, clientVars, Holders

LEMMA StageStays ==
    ASSUME NEW t \in Threads, Elsewhere(t), retry' = retry, Stage(t)' = Stage(t)
    PROVE  UNCHANGED Gate!gateVars
<1>1. StageOf' = StageOf /\ Holders' = Holders
  BY StageMoves DEF StageOf
<1> QED
  BY <1>1 DEF Gate!gateVars, StageOf, Holders

(* IssuePuzzle is Challenge, CloseThread is Leave; the other messages move   *)
(* no session.                                                               *)
LEMMA GateReading ==
    ASSUME TypeOK, NEW t \in Threads, HasPeer(t), InTurn(t), NEW us, Reading(t, us)
    PROVE  Gate!GateNext \/ UNCHANGED Gate!gateVars
<1>1. Elsewhere(t) /\ retry' = retry /\ authenticated' = authenticated
  BY ReadingIsOwn DEF Reading, RejectBytes, AnswerHello, IssuePuzzle, TakeSolution,
     RefuseSolution, ReadSolutionData, SendResource, HelloAgain, CloseThread, IgnoreText,
     threadVars
<1>2. CASE IssuePuzzle(t, us)
  <2>1. NotAsked(t)
    BY <1>2, ServerHears DEF IssuePuzzle
  <2>2. issued'[t] /\ spc' = spc
    BY <1>2 DEF IssuePuzzle, TypeOK
  <2>3. Stage(t) = "asking" /\ Stage(t)' = "challenged"
    BY <1>1, <2>1, <2>2 DEF NotAsked, Stage
  <2>4. Gate!Challenge(t)
    BY <1>1, <2>3, StageMoves DEF Gate!Challenge, StageOf, Holders
  <2> QED
    BY <2>4 DEF Gate!GateNext
<1>3. CASE CloseThread(t, us)
  <2>1. Passed(t) /\ Peer(t) = "served" /\ spc[t] = "recv"
    BY <1>3, CloseThreadTurn, ServerHears DEF CloseThread, ServerReads
  <2>2. spc'[t] = "done"
    BY <1>3 DEF CloseThread, TypeOK
  <2>3. Stage(t) = "admitted" /\ Stage(t)' = "closed"
    BY <2>1, <2>2 DEF Passed, Stage
  <2>4. t \in Holders
    BY <2>1 DEF Holders, Peer
  <2>5. Gate!Leave(t)
    BY <1>1, <2>3, <2>4, StageMoves DEF Gate!Leave, StageOf, Holders
  <2> QED
    BY <2>5 DEF Gate!GateNext
<1>4. CASE ~ IssuePuzzle(t, us) /\ ~ CloseThread(t, us)
  <2>1. issued' = issued
    BY <1>4 DEF Reading, RejectBytes, AnswerHello, TakeSolution, RefuseSolution,
       ReadSolutionData, SendResource, HelloAgain, IgnoreText, threadVars
  <2>2. spc[t] # "done"
    BY <1>4 DEF Reading, RejectBytes, AnswerHello, TakeSolution, RefuseSolution,
       ReadSolutionData, SendResource, HelloAgain, IgnoreText, ServerReads
  <2>3. spc' = spc \/ \E x \in {"judge", "recvData"} : spc' = [spc EXCEPT ![t] = x]
    BY <1>4 DEF Reading, RejectBytes, AnswerHello, TakeSolution, RefuseSolution,
       ReadSolutionData, SendResource, HelloAgain, IgnoreText, threadVars, DataNext
  <2>4. spc'[t] # "done"
    BY <2>2, <2>3 DEF TypeOK
  <2>5. Stage(t)' = Stage(t)
    BY <1>1, <2>1, <2>2, <2>4 DEF Stage
  <2> QED
    BY <1>1, <2>5, StageStays
<1> QED
  BY <1>2, <1>3, <1>4

(* AcceptAnswer is Admit, AskAgain is ChallengeAgain, GiveUp is Refuse.      *)
LEMMA GateJudgement ==
    ASSUME TypeOK, NEW t \in Threads, HasPeer(t), InTurn(t),
           NEW d \in Answers, Judgement(t, d)
    PROVE  Gate!GateNext
<1>1. PICK ok \in BOOLEAN : Judges(t, d, ok)
  BY DEF Judgement, AcceptAnswer, AskAgain, GiveUp
<1>2. Elsewhere(t) /\ issued[t] /\ ~ authenticated[t] /\ spc[t] = "judge"
  BY <1>1, Judged, JudgementIsOwn DEF Asked, Judges
<1>3. Stage(t) = "challenged"
  BY <1>2 DEF Stage
<1>4. CASE AcceptAnswer(t, d)
  <2>1. spc'[t] = "recv" /\ authenticated'[t] /\ retry' = retry
    BY <1>4 DEF AcceptAnswer, TypeOK
  <2>2. Stage(t)' = "admitted"
    BY <2>1 DEF Stage
  <2>3. Gate!Admit(t)
    BY <1>2, <1>3, <2>1, <2>2, StageMoves DEF Gate!Admit, StageOf, Holders
  <2> QED
    BY <2>3 DEF Gate!GateNext
<1>5. CASE AskAgain(t, d)
  <2>1. /\ spc'[t] = "recv" /\ issued' = issued /\ authenticated' = authenticated
        /\ retry[t] < MAX_RETRY /\ retry' = [retry EXCEPT ![t] = @ + 1]
    BY <1>5 DEF AskAgain, RetryLeft, TypeOK
  <2>2. Stage(t)' = Stage(t)
    BY <1>2, <2>1 DEF Stage
  <2>3. StageOf' = StageOf /\ Holders' = Holders
    BY <1>2, <2>2, StageMoves DEF StageOf
  <2>4. Gate!ChallengeAgain(t)
    BY <1>3, <2>1, <2>3 DEF Gate!ChallengeAgain, StageOf, Holders
  <2> QED
    BY <2>4 DEF Gate!GateNext
<1>6. CASE GiveUp(t, d)
  <2>1. spc'[t] = "done" /\ retry' = retry
    BY <1>6 DEF GiveUp, TypeOK
  <2>2. retry[t] = MAX_RETRY
    BY <1>6, GiveUpTurn
  <2>3. Stage(t)' = "closed"
    BY <2>1 DEF Stage
  <2>4. Gate!Refuse(t)
    BY <1>2, <1>3, <2>1, <2>2, <2>3, StageMoves DEF Gate!Refuse, StageOf, Holders
  <2> QED
    BY <2>4 DEF Gate!GateNext
<1> QED
  BY <1>4, <1>5, <1>6 DEF Judgement

(* TakeResource is Grant, for the thread the client is connected to.         *)
LEMMA GateClient ==
    ASSUME TypeOK, Connected, \A t \in Threads : InTurn(t), \A b \in Clients : Unanswered(b),
           NEW c \in Clients, ClientStep(c) \/ Vanish(c)
    PROVE  Gate!GateNext \/ UNCHANGED Gate!gateVars
<1>1. /\ fd' = fd /\ retry' = retry /\ StageOf' = StageOf
      /\ \A b \in Clients \ {c} : cpc'[b] = cpc[b]
  BY ClientStepIsOwn DEF threadVars, StageOf, Stage
<1>2. \A t \in Threads : fd[t] \in Clients
  BY DEF Connected
<1>3. CASE \E us : TakeResource(c, us)
  <2>1. PICK us : TakeResource(c, us)
    BY <1>3
  <2>2. PICK t \in Threads : fd[t] = c
    <3>1. us \in Chunks(toClient[c])
      BY <2>1 DEF TakeResource, ClientReads
    <3> QED
      BY <3>1, ChunkOfNone DEF Unanswered
  <2>3. Passed(t) /\ spc[t] = "recv"
    BY <1>2, <2>1, <2>2, TakeResourceTurn DEF HasPeer
  <2>4. Stage(t) = "admitted"
    BY <2>3 DEF Passed, Stage
  <2>5. cpc'[c] = "served"
    BY <2>1 DEF TakeResource, TypeOK
  <2>6. Holders' = Holders \cup {t}
    BY <1>1, <1>2, <2>2, <2>5 DEF Holders, Connected
  <2>7. Gate!Grant(t)
    BY <1>1, <2>4, <2>6 DEF Gate!Grant, StageOf, Holders
  <2> QED
    BY <2>7 DEF Gate!GateNext
<1>4. CASE ~ \E us : TakeResource(c, us)
  <2>1. cpc[c] # "served" /\ cpc'[c] # "served"
    <3>1. CASE \E us : Listening(c, us)
      BY <1>4, <3>1 DEF Listening, ClientAnswers, TakePuzzle, ReadPuzzleData, TakeEnd,
         ClientIgnores, ClientReads, TypeOK
    <3>2. CASE ~ \E us : Listening(c, us)
      BY <3>2, ClientStepKinds DEF Connect, ConnectionFailed, SendSolution,
         ClientFailsToParse, LoseServer, Vanish, TypeOK
    <3> QED
      BY <3>1, <3>2
  <2>2. Holders' = Holders
    BY <1>1, <1>2, <2>1 DEF Holders
  <2> QED
    BY <1>1, <2>2 DEF Gate!gateVars, StageOf, Holders
<1> QED
  BY <1>3, <1>4

LEMMA GateStep == Handshake /\ [Next]_vars => [Gate!GateNext]_Gate!gateVars
<1> SUFFICES ASSUME Handshake, [Next]_vars
             PROVE  Gate!GateNext \/ UNCHANGED Gate!gateVars
  OBVIOUS
<1>1. /\ TypeOK /\ Connected /\ (\A t \in Threads : InTurn(t))
      /\ (\A c \in Clients : Unanswered(c))
  BY DEF Handshake
<1>2. ASSUME UNCHANGED <<fd, threadVars, clientVars>>
      PROVE  UNCHANGED Gate!gateVars
  <2>1. \A t \in Threads : Stage(t)' = Stage(t)
    BY <1>2 DEF Stage, threadVars
  <2> QED
    BY <1>2, <2>1 DEF Gate!gateVars, threadVars, clientVars
<1>3. ASSUME NEW t \in Threads, ServerStep(t)
      PROVE  Gate!GateNext \/ UNCHANGED Gate!gateVars
  <2>1. HasPeer(t)
    BY <1>1 DEF Connected, HasPeer
  <2> QED
    BY <1>1, <1>2, <1>3, <2>1, ServerStepKinds, GateReading, GateJudgement
<1>4. ASSUME NEW c \in Clients, ClientStep(c) \/ Vanish(c)
      PROVE  Gate!GateNext \/ UNCHANGED Gate!gateVars
  BY <1>1, <1>4, GateClient
<1> QED
  BY <1>2, <1>3, <1>4 DEF Next, vars, socketVars

(* ImplementsGate: whatever recv() returns and whoever is lost, a session    *)
(* only ever asks, is challenged, is admitted or refused, and is left, in    *)
(* the gate's order, and the resource reaches admitted clients only.         *)
THEOREM SessionsImplementGate == Spec => ImplementsGate
<1>1. Init => Gate!GateInit
  BY GateInitially
<1>2. Handshake /\ [Next]_vars => [Gate!GateNext]_Gate!gateVars
  BY GateStep
<1> QED
  BY <1>1, <1>2, SessionsInTurn, PTL DEF Spec, ImplementsGate, Gate!GateSpec

-----------------------------------------------------------------------------
(* Where every send arrives by itself and nobody is killed, no data part is  *)
(* ever collected with a header, so each side waits for the data it needs    *)
(* and parses it.                                                            *)
CalmThread(t) == ~ sHasData[t] /\ (spc[t] = "judge" => sDataBuf[t] # Unparsable)

CalmClient(c) ==
    /\ ~ cHasData[c] /\ (cpc[c] = "solve" => cDataBuf[c] # Unparsable)
    /\ cpc[c] \notin Lost \cup {"refused"}

Undisturbed ==
    /\ process = "up"
    /\ \A t \in Threads : CalmThread(t) /\ CalmClient(fd[t])

LEMMA SingleCarriesNothing ==
    ASSUME Arrival = "single", NEW S, NEW q \in Seq(S), NEW us \in Chunks(q)
    PROVE  ~ Carries(us)
<1>1. PICK n \in 1 .. Len(q) : us = SubSeq(q, 1, n) /\ n = 1
  BY DEF Chunks
<1>2. \A i \in 1 .. 1 : q[i] \in S
  BY <1>1, LenProperties, ElementOfSeq
<1>3. us \in Seq(S) /\ Len(us) = 1
  BY <1>1, <1>2, SubSeqProperties
<1>4. DOMAIN us = {1}
  BY <1>3, LenProperties
<1> QED
  BY <1>4 DEF Carries, PayloadAt

LEMMA SingleCollects ==
    ASSUME TypeOK, Arrival = "single"
    PROVE  /\ \A t \in Threads : \A at, us : ServerReads(t, at, us) => ~ Carries(us)
           /\ \A c \in Clients : \A at, us : ClientReads(c, at, us) => ~ Carries(us)
<1>1. ASSUME NEW t \in Threads, NEW at, NEW us, ServerReads(t, at, us) PROVE ~ Carries(us)
  <2>1. toServer[fd[t]] \in Seq(ClientUnits) /\ us \in Chunks(toServer[fd[t]])
    BY <1>1, ServerReadsType DEF ServerReads, TypeOK, ClientUnits
  <2> QED
    BY <2>1, SingleCarriesNothing
<1>2. ASSUME NEW c \in Clients, NEW at, NEW us, ClientReads(c, at, us) PROVE ~ Carries(us)
  <2>1. toClient[c] \in Seq(ServerUnits) /\ us \in Chunks(toClient[c])
    BY <1>2 DEF ClientReads, TypeOK, ServerUnits
  <2> QED
    BY <2>1, SingleCarriesNothing
<1> QED
  BY <1>1, <1>2

LEMMA CalmReading ==
    ASSUME TypeOK, Arrival = "single", NEW t \in Threads, HasPeer(t), InTurn(t), CalmThread(t),
           NEW us, Reading(t, us)
    PROVE  process' = process /\ sHasData' = sHasData /\ CalmThread(t)'
<1>1. ~ Carries(us)
  BY SingleCollects DEF Reading, RejectBytes, AnswerHello, IssuePuzzle, TakeSolution,
     RefuseSolution, ReadSolutionData, SendResource, HelloAgain, CloseThread, IgnoreText
<1>2. process' = process /\ sHasData' = sHasData
  BY <1>1 DEF Reading, RejectBytes, AnswerHello, IssuePuzzle, TakeSolution, RefuseSolution,
     ReadSolutionData, SendResource, HelloAgain, CloseThread, IgnoreText, ServerCollects,
     Reply, HandOut, socketVars, threadVars
<1>3. CASE ReadSolutionData(t, us)
  BY <1>2, <1>3, ReadSolutionDataTurn DEF CalmThread
<1>4. CASE TakeSolution(t, us)
  <2>1. spc'[t] = DataNext(sHasData[t])
    BY <1>2, <1>4 DEF TakeSolution, TypeOK
  <2> QED
    BY <1>2, <2>1 DEF DataNext, CalmThread
<1>5. CASE ~ ReadSolutionData(t, us) /\ ~ TakeSolution(t, us)
  <2>1. spc'[t] # "judge"
    BY <1>5 DEF Reading, RejectBytes, AnswerHello, IssuePuzzle, RefuseSolution, SendResource,
       HelloAgain, CloseThread, IgnoreText, ServerReads, threadVars, TypeOK
  <2> QED
    BY <1>2, <2>1 DEF CalmThread
<1> QED
  BY <1>2, <1>3, <1>4, <1>5

(* Neither an unparsable answer nor a peer that has gone stops the server.   *)
LEMMA CalmServer ==
    ASSUME TypeOK, Arrival = "single", NEW t \in Threads, HasPeer(t), InTurn(t),
           CalmThread(t), CalmClient(fd[t]), ServerStep(t)
    PROVE  /\ process' = process /\ Elsewhere(t)
           /\ \A s \in Threads : CalmThread(s) => CalmThread(s)'
<1>1. ~ FailToParse(t)
  BY DEF FailToParse, CalmThread
<1>2. ~ LosePeer(t)
  <2> SUFFICES ASSUME LosePeer(t) PROVE FALSE
    OBVIOUS
  <2>1. /\ fd[t] \in Clients /\ spc[t] \in {"recv", "recvData"} /\ Peer(t) \in {"served", "ended"}
        /\ toServer[fd[t]] = <<>> \/ toClient[fd[t]] # <<>>
    BY DEF LosePeer, HasPeer, Closed, CalmClient, Lost, Peer
  <2>2. Passed(t)
    BY <2>1 DEF InTurn, NotAsked, Asked, Searching, Judging, Failed, Here, Lost
  <2>3. Streams(t, <<Header("END_SESSION")>>, <<>>)
    BY <2>1, <2>2 DEF Passed, Here, Lost
  <2>4. toServer[fd[t]] = <<Header("END_SESSION")>> /\ toClient[fd[t]] = <<>>
    BY <2>3 DEF Streams
  <2>5. <<Header("END_SESSION")>> # <<>>
    OBVIOUS
  <2> QED
    BY <2>1, <2>4, <2>5, Zenon
<1>3. Elsewhere(t) /\ process' = process /\ sHasData' = sHasData /\ CalmThread(t)'
  <2>1. CASE \E us : Reading(t, us)
    BY <2>1, CalmReading, ReadingIsOwn
  <2>2. CASE \E d \in Answers : Judgement(t, d)
    <3>1. PICK d \in Answers : Judgement(t, d)
      BY <2>2
    <3>2. process' = process /\ sHasData' = sHasData /\ spc'[t] # "judge"
      BY <3>1 DEF Judgement, AcceptAnswer, AskAgain, GiveUp, Reply, HandOut, socketVars, TypeOK
    <3> QED
      BY <3>1, <3>2, JudgementIsOwn DEF CalmThread
  <2> QED
    BY <1>1, <1>2, <2>1, <2>2 DEF ServerStep, Reading, Judgement
<1>4. \A s \in Threads \ {t} : CalmThread(s) => CalmThread(s)'
  BY <1>3 DEF Elsewhere, CalmThread
<1> QED
  BY <1>3, <1>4

LEMMA CalmClientTurn ==
    ASSUME TypeOK, Arrival = "single", process = "up", NEW t \in Threads, HasPeer(t), InTurn(t),
           CalmClient(fd[t]), ClientStep(fd[t])
    PROVE  CalmClient(fd[t])'
<1> DEFINE c == fd[t]
<1> USE DEF ClientAnswers, TakeResource, TakePuzzle, ReadPuzzleData, TakeEnd, ClientIgnores
<1>1. c \in Clients /\ fd' = fd
  BY ClientStepIsOwn DEF HasPeer
<1>2. ~ ConnectionFailed(c) /\ ~ LoseServer(c) /\ ~ ClientFailsToParse(c)
  BY DEF ConnectionFailed, LoseServer, ClientFailsToParse, CalmClient
<1>3. CASE \E us : Listening(c, us)
  <2>1. PICK us : Listening(c, us)
    BY <1>3
  <2>2. ~ Carries(us)
    BY <1>1, <2>1, SingleCollects DEF Listening
  <2>3. cHasData' = cHasData
    BY <2>1, <2>2 DEF Listening, ClientCollects
  <2>4. cpc'[c] \notin Lost \cup {"refused"}
    BY <2>1 DEF Listening, Lost, ClientReads, TypeOK
  <2>5. cpc'[c] = "solve" => cDataBuf'[c] # Unparsable
    <3>1. CASE ReadPuzzleData(c, us)
      BY <3>1, ReadPuzzleDataTurn
    <3>2. CASE TakePuzzle(c, us)
      <4>1. ~ cHasData'[c]
        BY <2>3 DEF CalmClient
      <4>2. cpc'[c] = (IF cHasData'[c] THEN "solve" ELSE "recvData")
        BY <1>1, <3>2 DEF TypeOK
      <4> QED
        BY <4>1, <4>2
    <3>3. CASE ~ ReadPuzzleData(c, us) /\ ~ TakePuzzle(c, us)
      <4>1. cpc[c] = "recv" /\ (cpc' = cpc \/ cpc' = [cpc EXCEPT ![c] = "served"]
                               \/ cpc' = [cpc EXCEPT ![c] = "ended"])
        BY <2>1, <3>3 DEF Listening, ClientReads
      <4> QED
        BY <1>1, <4>1 DEF TypeOK
    <3> QED
      BY <3>1, <3>2, <3>3
  <2> QED
    BY <1>1, <2>3, <2>4, <2>5 DEF CalmClient
<1>4. CASE Connect(c) \/ SendSolution(c)
  <2>1. cHasData' = cHasData /\ cpc'[c] = "recv"
    BY <1>1, <1>4 DEF Connect, SendSolution, TypeOK
  <2> QED
    BY <1>1, <2>1 DEF CalmClient, Lost
<1> QED
  BY <1>1, <1>2, <1>3, <1>4, ClientStepKinds DEF ClientStep, Listening

LEMMA ClientSparesServer ==
    ASSUME TypeOK, NEW c \in Clients, ClientStep(c)
    PROVE  /\ process' = process
           /\ \A b \in Clients \ {c} : cHasData'[b] = cHasData[b]
<1> USE DEF ClientAnswers, TakeResource, TakePuzzle, ReadPuzzleData, TakeEnd, ClientIgnores,
         Connect, ConnectionFailed, SendSolution, ClientFailsToParse, LoseServer
<1>1. CASE \E us : Listening(c, us)
  <2>1. PICK us : Listening(c, us)
    BY <1>1
  <2>2. process' = process
    BY <2>1 DEF Listening, ClientSends, socketVars
  <2>3. cHasData' = cHasData \/ cHasData' = [cHasData EXCEPT ![c] = TRUE]
    BY <2>1 DEF Listening, ClientCollects
  <2> QED
    BY <2>2, <2>3 DEF TypeOK
<1>2. CASE ~ \E us : Listening(c, us)
  BY <1>2 DEF ClientStep, Listening, ClientSends, socketVars
<1> QED
  BY <1>1, <1>2

(* ServerSurvives: the server outlives every session, because each answer    *)
(* reaches its parser whole.  Without the first assumption it fails: that is *)
(* what the run SessionStaleData finds.                                      *)
THEOREM ServerStaysUp ==
    ASSUME Arrival = "single", MayVanish = {}
    PROVE  Spec => []ServerSurvives
<1>1. Init => Undisturbed
  BY DEF Init, Undisturbed, CalmThread, CalmClient, Lost
<1>2. Handshake /\ Undisturbed /\ [Next]_vars => Undisturbed'
  <2> SUFFICES ASSUME Handshake, Undisturbed, [Next]_vars PROVE Undisturbed'
    OBVIOUS
  <2>1. /\ TypeOK /\ (\A t \in Threads : HasPeer(t) /\ InTurn(t))
        /\ \A s, t \in Threads : fd[s] = fd[t] => s = t
    BY DEF Handshake, Connected, HasPeer
  <2>2. CASE UNCHANGED vars
    BY <2>2 DEF vars, socketVars, threadVars, clientVars, Undisturbed, CalmThread, CalmClient
  <2>3. ASSUME NEW t \in Threads, ServerStep(t) PROVE Undisturbed'
    <3>1. /\ process' = process /\ Elsewhere(t)
          /\ \A s \in Threads : CalmThread(s) => CalmThread(s)'
      BY <2>1, <2>3, CalmServer DEF Undisturbed
    <3> QED
      BY <3>1 DEF Undisturbed, Elsewhere, clientVars, CalmClient
  <2>4. ASSUME NEW c \in Clients, ClientStep(c) PROVE Undisturbed'
    <3>1. process' = process /\ fd' = fd /\ UNCHANGED threadVars
      BY <2>1, <2>4, ClientStepIsOwn, ClientSparesServer
    <3>2. \A t \in Threads : CalmThread(t)'
      BY <3>1 DEF Undisturbed, CalmThread, threadVars
    <3>3. ASSUME NEW t \in Threads PROVE CalmClient(fd[t])'
      <4>1. CASE fd[t] = c
        BY <2>1, <2>4, <4>1, CalmClientTurn DEF Undisturbed
      <4>2. CASE fd[t] # c
        <5>1. fd[t] \in Clients \ {c}
          BY <2>1, <4>2 DEF HasPeer
        <5>2. CalmClient(fd[t])
          BY DEF Undisturbed
        <5> QED
          BY <2>1, <2>4, <3>1, <5>1, <5>2, ClientStepIsOwn, ClientSparesServer DEF CalmClient
      <4> QED
        BY <4>1, <4>2
    <3> QED
      BY <3>1, <3>2, <3>3 DEF Undisturbed
  <2>5. \A c \in Clients : ~ Vanish(c)
    BY DEF Vanish
  <2> QED
    BY <2>2, <2>3, <2>4, <2>5 DEF Next
<1>3. Undisturbed => ServerSurvives
  BY DEF Undisturbed, ServerSurvives
<1> QED
  BY <1>1, <1>2, <1>3, HandshakeInit, HandshakeNext, PTL DEF Spec
=============================================================================
