-------------------------- MODULE TimeServiceProofs --------------------------
(***************************************************************************)
(* The answers of the time service, and what makes the server fail, for    *)
(* every number of clients, length of the queue of pending connections and *)
(* division of an answer into pieces.                                      *)
(***************************************************************************)
EXTENDS TimeService, SequenceTheorems, TLAPS

USE ServiceAssumption

Serving == server \in {"receive", "respond", "close"}
Pending(c) == \E i \in 1..Len(pending) : pending[i] = c

(* A connection is at one end of the queue or at the server, never twice;  *)
(* one that was never made is at neither.  A client asks at most twice.    *)
QueueInv ==
    /\ Serving <=> serving # NoClient
    /\ \A i, j \in 1..Len(pending) : pending[i] = pending[j] => i = j
    /\ ~ Pending(serving)
    /\ \A c \in Client : link[c] \in {"none", "invalid", "refused"} => serving # c /\ ~ Pending(c)
    /\ \A c \in Client : at[c] = "connect" => link[c] = "none"
    /\ \A c \in Client : at[c] \in {"connect", "send", "receive"} => Len(shown[c]) \in {0, 1}

Broken(c) == at[c] = "killed" \/ cut[c]
Excused(c) == cut[c] \/ link[c] = "invalid" \/ at[c] = "killed" \/ ServerEnded

(* The server has read all that c has sent, or has not come to it.         *)
Waiting(c) == serving = c => server = "receive"
Full(zone) == [i \in 1..Pieces |-> createTimeRespond(zone)]

(* What is under way between c and the server when c has asked its k-th    *)
(* question: the question, the server's work on it, or the answer.         *)
Asked(c, zone) ==
    \/ up[c] = <<zone>> /\ down[c] = <<>> /\ Waiting(c)
    \/ /\ up[c] = <<>> /\ down[c] = <<>>
       /\ serving = c /\ server = "respond" /\ timeRequest = zone
    \/ up[c] = <<>> /\ down[c] = Full(zone) /\ serving = c /\ server = "receive"

SaidGoodbye(c) ==
    \/ up[c] = <<Goodbye>> /\ Waiting(c)
    \/ up[c] = <<>> /\ serving = c /\ server = "close"

Zone(c) == Zones[Len(shown[c]) + 1]
Quiet(c) == up[c] = <<>> /\ down[c] = <<>> /\ Waiting(c)
Gone(c) == serving # c /\ ~ Pending(c)

Phase(c) ==
    \/ Excused(c)
    \/ at[c] = "connect" /\ Quiet(c) /\ shown[c] = <<>>
    \/ at[c] = "send" /\ link[c] \in {"open", "refused"} /\ Quiet(c) /\ Len(shown[c]) \in {0, 1}
    \/ at[c] = "receive" /\ link[c] = "open" /\ Len(shown[c]) \in {0, 1}
                         /\ Asked(c, Zone(c))
    \/ at[c] = "bye" /\ link[c] = "open" /\ Quiet(c)
    \/ at[c] = "close" /\ link[c] = "open" /\ down[c] = <<>> /\ SaidGoodbye(c)
    \/ at[c] = "done" /\ link[c] = "client_closed" /\ SaidGoodbye(c)
    \/ at[c] \in {"close", "done"} /\ link[c] # "open" /\ Gone(c)

Answered(c) == Right(c) \/ cut[c] \/ link[c] = "invalid" \/ ServerEnded

ServiceInv ==
    /\ TypeOK /\ QueueInv
    /\ \A c \in Client : Phase(c) /\ Answered(c)

-----------------------------------------------------------------------------
(* The hour that is sent lies between -23 and 23.                          *)
LEMMA HourSent ==
    ASSUME NEW zone \in Timezone, gmt \in Hour
    PROVE  createTimeRespond(zone) \in Text
<1>1. gmt \in 0..23 /\ zone \in -128..127
  BY DEF Timezone
<1> DEFINE a == gmt + zone
<1>2. a \in Int
  BY <1>1
<1> HIDE DEF a
<1>3. a % 24 \in 0..23 /\ (- a) % 24 \in 0..23
  BY <1>2
<1>4. CRem(a, 24) \in (-23)..23
  BY <1>2, <1>3 DEF CRem
<1> QED BY <1>4 DEF createTimeRespond, Text, a

LEMMA ZonesType == /\ Zones[1] \in Timezone /\ Zones[2] \in Timezone /\ Goodbye \in Timezone
                   /\ Zones[1] # Goodbye /\ Zones[2] # Goodbye /\ Len(Zones) = 2
BY DEF Zones, Timezone, Goodbye

LEMMA ZoneType ==
    ASSUME NEW c \in Client, Len(shown[c]) \in {0, 1}
    PROVE  Zone(c) \in Timezone
<1>1. Len(shown[c]) = 0 => Zone(c) = Zones[1]
  BY DEF Zone
<1>2. Len(shown[c]) = 1 => Zone(c) = Zones[2]
  BY DEF Zone
<1> QED BY <1>1, <1>2, ZonesType

LEMMA InitInv == Init => ServiceInv
<1> SUFFICES ASSUME Init PROVE ServiceInv
  OBVIOUS
<1>1. TypeOK
  <2>1. <<>> \in Seq(Client) /\ <<>> \in Seq(Timezone) /\ <<>> \in Seq(Text)
        /\ <<>> \in Seq([1..Pieces -> Text])
    BY EmptySeq
  <2>2. [i \in 1..Pieces |-> NoText] \in [1..Pieces -> Text]
    BY DEF Text
  <2> QED BY <2>1, <2>2 DEF Init, TypeOK
<1>2. QueueInv
  BY EmptySeq DEF Init, QueueInv, Serving, Pending
<1>3. \A c \in Client : Phase(c) /\ Answered(c)
  <2> TAKE c \in Client
  <2>1. at[c] = "connect" /\ shown[c] = <<>> /\ up[c] = <<>> /\ down[c] = <<>> /\ serving # c
    BY DEF Init
  <2>2. Right(c)
    BY <2>1, EmptySeq DEF Right
  <2> QED BY <2>1, <2>2 DEF Phase, Quiet, Waiting, Answered
<1> QED BY <1>1, <1>2, <1>3 DEF ServiceInv

-----------------------------------------------------------------------------
(* Frames: the clients a step does not concern                             *)

Same(c) ==
    /\ at'[c] = at[c] /\ shown'[c] = shown[c] /\ cut'[c] = cut[c]
    /\ link'[c] = link[c] /\ up'[c] = up[c] /\ down'[c] = down[c]
    /\ gmt' = gmt
    /\ ~ Pending(c) => ~ Pending(c)'

LEMMA FrameClient ==
    ASSUME NEW c \in Client, Phase(c), Answered(c), Same(c),
           UNCHANGED <<server, serving, timeRequest>>
    PROVE  Phase(c)' /\ Answered(c)'
<1>1. Excused(c)' <=> Excused(c)
  BY DEF Excused, Same, ServerEnded
<1>2. Quiet(c) => Quiet(c)'
  BY DEF Quiet, Waiting, Same
<1>3. SaidGoodbye(c) => SaidGoodbye(c)'
  BY DEF SaidGoodbye, Waiting, Same
<1>4. Gone(c) => Gone(c)'
  BY DEF Gone, Same
<1>5. \A z : Full(z)' = Full(z)
  BY DEF Full, createTimeRespond, Same
<1>6. \A z : Asked(c, z) => Asked(c, z)'
  BY <1>5 DEF Asked, Waiting, Same
<1>7. Phase(c)'
  BY <1>1, <1>2, <1>3, <1>4, <1>6 DEF Phase, Same, Zone
<1>8. Answered(c)'
  BY DEF Answered, Same, Right, createTimeRespond, ServerEnded
<1> QED BY <1>7, <1>8

(* A step of the server that is not about c.                               *)
LEMMA FrameServer ==
    ASSUME NEW c \in Client, Phase(c), Answered(c), Same(c),
           serving # c, serving' # c, ~ ServerEnded, ~ ServerEnded'
    PROVE  Phase(c)' /\ Answered(c)'
<1>1. Excused(c)' <=> Excused(c)
  BY DEF Excused, Same
<1>2. Quiet(c) => Quiet(c)'
  BY DEF Quiet, Waiting, Same
<1>3. SaidGoodbye(c) => SaidGoodbye(c)'
  BY DEF SaidGoodbye, Waiting, Same
<1>4. Gone(c) => Gone(c)'
  BY DEF Gone, Same
<1>5. \A z : Asked(c, z) => Asked(c, z)'
  BY DEF Asked, Waiting, Same
<1>6. Phase(c)'
  BY <1>1, <1>2, <1>3, <1>4, <1>5 DEF Phase, Same, Zone
<1>7. Answered(c)'
  BY DEF Answered, Same, Right, createTimeRespond
<1> QED BY <1>6, <1>7

-----------------------------------------------------------------------------
(* The server                                                              *)

(* The end of the server excuses everything.                               *)
LEMMA ServerEndsStep ==
    ASSUME ServiceInv, ~ ServerEnded, NEW how \in {"exited", "failed"}, ServerEnds(how),
           exhausted' \in BOOLEAN
    PROVE  ServiceInv'
<1>1. /\ server' = how /\ serving' = NoClient /\ pending' = <<>>
      /\ link' = [c \in Client |-> ClosedByServer(c)]
      /\ UNCHANGED <<timeRequest, up, down, at, timeRespond, shown, cut, gmt>>
  BY DEF ServerEnds, clientVars
<1>2. \A c \in Client : /\ link'[c] = ClosedByServer(c)
                        /\ link[c] # "open" => link'[c] = link[c]
                        /\ link[c] = "open" => link'[c] \in {"server_closed", "reset"}
  BY <1>1 DEF ClosedByServer
<1>3. TypeOK /\ QueueInv
  BY DEF ServiceInv
<1>4. \A c \in Client : link'[c] \in {"none", "invalid", "refused", "open",
                            "client_closed", "server_closed", "reset"}
  BY <1>2, <1>3 DEF TypeOK
<1>5. TypeOK'
  <2>1. <<>> \in Seq(Client)
    BY EmptySeq
  <2> QED BY <1>1, <1>3, <1>4, <2>1 DEF TypeOK
<1>6. QueueInv'
  <2>1. \A c \in Client :
           /\ at'[c] = "connect" => link'[c] = "none"
           /\ at'[c] \in {"connect", "send", "receive"} => Len(shown'[c]) \in {0, 1}
    BY <1>1, <1>2, <1>3 DEF QueueInv
  <2>2. Len(pending') = 0
    BY <1>1, EmptySeq
  <2>3. ~ Serving' /\ serving' = NoClient /\ \A c : ~ Pending(c)'
    BY <1>1, <2>2 DEF Serving, Pending
  <2>4. \A j, k \in 1..Len(pending') : pending'[j] = pending'[k] => j = k
    BY <2>2
  <2> QED BY <2>1, <2>3, <2>4 DEF QueueInv
<1>7. \A c \in Client : Phase(c)' /\ Answered(c)'
  BY <1>1 DEF Phase, Excused, Answered, ServerEnded
<1> QED BY <1>5, <1>6, <1>7 DEF ServiceInv

LEMMA ListenStep == ServiceInv /\ createListenSocket => ServiceInv'
<1> SUFFICES ASSUME ServiceInv, createListenSocket PROVE ServiceInv'
  OBVIOUS
<1>1. /\ server = "start" /\ server' = "accept"
      /\ UNCHANGED <<serving, timeRequest, pending, clientVars, netVars, gmt, exhausted>>
  BY DEF createListenSocket
<1>2. TypeOK'
  BY <1>1 DEF ServiceInv, TypeOK, clientVars, netVars
<1>3. QueueInv'
  BY <1>1 DEF ServiceInv, QueueInv, Serving, Pending, clientVars, netVars
<1>4. serving = NoClient
  BY <1>1 DEF ServiceInv, QueueInv, Serving
<1>5. \A c \in Client : Same(c)
  BY <1>1 DEF Same, Pending, clientVars, netVars
<1>6. \A c \in Client : Phase(c)' /\ Answered(c)'
  BY <1>1, <1>4, <1>5, FrameServer DEF ServiceInv, ServerEnded
<1> QED BY <1>1, <1>2, <1>3, <1>6 DEF ServiceInv

LEMMA AcceptStep == ServiceInv /\ acceptConnection => ServiceInv'
<1> SUFFICES ASSUME ServiceInv, acceptConnection PROVE ServiceInv'
  OBVIOUS
<1>1. /\ server = "accept" /\ server' = "receive" /\ pending # <<>>
      /\ serving' = Head(pending) /\ pending' = Tail(pending)
      /\ UNCHANGED <<timeRequest, clientVars, netVars, gmt, exhausted>>
  BY DEF acceptConnection
<1>2. pending \in Seq(Client) /\ Len(pending) \in Nat \ {0}
  BY <1>1, EmptySeq DEF ServiceInv, TypeOK
<1>3. /\ serving' \in Client /\ serving' = pending[1] /\ pending' \in Seq(Client)
      /\ Len(pending') = Len(pending) - 1
      /\ \A i \in 1..Len(pending') : pending'[i] = pending[i + 1]
  BY <1>1, <1>2, HeadTailProperties
<1>4. serving = NoClient /\ QueueInv
  BY <1>1 DEF ServiceInv, QueueInv, Serving
<1>5. TypeOK'
  BY <1>1, <1>3 DEF ServiceInv, TypeOK, clientVars, netVars
<1>6. /\ \A c : Pending(c)' => Pending(c)
      /\ Pending(serving')
  <2>1. \A i \in 1..Len(pending') : i + 1 \in 1..Len(pending)
    BY <1>2, <1>3
  <2> QED BY <1>2, <1>3, <2>1 DEF Pending
<1>7. ~ Pending(serving)'
  <2>1. \A i \in 1..Len(pending') : pending[i + 1] # pending[1]
    BY <1>2, <1>3, <1>4 DEF QueueInv
  <2> QED BY <1>3, <2>1 DEF Pending
<1>8. \A i, j \in 1..Len(pending') : pending'[i] = pending'[j] => i = j
  <2> SUFFICES ASSUME NEW i \in 1..Len(pending'), NEW j \in 1..Len(pending'),
                      pending'[i] = pending'[j]
               PROVE  i = j
    OBVIOUS
  <2>1. i + 1 \in 1..Len(pending) /\ j + 1 \in 1..Len(pending) /\ pending[i + 1] = pending[j + 1]
    BY <1>2, <1>3
  <2>2. i + 1 = j + 1
    BY <1>4, <2>1 DEF QueueInv
  <2> QED BY <1>2, <1>3, <2>2
<1>9. QueueInv'
  <2>1. \A c \in Client : link[c] \in {"none", "invalid", "refused"} => serving' # c /\ ~ Pending(c)'
    BY <1>4, <1>6 DEF QueueInv
  <2>2. Serving' /\ serving' # NoClient
    BY <1>1, <1>3 DEF Serving
  <2> QED BY <1>1, <1>4, <1>7, <1>8, <2>1, <2>2 DEF QueueInv, clientVars, netVars
<1>10. ASSUME NEW c \in Client PROVE Phase(c)' /\ Answered(c)'
  <2>1. Same(c) /\ Phase(c) /\ Answered(c)
    BY <1>1, <1>6 DEF Same, clientVars, netVars, ServiceInv
  <2>2. CASE serving' # c
    BY <1>1, <1>4, <2>1, <2>2, FrameServer DEF ServerEnded
  <2>3. CASE serving' = c
    <3>1. Pending(c) /\ serving # c
      BY <1>4, <1>6, <2>3
    <3>2. Excused(c) => Excused(c)'
      BY <1>1, <2>1 DEF Excused, Same, ServerEnded
    <3>3. (Quiet(c) => Quiet(c)') /\ (SaidGoodbye(c) => SaidGoodbye(c)')
      BY <1>1, <2>1, <3>1 DEF Quiet, SaidGoodbye, Waiting, Same
    <3>4. \A z : Asked(c, z) => Asked(c, z)'
      BY <1>1, <2>1, <3>1 DEF Asked, Waiting, Same
    <3>5. ~ Gone(c)
      BY <3>1 DEF Gone
    <3>6. Phase(c)'
      BY <2>1, <3>2, <3>3, <3>4, <3>5 DEF Phase, Same, Zone
    <3>7. Answered(c)'
      BY <1>1, <2>1 DEF Answered, Right, createTimeRespond, ServerEnded, Same
    <3> QED BY <3>6, <3>7
  <2> QED BY <2>2, <2>3
<1> QED BY <1>1, <1>5, <1>9, <1>10 DEF ServiceInv

(* What the phases say of the client that is served.                       *)
LEMMA ServedClient ==
    ASSUME ServiceInv, Serving
    PROVE  /\ serving \in Client /\ ~ ServerEnded
           /\ link[serving] \notin {"none", "invalid", "refused"}
           /\ Phase(serving) /\ Answered(serving)
           /\ ~ Gone(serving) /\ ~ Pending(serving)
           /\ at[serving] # "connect"
           /\ Excused(serving) => Broken(serving)
<1>1. serving \in Client
  BY DEF ServiceInv, TypeOK, QueueInv
<1>2. ~ ServerEnded
  BY DEF Serving, ServerEnded
<1>3. link[serving] \notin {"none", "invalid", "refused"} /\ at[serving] # "connect"
  BY <1>1 DEF ServiceInv, QueueInv
<1> QED BY <1>1, <1>2, <1>3 DEF ServiceInv, QueueInv, Gone, Excused, Broken

(* A step of the server about the client c it serves that keeps the queue. *)
LEMMA ServeStep ==
    ASSUME ServiceInv, Serving, NEW c \in Client, c = serving, ~ ServerEnded',
           TypeOK', QueueInv', UNCHANGED <<pending, clientVars, gmt>>,
           serving' \in {serving, NoClient},
           \A d \in Client \ {c} : link'[d] = link[d] /\ up'[d] = up[d] /\ down'[d] = down[d],
           link[c] = "invalid" => link'[c] = "invalid",
           Phase(c)'
    PROVE  ServiceInv'
<1>1. ~ ServerEnded
  BY DEF Serving, ServerEnded
<1>2. \A d \in Client \ {c} : Phase(d)' /\ Answered(d)'
  <2> TAKE d \in Client \ {c}
  <2>1. Same(d)
    BY DEF Same, Pending, clientVars
  <2> QED BY <1>1, <2>1, FrameServer DEF ServiceInv
<1>3. Answered(c)'
  BY <1>1 DEF ServiceInv, Answered, Right, createTimeRespond, clientVars
<1> QED BY <1>2, <1>3 DEF ServiceInv

LEMMA ReceiveStep == ServiceInv /\ receiveTimeRequest => ServiceInv'
<1> SUFFICES ASSUME ServiceInv, receiveTimeRequest PROVE ServiceInv'
  OBVIOUS
<1> DEFINE c == serving
<1>1. server = "receive" /\ Serving
  BY DEF receiveTimeRequest, Serving
<1>2. /\ c \in Client /\ ~ ServerEnded
      /\ link[c] \notin {"none", "invalid", "refused"}
      /\ Phase(c) /\ ~ Gone(c) /\ at[c] # "connect"
  BY <1>1, ServedClient
<1>3. up[c] \in Seq(Timezone) /\ TypeOK /\ QueueInv
  BY <1>2 DEF ServiceInv, TypeOK
<1>4. CASE up[c] # <<>> /\ up' = [up EXCEPT ![c] = Tail(@)] /\ Received(Head(up[c]))
  <2> DEFINE zone == Head(up[c])
  <2>1. /\ timeRequest' = zone
        /\ server' = IF zone = Goodbye THEN "close" ELSE "respond"
        /\ UNCHANGED <<serving, pending, clientVars, link, down, gmt, exhausted>>
    BY <1>4 DEF Received
  <2>2. zone \in Timezone /\ Tail(up[c]) \in Seq(Timezone)
    BY <1>3, <1>4, HeadTailProperties
  <2>3. up'[c] = Tail(up[c]) /\ \A d \in Client \ {c} : up'[d] = up[d]
    BY <1>2, <1>3, <1>4 DEF TypeOK
  <2>4. TypeOK'
    BY <1>2, <1>3, <1>4, <2>1, <2>2 DEF TypeOK, clientVars
  <2>5. QueueInv'
    BY <1>1, <1>3, <2>1 DEF QueueInv, Serving, Pending, clientVars
  <2>6. \A z : up[c] = <<z>> => zone = z /\ up'[c] = <<>>
    BY <2>3
  <2>7. Excused(c) => Excused(c)'
    BY <1>2, <2>1 DEF Excused, clientVars, ServerEnded
  <2>8. ~ Quiet(c)
    BY <1>4 DEF Quiet
  <2>9. SaidGoodbye(c) => SaidGoodbye(c)'
    BY <1>4, <2>1, <2>6 DEF SaidGoodbye
  <2>10. \A z : z # Goodbye /\ Asked(c, z) => Asked(c, z)'
    BY <1>4, <2>1, <2>6 DEF Asked
  <2>11. Len(shown[c]) \in {0, 1} => Zone(c) # Goodbye /\ Zone(c)' = Zone(c)
    <3>1. Len(shown[c]) = 0 => Zone(c) = Zones[1]
      BY DEF Zone
    <3>2. Len(shown[c]) = 1 => Zone(c) = Zones[2]
      BY DEF Zone
    <3>3. Zone(c)' = Zone(c)
      BY <2>1 DEF Zone, clientVars
    <3> QED BY <3>1, <3>2, <3>3, ZonesType
  <2>12. Phase(c)'
    BY <1>2, <2>1, <2>7, <2>8, <2>9, <2>10, <2>11 DEF Phase, clientVars
  <2> QED BY <1>1, <1>2, <2>1, <2>3, <2>4, <2>5, <2>12, ServeStep DEF ServerEnded
<1>5. CASE up[c] = <<>> /\ link[c] = "client_closed" /\ UNCHANGED up /\ Received(timeRequest)
  <2>1. /\ server' \in {"close", "respond"} /\ timeRequest' = timeRequest
        /\ UNCHANGED <<serving, pending, clientVars, link, down, gmt, exhausted>>
    BY <1>5 DEF Received
  <2>2. TypeOK'
    BY <1>3, <1>5, <2>1 DEF TypeOK, clientVars
  <2>3. QueueInv'
    BY <1>1, <1>3, <2>1 DEF QueueInv, Serving, Pending, clientVars
  <2>4. Excused(c)
    BY <1>1, <1>2, <1>5 DEF Phase, SaidGoodbye, Goodbye
  <2>5. Phase(c)'
    BY <1>2, <2>1, <2>4 DEF Phase, Excused, clientVars
  <2> QED BY <1>1, <1>2, <1>5, <2>1, <2>2, <2>3, <2>5, ServeStep DEF ServerEnded
<1>6. CASE up[c] = <<>> /\ link[c] = "reset" /\ ServerEnds("failed") /\ UNCHANGED exhausted
  BY <1>2, <1>3, <1>6, ServerEndsStep DEF TypeOK
<1> QED BY <1>4, <1>5, <1>6 DEF receiveTimeRequest

LEMMA RespondStep == ServiceInv /\ sendTimeRespond => ServiceInv'
<1> SUFFICES ASSUME ServiceInv, sendTimeRespond PROVE ServiceInv'
  OBVIOUS
<1> DEFINE c == serving
<1>1. server = "respond" /\ Serving /\ UNCHANGED exhausted
  BY DEF sendTimeRespond, Serving
<1>2. /\ c \in Client /\ ~ ServerEnded
      /\ link[c] \notin {"none", "invalid", "refused"}
      /\ Phase(c) /\ ~ Gone(c) /\ at[c] # "connect"
  BY <1>1, ServedClient
<1>3. TypeOK /\ QueueInv /\ timeRequest \in Timezone /\ gmt \in Hour
  BY DEF ServiceInv, TypeOK
<1>4. ~ Quiet(c) /\ ~ SaidGoodbye(c)
  BY <1>1 DEF Quiet, SaidGoodbye, Waiting
<1>5. \A z : Asked(c, z) => up[c] = <<>> /\ down[c] = <<>> /\ timeRequest = z
  BY <1>1 DEF Asked, Waiting
<1>6. CASE link[c] = "open"
  <2>1. /\ down' = [down EXCEPT ![c] = @ \o Full(timeRequest)]
        /\ server' = "receive"
        /\ UNCHANGED <<serving, timeRequest, pending, clientVars, link, up, gmt, exhausted>>
    BY <1>1, <1>6 DEF sendTimeRespond, Full
  <2>2. Full(timeRequest) \in Seq(Text)
    <3>1. Full(timeRequest) \in [1..Pieces -> Text]
      BY <1>3, HourSent DEF Full
    <3> QED BY <3>1, SeqDef
  <2>3. /\ down[c] \in Seq(Text) /\ down[c] \o Full(timeRequest) \in Seq(Text)
        /\ down[c] = <<>> => down[c] \o Full(timeRequest) = Full(timeRequest)
    BY <1>2, <1>3, <2>2, ConcatProperties, ConcatEmptySeq DEF TypeOK
  <2>4. /\ down'[c] = down[c] \o Full(timeRequest)
        /\ \A d \in Client \ {c} : down'[d] = down[d]
    BY <1>2, <1>3, <2>1 DEF TypeOK
  <2>5. TypeOK'
    BY <1>2, <1>3, <2>1, <2>3 DEF TypeOK, clientVars
  <2>6. QueueInv'
    BY <1>1, <1>3, <2>1 DEF QueueInv, Serving, Pending, clientVars
  <2>7. \A z : Full(z)' = Full(z)
    BY <2>1 DEF Full, createTimeRespond
  <2>8. \A z : Asked(c, z) => Asked(c, z)'
    BY <1>5, <2>1, <2>3, <2>4, <2>7 DEF Asked
  <2>9. Excused(c) => Excused(c)'
    BY <1>2, <2>1 DEF Excused, clientVars, ServerEnded
  <2>10. Phase(c)'
    BY <1>2, <1>4, <2>1, <2>8, <2>9 DEF Phase, clientVars, Zone
  <2> QED BY <1>1, <1>2, <2>1, <2>4, <2>5, <2>6, <2>10, ServeStep DEF ServerEnded
<1>7. CASE link[c] = "client_closed"
  <2>1. /\ link' = [link EXCEPT ![c] = "reset"] /\ server' = "receive"
        /\ UNCHANGED <<serving, timeRequest, pending, clientVars, up, down, gmt, exhausted>>
    BY <1>1, <1>7 DEF sendTimeRespond
  <2>2. link'[c] = "reset" /\ \A d \in Client \ {c} : link'[d] = link[d]
    BY <1>2, <1>3, <2>1 DEF TypeOK
  <2>3. TypeOK'
    BY <1>2, <1>3, <2>1 DEF TypeOK, clientVars
  <2>4. QueueInv'
    BY <1>1, <1>2, <1>3, <2>1, <2>2 DEF QueueInv, Serving, Pending, clientVars
  <2>5. Excused(c)
    BY <1>2, <1>4, <1>7 DEF Phase
  <2>6. Phase(c)'
    BY <1>2, <2>1, <2>5 DEF Phase, Excused, clientVars
  <2> QED BY <1>1, <1>2, <2>1, <2>2, <2>3, <2>4, <2>6, ServeStep DEF ServerEnded
<1>8. CASE link[c] \notin {"open", "client_closed"}
  <2>1. ServerEnds("failed")
    BY <1>8 DEF sendTimeRespond
  <2> QED BY <1>1, <1>2, <1>3, <2>1, ServerEndsStep DEF TypeOK
<1> QED BY <1>6, <1>7, <1>8

LEMMA CloseStep == ServiceInv /\ closeConnection => ServiceInv'
<1> SUFFICES ASSUME ServiceInv, closeConnection PROVE ServiceInv'
  OBVIOUS
<1>0. PICK c \in Client : c = serving
  BY ServedClient DEF closeConnection, Serving
<1>1. /\ server = "close" /\ Serving /\ server' = "accept" /\ serving' = NoClient
      /\ link' = [link EXCEPT ![c] = ClosedByServer(c)]
      /\ UNCHANGED <<timeRequest, pending, clientVars, up, down, gmt, exhausted>>
  BY <1>0 DEF closeConnection, Serving
<1>2. /\ serving = c /\ ~ ServerEnded
      /\ link[c] \notin {"none", "invalid", "refused"}
      /\ Phase(c) /\ ~ Gone(c) /\ ~ Pending(c) /\ at[c] # "connect"
  BY <1>0, <1>1, ServedClient
<1>3. TypeOK /\ QueueInv
  BY DEF ServiceInv
<1>4. /\ link'[c] = ClosedByServer(c)
      /\ \A d \in Client \ {c} : link'[d] = link[d]
      /\ link[c] # "open" => link'[c] = link[c]
      /\ link[c] = "open" => link'[c] \in {"server_closed", "reset"}
  BY <1>1, <1>2, <1>3 DEF TypeOK, ClosedByServer
<1>5. TypeOK'
  BY <1>1, <1>2, <1>3, <1>4 DEF TypeOK, clientVars
<1>6. QueueInv'
  <2>1. ~ Pending(NoClient)
    BY <1>3 DEF TypeOK, Pending
  <2> QED BY <1>1, <1>2, <1>3, <1>4, <2>1 DEF QueueInv, Serving, Pending, clientVars
<1>7. ~ Quiet(c) /\ \A z : ~ Asked(c, z)
  BY <1>1, <1>2 DEF Quiet, Asked, Waiting
<1>8. Excused(c) => Excused(c)'
  BY <1>1, <1>2 DEF Excused, clientVars, ServerEnded
<1>9. Gone(c)'
  BY <1>1, <1>2 DEF Gone, Pending
<1>10. Phase(c)'
  BY <1>1, <1>2, <1>4, <1>7, <1>8, <1>9 DEF Phase, clientVars
<1> QED BY <1>0, <1>1, <1>2, <1>4, <1>5, <1>6, <1>10, ServeStep DEF ServerEnded

LEMMA ServerStep ==
    ServiceInv /\ (Server \/ ServerCallFails \/ shutdownTimeServer) => ServiceInv'
<1> SUFFICES ASSUME ServiceInv, Server \/ ServerCallFails \/ shutdownTimeServer PROVE ServiceInv'
  OBVIOUS
<1>1. CASE ServerCallFails
  <2>1. exhausted' = TRUE /\ ServerEnds("failed") /\ ~ ServerEnded
    BY <1>1 DEF ServerCallFails, ServerEnded
  <2> QED BY <2>1, ServerEndsStep
<1>2. CASE shutdownTimeServer
  <2>1. UNCHANGED exhausted /\ ServerEnds("exited") /\ ~ ServerEnded /\ exhausted \in BOOLEAN
    BY <1>2 DEF shutdownTimeServer, ServiceInv, TypeOK
  <2> QED BY <2>1, ServerEndsStep
<1> QED
  BY <1>1, <1>2, ListenStep, AcceptStep, ReceiveStep, RespondStep, CloseStep DEF Server

-----------------------------------------------------------------------------
(* The clients                                                             *)

(* A step of c that has nothing to do with the other clients.              *)
LEMMA ClientEffect ==
    ASSUME ServiceInv, NEW c \in Client, UNCHANGED <<server, serving, timeRequest, gmt>>,
           \A d \in Client \ {c} :
               /\ at'[d] = at[d] /\ shown'[d] = shown[d] /\ cut'[d] = cut[d]
               /\ link'[d] = link[d] /\ up'[d] = up[d] /\ down'[d] = down[d]
               /\ Pending(d)' => Pending(d),
           TypeOK', QueueInv', Phase(c)', Answered(c)'
    PROVE  ServiceInv'
<1>1. \A d \in Client \ {c} : Phase(d)' /\ Answered(d)'
  <2> TAKE d \in Client \ {c}
  <2>1. Same(d)
    BY DEF Same
  <2> QED BY <2>1, FrameClient DEF ServiceInv
<1> QED BY <1>1 DEF ServiceInv

(* What the end of a client does to its connection.                        *)
LEMMA ClientEndsEffect ==
    ASSUME ServiceInv, NEW c \in Client, NEW how \in {"done", "failed", "killed"},
           ClientEnds(c, how),
           UNCHANGED <<serverVars, timeRespond, shown, cut, gmt, exhausted>>
    PROVE  /\ TypeOK' /\ QueueInv'
           /\ at'[c] = how /\ up' = up
           /\ link[c] # "open" => link'[c] = link[c]
           /\ link[c] = "open" /\ down[c] = <<>> => link'[c] = "client_closed"
           /\ link[c] = "invalid" <=> link'[c] = "invalid"
           /\ \A d \in Client \ {c} :
                 at'[d] = at[d] /\ link'[d] = link[d] /\ down'[d] = down[d]
<1> DEFINE l == IF link[c] # "open" THEN link[c]
                ELSE IF down[c] = <<>> THEN "client_closed" ELSE "reset"
<1>1. TypeOK /\ QueueInv
  BY DEF ServiceInv
<1>2. /\ at' = [at EXCEPT ![c] = how]
      /\ link' = [link EXCEPT ![c] = l]
      /\ down' = [down EXCEPT ![c] = <<>>]
      /\ up' = up
  BY DEF ClientEnds
<1>3. l \in {"none", "invalid", "refused", "open", "client_closed", "server_closed", "reset"}
  BY <1>1 DEF TypeOK
<1>4. /\ at'[c] = how /\ link'[c] = l
      /\ \A d \in Client \ {c} :
            at'[d] = at[d] /\ link'[d] = link[d] /\ down'[d] = down[d]
  BY <1>1, <1>2 DEF TypeOK
<1>5. TypeOK'
  <2>1. <<>> \in Seq(Text)
    BY EmptySeq
  <2> HIDE DEF l
  <2> QED BY <1>1, <1>2, <1>3, <2>1 DEF TypeOK, serverVars
<1>6. QueueInv'
  <2>1. l \in {"none", "invalid", "refused"} => l = link[c]
    OBVIOUS
  <2> HIDE DEF l
  <2> QED BY <1>1, <1>4, <2>1 DEF QueueInv, Serving, Pending, serverVars
<1> QED BY <1>2, <1>4, <1>5, <1>6

LEMMA ConnectStep ==
    ASSUME ServiceInv, NEW c \in Client, connectToTimeServer(c)
    PROVE  ServiceInv'
<1>1. /\ at[c] = "connect" /\ at' = [at EXCEPT ![c] = "send"]
      /\ UNCHANGED <<server, serving, timeRequest, timeRespond, shown, cut, up, down, gmt>>
  BY DEF connectToTimeServer
<1>2. TypeOK /\ QueueInv /\ Phase(c) /\ Answered(c) /\ pending \in Seq(Client)
  BY DEF ServiceInv, TypeOK
<1>3. link[c] = "none" /\ serving # c /\ ~ Pending(c) /\ Len(shown[c]) \in {0, 1}
  BY <1>1, <1>2 DEF QueueInv
<1>4. at'[c] = "send" /\ \A d \in Client \ {c} : at'[d] = at[d]
  BY <1>1, <1>2 DEF TypeOK
<1>5. /\ ~ Excused(c) => Quiet(c)'
      /\ cut[c] \/ ServerEnded \/ ~ Excused(c)
  <2>1. ~ Excused(c) => Quiet(c)
    BY <1>1, <1>2 DEF Phase
  <2>2. Quiet(c) => Quiet(c)'
    BY <1>1 DEF Quiet, Waiting
  <2> QED BY <1>1, <1>3, <2>1, <2>2 DEF Excused
<1>6. Answered(c)'
  <2>1. Right(c) => Right(c)'
    BY <1>1 DEF Right, createTimeRespond
  <2> QED BY <1>1, <1>2, <1>3, <2>1 DEF Answered, ServerEnded
<1>7. ASSUME NEW l \in {"invalid", "open", "refused"}, link' = [link EXCEPT ![c] = l],
             exhausted' \in BOOLEAN, exhausted => exhausted',
             pending' \in Seq(Client),
             \A d \in Client \ {c} : Pending(d)' => Pending(d),
             ~ Pending(NoClient)',
             l # "open" => ~ Pending(c)',
             \A i, j \in 1..Len(pending') : pending'[i] = pending'[j] => i = j
      PROVE  ServiceInv'
  <2>1. link'[c] = l /\ \A d \in Client \ {c} : link'[d] = link[d]
    BY <1>2, <1>7 DEF TypeOK
  <2>2. TypeOK'
    BY <1>1, <1>2, <1>7 DEF TypeOK
  <2>3. \A d \in Client : link'[d] \in {"none", "invalid", "refused"} => serving # d /\ ~ Pending(d)'
    BY <1>2, <1>3, <1>7, <2>1 DEF QueueInv
  <2>4. ~ Pending(serving)'
    <3>1. serving' = serving /\ serving \in Client \cup {NoClient} /\ serving # c
      BY <1>1, <1>2, <1>3 DEF TypeOK
    <3>2. CASE serving = NoClient
      BY <1>7, <3>1, <3>2 DEF Pending
    <3>3. CASE serving \in Client \ {c}
      <4>1. Pending(serving)' => Pending(serving)
        <5>1. ASSUME NEW d \in Client \ {c}, d = serving
              PROVE  Pending(serving)' => Pending(serving)
          BY <1>7, <3>1, <5>1 DEF Pending
        <5> QED BY <3>3, <5>1
      <4> QED BY <1>2, <4>1 DEF QueueInv
    <3> QED BY <3>1, <3>2, <3>3
  <2>5. QueueInv'
    BY <1>1, <1>2, <1>3, <1>4, <1>7, <2>1, <2>3, <2>4 DEF QueueInv, Serving
  <2>6. Phase(c)'
    BY <1>1, <1>3, <1>4, <1>5, <2>1 DEF Phase, Excused, ServerEnded
  <2> QED BY <1>1, <1>4, <1>6, <1>7, <2>1, <2>2, <2>5, <2>6, ClientEffect
<1>8. CASE exhausted' = TRUE /\ link' = [link EXCEPT ![c] = "invalid"] /\ UNCHANGED pending
  BY <1>2, <1>3, <1>7, <1>8 DEF QueueInv, Pending, TypeOK
<1>9. CASE /\ link' = [link EXCEPT ![c] = "open"]
           /\ pending' = Append(pending, c) /\ UNCHANGED exhausted
  <2>1. /\ pending' \in Seq(Client) /\ Len(pending') = Len(pending) + 1 /\ Len(pending) \in Nat
        /\ \A i \in 1..Len(pending) : pending'[i] = pending[i]
        /\ pending'[Len(pending) + 1] = c
    BY <1>2, <1>9, AppendProperties
  <2>2. \A i \in 1..Len(pending') : i \in 1..Len(pending) \/ i = Len(pending) + 1
    BY <2>1
  <2>3. \A d : d # c /\ Pending(d)' => Pending(d)
    BY <2>1, <2>2 DEF Pending
  <2>4. ~ Pending(NoClient)
    BY <1>2 DEF Pending, TypeOK
  <2>5. \A i, j \in 1..Len(pending') : pending'[i] = pending'[j] => i = j
    <3> SUFFICES ASSUME NEW i \in 1..Len(pending'), NEW j \in 1..Len(pending'),
                        pending'[i] = pending'[j]
                 PROVE  i = j
      OBVIOUS
    <3>1. \A k \in 1..Len(pending) : pending'[k] # c
      BY <1>3, <2>1 DEF Pending
    <3>2. CASE i \in 1..Len(pending) /\ j \in 1..Len(pending)
      BY <1>2, <2>1, <3>2 DEF QueueInv
    <3> QED BY <2>1, <2>2, <3>1, <3>2
  <2> QED BY <1>2, <1>7, <1>9, <2>1, <2>3, <2>4, <2>5 DEF TypeOK
<1>10. CASE link' = [link EXCEPT ![c] = "refused"] /\ UNCHANGED <<pending, exhausted>>
  BY <1>2, <1>3, <1>7, <1>10 DEF QueueInv, Pending, TypeOK
<1> QED BY <1>8, <1>9, <1>10 DEF connectToTimeServer

(* The two kinds of request: a question and the goodbye.                   *)
LEMMA SendStep ==
    ASSUME ServiceInv, NEW c \in Client, NEW zone \in Timezone,
           NEW next \in {"receive", "close"}, sendTimeRequest(c, zone, next),
           \/ at[c] = "send" /\ next = "receive" /\ zone = Zone(c)
           \/ at[c] = "bye" /\ next = "close" /\ zone = Goodbye
    PROVE  ServiceInv'
<1>1. UNCHANGED <<serverVars, timeRespond, shown, cut, gmt, exhausted>>
  BY DEF sendTimeRequest
<1>2. TypeOK /\ QueueInv /\ Phase(c) /\ Answered(c)
  BY DEF ServiceInv
<1>3. at[c] \in {"send", "bye"} /\ up[c] \in Seq(Timezone)
  BY <1>2 DEF TypeOK
<1>4. \A d : Pending(d)' <=> Pending(d)
  BY <1>1 DEF Pending, serverVars
<1>5. /\ ~ Excused(c) => Quiet(c) /\ link[c] \in {"open", "refused"}
                         /\ (at[c] = "bye" => link[c] = "open")
      /\ Excused(c) => cut[c] \/ link[c] = "invalid" \/ ServerEnded
  BY <1>3, <1>2 DEF Phase, Excused
<1>6. ASSUME link[c] = "invalid" => link'[c] = "invalid"
      PROVE  Answered(c)'
  BY <1>1, <1>2, <1>6 DEF Answered, Right, createTimeRespond, ServerEnded, serverVars
<1>7. CASE /\ link[c] = "open" /\ up' = [up EXCEPT ![c] = Append(@, zone)]
           /\ at' = [at EXCEPT ![c] = next] /\ UNCHANGED <<link, down>>
  <2>1. Append(up[c], zone) \in Seq(Timezone) /\ (up[c] = <<>> => Append(up[c], zone) = <<zone>>)
    <3>1. Append(up[c], zone) \in Seq(Timezone)
      BY <1>3, AppendProperties
    <3>2. <<zone>> \in Seq(Timezone)
      OBVIOUS
    <3>3. <<>> \o <<zone>> = <<zone>>
      BY <3>2, ConcatEmptySeq
    <3>4. Append(up[c], zone) = up[c] \o <<zone>>
      BY <1>3, AppendIsConcat
    <3> QED BY <3>1, <3>3, <3>4
  <2>2. /\ at'[c] = next /\ up'[c] = Append(up[c], zone)
        /\ \A d \in Client \ {c} : at'[d] = at[d] /\ up'[d] = up[d]
    BY <1>2, <1>7 DEF TypeOK
  <2>3. TypeOK'
    BY <1>1, <1>2, <1>7, <2>1 DEF TypeOK, serverVars
  <2>4. QueueInv'
    BY <1>1, <1>2, <1>3, <1>4, <1>7, <2>2 DEF QueueInv, Serving, serverVars
  <2>5. Zone(c)' = Zone(c) /\ (Waiting(c) => Waiting(c)')
    BY <1>1 DEF Zone, Waiting, serverVars
  <2>6. Phase(c)'
    <3>1. CASE Excused(c)
      BY <1>1, <1>5, <1>7, <3>1 DEF Phase, Excused, ServerEnded, serverVars
    <3>2. CASE ~ Excused(c) /\ next = "receive"
      <4>1. Asked(c, Zone(c))'
        BY <1>3, <1>5, <1>7, <2>1, <2>2, <2>5, <3>2 DEF Asked, Quiet
      <4>2. Len(shown[c]) \in {0, 1}
        BY <1>2, <1>3, <3>2 DEF QueueInv
      <4> QED BY <1>1, <1>7, <2>2, <3>2, <4>1, <4>2 DEF Phase
    <3>3. CASE ~ Excused(c) /\ next = "close"
      <4>1. SaidGoodbye(c)' /\ down'[c] = <<>>
        BY <1>5, <1>7, <2>1, <2>2, <2>5, <3>3 DEF SaidGoodbye, Quiet
      <4> QED BY <1>7, <2>2, <3>3, <4>1 DEF Phase
    <3> QED BY <3>1, <3>2, <3>3
  <2> QED
    BY <1>1, <1>3, <1>4, <1>6, <1>7, <2>2, <2>3, <2>4, <2>6, ClientEffect DEF serverVars
<1>8. CASE /\ link[c] \in {"server_closed", "invalid", "reset"}
           /\ link' = [link EXCEPT ![c] = IF @ = "invalid" THEN @ ELSE "reset"]
           /\ at' = [at EXCEPT ![c] = next] /\ UNCHANGED <<up, down>>
  <2>1. /\ at'[c] = next /\ link'[c] \in {"invalid", "reset"}
        /\ link[c] = "invalid" <=> link'[c] = "invalid"
        /\ \A d \in Client \ {c} : at'[d] = at[d] /\ link'[d] = link[d]
    BY <1>2, <1>8 DEF TypeOK
  <2>2. TypeOK'
    BY <1>1, <1>2, <1>8 DEF TypeOK, serverVars
  <2>3. QueueInv'
    BY <1>1, <1>2, <1>3, <1>4, <2>1 DEF QueueInv, Serving, serverVars
  <2>4. Phase(c)'
    BY <1>1, <1>5, <1>8, <2>1 DEF Phase, Excused, ServerEnded, serverVars
  <2> QED
    BY <1>1, <1>3, <1>4, <1>6, <1>8, <2>1, <2>2, <2>3, <2>4, ClientEffect DEF serverVars
<1>9. CASE ClientEnds(c, "killed")
  <2>1. /\ TypeOK' /\ QueueInv' /\ at'[c] = "killed" /\ up' = up
        /\ link[c] = "invalid" <=> link'[c] = "invalid"
        /\ \A d \in Client \ {c} :
              at'[d] = at[d] /\ link'[d] = link[d] /\ down'[d] = down[d]
    BY <1>1, <1>9, ClientEndsEffect
  <2>2. Phase(c)'
    BY <2>1 DEF Phase, Excused
  <2> QED BY <1>1, <1>3, <1>4, <1>6, <2>1, <2>2, ClientEffect DEF serverVars
<1> QED
  <2>1. ASSUME link[c] \in {"invalid", "reset"}, UNCHANGED netVars
        PROVE  link' = [link EXCEPT ![c] = IF @ = "invalid" THEN @ ELSE "reset"]
    BY <1>2, <2>1 DEF TypeOK, netVars
  <2> QED BY <1>7, <1>8, <1>9, <2>1 DEF sendTimeRequest, netVars

(* The k-th answer is the answer to the k-th question.                     *)
LEMMA ShownStep ==
    ASSUME ServiceInv, NEW c \in Client, at[c] = "receive", NEW text \in [1..Pieces -> Text],
           Prints(c, text), UNCHANGED gmt
    PROVE  /\ at'[c] = IF Len(shown[c]) = 0 THEN "send" ELSE "bye"
           /\ Len(shown[c]) \in {0, 1} /\ Len(shown'[c]) = Len(shown[c]) + 1
           /\ shown' \in [Client -> Seq([1..Pieces -> Text])]
           /\ timeRespond' \in [Client -> [1..Pieces -> Text]]
           /\ at' \in [Client -> {"connect", "send", "receive", "bye", "close", "done", "failed", "killed"}]
           /\ Right(c) /\ text = Full(Zone(c)) => Right(c)'
           /\ \A d \in Client \ {c} : at'[d] = at[d] /\ shown'[d] = shown[d]
<1>1. TypeOK /\ Len(shown[c]) \in {0, 1} /\ shown[c] \in Seq([1..Pieces -> Text])
  BY DEF ServiceInv, QueueInv, TypeOK
<1>2. /\ timeRespond' = [timeRespond EXCEPT ![c] = text]
      /\ shown' = [shown EXCEPT ![c] = Append(shown[c], text)]
      /\ at' = [at EXCEPT ![c] = IF Len(shown[c]) = 0 THEN "send" ELSE "bye"]
  <2>1. Len(shown[c]) + 1 < Len(Zones) <=> Len(shown[c]) = 0
    BY <1>1, ZonesType
  <2> QED BY <2>1 DEF Prints
<1>3. /\ Append(shown[c], text) \in Seq([1..Pieces -> Text])
      /\ Len(Append(shown[c], text)) = Len(shown[c]) + 1
      /\ \A i \in 1..Len(shown[c]) : Append(shown[c], text)[i] = shown[c][i]
      /\ Append(shown[c], text)[Len(shown[c]) + 1] = text
  BY <1>1, AppendProperties
<1>4. /\ shown'[c] = Append(shown[c], text)
      /\ at'[c] = IF Len(shown[c]) = 0 THEN "send" ELSE "bye"
      /\ \A d \in Client \ {c} : at'[d] = at[d] /\ shown'[d] = shown[d]
  BY <1>1, <1>2 DEF TypeOK
<1>5. /\ shown' \in [Client -> Seq([1..Pieces -> Text])]
      /\ timeRespond' \in [Client -> [1..Pieces -> Text]]
      /\ at' \in [Client -> {"connect", "send", "receive", "bye", "close", "done", "failed", "killed"}]
  BY <1>1, <1>2, <1>3 DEF TypeOK
<1>6. ASSUME Right(c), text = Full(Zone(c)) PROVE Right(c)'
  <2> DEFINE n == Len(shown[c])
  <2>1. n \in Nat /\ DOMAIN shown[c] = 1..n /\ DOMAIN shown'[c] = 1..(n + 1)
    BY <1>1, <1>3, <1>4, LenProperties
  <2>2. \A z : Full(z)' = Full(z)
    BY DEF Full, createTimeRespond
  <2>3. ASSUME NEW k \in DOMAIN shown'[c] PROVE shown'[c][k] = Full(Zones[k])
    <3>1. CASE k \in 1..n
      BY <1>3, <1>4, <1>6, <2>1, <3>1 DEF Right, Full
    <3>2. CASE k = n + 1
      BY <1>3, <1>4, <1>6, <3>2 DEF Zone
    <3> QED BY <2>1, <2>3, <3>1, <3>2
  <2> QED BY <2>2, <2>3 DEF Right, Full
<1> QED BY <1>1, <1>3, <1>4, <1>5, <1>6

LEMMA AnswerStep ==
    ASSUME ServiceInv, NEW c \in Client, receiveTimeRespond(c)
    PROVE  ServiceInv'
<1>1. /\ at[c] = "receive"
      /\ UNCHANGED <<serverVars, gmt, exhausted>>
  BY DEF receiveTimeRespond
<1>2. TypeOK /\ QueueInv /\ Phase(c) /\ Answered(c)
  BY DEF ServiceInv
<1>3. /\ down[c] \in Seq(Text) /\ timeRespond[c] \in [1..Pieces -> Text]
      /\ Len(down[c]) \in Nat /\ timeRequest \in Timezone /\ gmt \in Hour
      /\ \A i \in 1..Len(down[c]) : down[c][i] \in Text
  BY <1>2, ElementOfSeq, LenProperties DEF TypeOK
<1>4. \A d : Pending(d)' <=> Pending(d)
  BY <1>1 DEF Pending, serverVars
<1>5. /\ Excused(c) => cut[c] \/ link[c] = "invalid" \/ ServerEnded
      /\ ~ Excused(c) => link[c] = "open" /\ Asked(c, Zone(c)) /\ Right(c)
  BY <1>1, <1>2 DEF Excused, Phase, Answered
<1>6. ASSUME NEW n \in 1..Pieces, n <= Len(down[c]), Prints(c, Filled(c, n)),
             down' = [down EXCEPT ![c] = SubSeq(@, n + 1, Len(@))],
             cut' = [cut EXCEPT ![c] = @ \/ n < Pieces],
             UNCHANGED <<link, up>>
      PROVE  ServiceInv'
  <2>1. Filled(c, n) \in [1..Pieces -> Text]
    BY <1>3, <1>6 DEF Filled
  <2>2. SubSeq(down[c], n + 1, Len(down[c])) \in Seq(Text)
    <3>1. \A i \in (n + 1)..Len(down[c]) : down[c][i] \in Text
      BY <1>3
    <3> QED BY <1>3, <3>1, SubSeqProperties
  <2>3. /\ down'[c] = SubSeq(down[c], n + 1, Len(down[c]))
        /\ cut[c] => cut'[c]
        /\ n < Pieces => cut'[c]
        /\ \A d \in Client \ {c} : down'[d] = down[d] /\ cut'[d] = cut[d]
    BY <1>2, <1>6 DEF TypeOK
  <2>4. /\ at'[c] = IF Len(shown[c]) = 0 THEN "send" ELSE "bye"
        /\ Len(shown[c]) \in {0, 1} /\ Len(shown'[c]) = Len(shown[c]) + 1
        /\ shown' \in [Client -> Seq([1..Pieces -> Text])]
        /\ timeRespond' \in [Client -> [1..Pieces -> Text]]
        /\ at' \in [Client -> {"connect", "send", "receive", "bye", "close", "done", "failed", "killed"}]
        /\ Right(c) /\ Filled(c, n) = Full(Zone(c)) => Right(c)'
        /\ \A d \in Client \ {c} : at'[d] = at[d] /\ shown'[d] = shown[d]
    BY <1>1, <1>6, <2>1, ShownStep
  <2>5. TypeOK'
    <3>1. down' \in [Client -> Seq(Text)]
      BY <1>2, <1>6, <2>2 DEF TypeOK
    <3>2. cut' \in [Client -> BOOLEAN]
      BY <1>2, <1>6 DEF TypeOK
    <3> QED BY <1>1, <1>2, <1>6, <2>4, <3>1, <3>2 DEF TypeOK, serverVars
  <2>6. QueueInv'
    <3>1. \A d \in Client : at'[d] = "connect" => link'[d] = "none"
      <4>1. at'[c] # "connect" /\ UNCHANGED link
        BY <1>6, <2>4
      <4> QED BY <1>2, <2>4, <4>1 DEF QueueInv
    <3>2. \A d \in Client : at'[d] \in {"connect", "send", "receive"} => Len(shown'[d]) \in {0, 1}
      <4>1. at'[c] \in {"connect", "send", "receive"} => Len(shown'[c]) \in {0, 1}
        BY <2>4
      <4> QED BY <1>2, <2>4, <4>1 DEF QueueInv
    <3> QED BY <1>1, <1>2, <1>4, <1>6, <3>1, <3>2 DEF QueueInv, Serving, serverVars
  <2>7. ~ Excused(c) /\ n = Pieces =>
            /\ up[c] = <<>> /\ serving = c /\ server = "receive"
            /\ down'[c] = <<>> /\ Filled(c, n) = Full(Zone(c))
    <3> SUFFICES ASSUME ~ Excused(c), n = Pieces
                 PROVE  /\ up[c] = <<>> /\ serving = c /\ server = "receive"
                        /\ down'[c] = <<>> /\ Filled(c, n) = Full(Zone(c))
      OBVIOUS
    <3>1. down[c] # <<>>
      BY <1>6, EmptySeq
    <3>2. /\ up[c] = <<>> /\ serving = c /\ server = "receive" /\ down[c] = Full(Zone(c))
      BY <1>5, <3>1 DEF Asked
    <3>4. PICK h : h = createTimeRespond(Zone(c))
      OBVIOUS
    <3>5. down[c] = [i \in 1..Pieces |-> h] /\ Full(Zone(c)) = [i \in 1..Pieces |-> h]
      BY <3>2, <3>4 DEF Full
    <3>6. Len(down[c]) = Pieces
      <4>1. DOMAIN down[c] = 1..Pieces /\ DOMAIN down[c] = 1..Len(down[c])
        BY <1>3, <3>5, LenProperties
      <4> QED BY <1>3, <4>1
    <3>7. down'[c] = <<>>
      BY <2>3, <3>6, SubSeqEmpty
    <3>8. Filled(c, n) = [i \in 1..Pieces |-> h]
      BY <3>5 DEF Filled
    <3> QED BY <3>2, <3>5, <3>7, <3>8
  <2>8. cut[c] \/ link[c] = "invalid" \/ ServerEnded \/ n < Pieces => Excused(c)'
    BY <1>1, <1>6, <2>3 DEF Excused, ServerEnded, serverVars
  <2>9. Phase(c)'
    <3>1. CASE ~ Excused(c) /\ n = Pieces
      <4>1. Quiet(c)'
        BY <1>1, <1>6, <2>7, <3>1 DEF Quiet, Waiting, serverVars
      <4> QED BY <1>5, <1>6, <2>4, <3>1, <4>1 DEF Phase
    <3> QED BY <1>5, <2>8, <3>1 DEF Phase
  <2>10. Answered(c)'
    BY <1>1, <1>5, <1>6, <2>3, <2>4, <2>7 DEF Answered, ServerEnded, serverVars
  <2> QED
    BY <1>1, <1>4, <1>6, <2>3, <2>4, <2>5, <2>6, <2>9, <2>10, ClientEffect DEF serverVars
<1>7. CASE /\ link[c] \in {"invalid", "server_closed", "reset"}
           /\ Prints(c, timeRespond[c]) /\ UNCHANGED <<cut, netVars>>
  <2>1. /\ at'[c] = IF Len(shown[c]) = 0 THEN "send" ELSE "bye"
        /\ Len(shown[c]) \in {0, 1} /\ Len(shown'[c]) = Len(shown[c]) + 1
        /\ shown' \in [Client -> Seq([1..Pieces -> Text])]
        /\ timeRespond' \in [Client -> [1..Pieces -> Text]]
        /\ at' \in [Client -> {"connect", "send", "receive", "bye", "close", "done", "failed", "killed"}]
        /\ \A d \in Client \ {c} : at'[d] = at[d] /\ shown'[d] = shown[d]
    BY <1>1, <1>3, <1>7, ShownStep
  <2>2. TypeOK'
    BY <1>1, <1>2, <1>7, <2>1 DEF TypeOK, serverVars, netVars
  <2>3. QueueInv'
    <3>1. \A d \in Client : at'[d] = "connect" => link'[d] = "none"
      <4>1. at'[c] # "connect" /\ UNCHANGED link
        BY <1>7, <2>1 DEF netVars
      <4> QED BY <1>2, <2>1, <4>1 DEF QueueInv
    <3>2. \A d \in Client : at'[d] \in {"connect", "send", "receive"} => Len(shown'[d]) \in {0, 1}
      <4>1. at'[c] \in {"connect", "send", "receive"} => Len(shown'[c]) \in {0, 1}
        BY <2>1
      <4> QED BY <1>2, <2>1, <4>1 DEF QueueInv
    <3> QED BY <1>1, <1>2, <1>4, <1>7, <3>1, <3>2 DEF QueueInv, Serving, serverVars, netVars
  <2>4. cut[c] \/ link[c] = "invalid" \/ ServerEnded
    BY <1>5, <1>7
  <2>5. Phase(c)' /\ Answered(c)'
    BY <1>1, <1>7, <2>4 DEF Phase, Excused, Answered, ServerEnded, serverVars, netVars
  <2> QED
    BY <1>1, <1>4, <1>7, <2>1, <2>2, <2>3, <2>5, ClientEffect DEF serverVars, netVars
<1>8. CASE link[c] = "reset" /\ ClientEnds(c, "failed") /\ UNCHANGED <<timeRespond, shown, cut>>
  <2>1. /\ TypeOK' /\ QueueInv' /\ at'[c] = "failed" /\ up' = up
        /\ link'[c] = link[c]
        /\ \A d \in Client \ {c} :
              at'[d] = at[d] /\ link'[d] = link[d] /\ down'[d] = down[d]
    BY <1>1, <1>8, ClientEndsEffect
  <2>2. cut[c] \/ ServerEnded
    BY <1>5, <1>8
  <2>3. Phase(c)' /\ Answered(c)'
    BY <1>1, <1>8, <2>2 DEF Phase, Excused, Answered, ServerEnded, serverVars
  <2> QED BY <1>1, <1>4, <1>8, <2>1, <2>3, ClientEffect DEF serverVars
<1> QED BY <1>6, <1>7, <1>8 DEF receiveTimeRespond

LEMMA EndStep ==
    ASSUME ServiceInv, NEW c \in Client, Close(c) \/ Killed(c)
    PROVE  ServiceInv'
<1>1. PICK how \in {"done", "killed"} :
          /\ ClientEnds(c, how) /\ (how = "done" => at[c] = "close") /\ at[c] # "killed"
          /\ UNCHANGED <<serverVars, timeRespond, shown, cut, gmt, exhausted>>
  BY DEF Close, Killed, Ended
<1>2. TypeOK /\ QueueInv /\ Phase(c) /\ Answered(c)
  BY DEF ServiceInv
<1>3. \A d : Pending(d)' <=> Pending(d)
  BY <1>1 DEF Pending, serverVars
<1>4. /\ TypeOK' /\ QueueInv' /\ at'[c] = how /\ up' = up
      /\ link[c] # "open" => link'[c] = link[c]
      /\ link[c] = "open" /\ down[c] = <<>> => link'[c] = "client_closed"
      /\ link[c] = "invalid" <=> link'[c] = "invalid"
      /\ \A d \in Client \ {c} :
            at'[d] = at[d] /\ link'[d] = link[d] /\ down'[d] = down[d]
  BY <1>1, ClientEndsEffect
<1>5. Answered(c)'
  BY <1>1, <1>2, <1>4 DEF Answered, Right, createTimeRespond, ServerEnded, serverVars
<1>6. Phase(c)'
  <2>1. CASE how = "killed"
    BY <1>4, <2>1 DEF Phase, Excused
  <2>2. CASE how = "done"
    <3>1. Excused(c) => Excused(c)'
      BY <1>1, <1>4 DEF Excused, ServerEnded, serverVars
    <3>2. (SaidGoodbye(c) => SaidGoodbye(c)') /\ (Gone(c) => Gone(c)')
      BY <1>1, <1>3, <1>4 DEF SaidGoodbye, Waiting, Gone, serverVars
    <3> QED BY <1>1, <1>2, <1>4, <2>2, <3>1, <3>2 DEF Phase
  <2> QED BY <2>1, <2>2
<1> QED BY <1>1, <1>3, <1>4, <1>5, <1>6, ClientEffect DEF serverVars

LEMMA NextInv == ServiceInv /\ [Next]_vars => ServiceInv'
<1> SUFFICES ASSUME ServiceInv, [Next]_vars PROVE ServiceInv'
  OBVIOUS
<1>1. ASSUME NEW c \in Client, Ask(c) PROVE ServiceInv'
  <2>1. Len(shown[c]) \in {0, 1} /\ at[c] = "send" /\ sendTimeRequest(c, Zone(c), "receive")
    BY <1>1 DEF Ask, Zone, ServiceInv, QueueInv
  <2>2. Zone(c) \in Timezone
    BY <2>1, ZoneType
  <2> QED BY <2>1, <2>2, SendStep
<1>2. ASSUME NEW c \in Client, Bye(c) PROVE ServiceInv'
  BY <1>2, ZonesType, SendStep DEF Bye
<1>3. CASE UNCHANGED vars
  <2>1. TypeOK' /\ QueueInv'
    BY <1>3 DEF vars, serverVars, clientVars, netVars, ServiceInv, TypeOK, QueueInv,
                Serving, Pending
  <2>2. \A c \in Client : Phase(c)' /\ Answered(c)'
    <3> TAKE c \in Client
    <3>1. Same(c)
      BY <1>3 DEF vars, serverVars, clientVars, netVars, Same, Pending
    <3> QED BY <1>3, <3>1, FrameClient DEF vars, serverVars, ServiceInv
  <2> QED BY <2>1, <2>2 DEF ServiceInv
<1> QED
  BY <1>1, <1>2, <1>3, ServerStep, ConnectStep, AnswerStep, EndStep
     DEF Next, ClientStep, Stopped

LEMMA Invariant == Spec => []ServiceInv
<1> QED BY InitInv, NextInv, PTL DEF Spec

-----------------------------------------------------------------------------
(* Every variable of server and clients has its type (timeServer.c,        *)
(* client.c).                                                              *)
THEOREM TypesKept == Spec => []TypeOK
<1>1. ServiceInv => TypeOK
  BY DEF ServiceInv
<1> QED BY <1>1, Invariant, PTL

-----------------------------------------------------------------------------
(* Pieces of answers, also of a client whose recv was cut short            *)

Questions(k) == {Zones[j] : j \in 1..k}

(* How many questions c can have under way or answered.                    *)
Asks(c) == IF at[c] \in {"connect", "send"} THEN Len(shown[c]) ELSE Len(shown[c]) + 1

(* What c has, and what is under way between it and the server, belongs to *)
(* questions it has asked.  An old request the server takes for a new one  *)
(* is answered into a connection that is no longer open.                   *)
Own(c) ==
    /\ \A i \in 1..Pieces : timeRespond[c][i] \in Hours(Len(shown[c])) \cup {NoText}
    /\ \A k \in DOMAIN shown[c], i \in 1..Pieces : shown[c][k][i] \in Hours(k) \cup {NoText}
    /\ \A i \in 1..Len(down[c]) : down[c][i] \in Hours(Asks(c))
    /\ \A i \in 1..Len(up[c]) : up[c][i] \in Questions(Asks(c)) \cup {Goodbye}
    /\ serving = c /\ server = "respond" /\ link[c] = "open" => timeRequest \in Questions(Asks(c))

OwnInv == \A c \in Client : Own(c)

LEMMA MoreHours ==
    ASSUME NEW k \in Nat, NEW l \in Nat, k <= l
    PROVE  Hours(k) \subseteq Hours(l) /\ Questions(k) \subseteq Questions(l)
BY DEF Hours, Questions

LEMMA HourOfQuestion ==
    ASSUME NEW k \in Nat, NEW zone \in Questions(k)
    PROVE  createTimeRespond(zone) \in Hours(k)
BY DEF Hours, Questions

LEMMA AsksNat ==
    ASSUME TypeOK, NEW c \in Client
    PROVE  Asks(c) \in Nat /\ Len(shown[c]) \in Nat /\ Len(shown[c]) <= Asks(c)
<1>1. Len(shown[c]) \in Nat
  BY LenProperties DEF TypeOK
<1> QED BY <1>1 DEF Asks

(* A step in which c prints nothing.                                       *)
LEMMA OwnStep ==
    ASSUME TypeOK, TypeOK', NEW c \in Client, Own(c), UNCHANGED gmt,
           shown'[c] = shown[c], timeRespond'[c] = timeRespond[c],
           at'[c] \in {"connect", "send"} => at[c] \in {"connect", "send"},
           \A i \in 1..Len(down'[c]) : down'[c][i] \in Hours(Asks(c)),
           \A i \in 1..Len(up'[c]) : up'[c][i] \in Questions(Asks(c))' \cup {Goodbye},
           serving' = c /\ server' = "respond" /\ link'[c] = "open" =>
               timeRequest' \in Questions(Asks(c))
    PROVE  Own(c)'
<1>1. /\ Asks(c) \in Nat /\ Asks(c)' \in Nat /\ Len(shown[c]) \in Nat
      /\ Asks(c) <= Asks(c)'
  <2>1. Len(shown[c]) \in Nat
    BY AsksNat
  <2> QED BY <2>1 DEF Asks
<1>2. \A k : Hours(k)' = Hours(k) /\ Questions(k)' = Questions(k)
  BY DEF Hours, Questions, createTimeRespond
<1>3. Hours(Asks(c)) \subseteq Hours(Asks(c)') /\ Questions(Asks(c)) \subseteq Questions(Asks(c)')
  BY <1>1, MoreHours
<1>4. \A i \in 1..Len(down'[c]) : down'[c][i] \in Hours(Asks(c))'
  BY <1>2, <1>3 DEF Hours, createTimeRespond
<1>5. serving' = c /\ server' = "respond" /\ link'[c] = "open" =>
          timeRequest' \in Questions(Asks(c))'
  BY <1>3 DEF Questions
<1>6. \A i \in 1..Pieces : timeRespond'[c][i] \in Hours(Len(shown[c]))' \cup {NoText}
  BY <1>2 DEF Own, Hours, createTimeRespond
<1>7. \A k \in DOMAIN shown'[c], i \in 1..Pieces : shown'[c][k][i] \in Hours(k)' \cup {NoText}
  BY <1>2 DEF Own
<1> QED BY <1>4, <1>5, <1>6, <1>7 DEF Own

(* A step that leaves c and its connection alone, but for its link.        *)
LEMMA OwnFrame ==
    ASSUME TypeOK, TypeOK', NEW c \in Client, Own(c), UNCHANGED gmt,
           shown'[c] = shown[c], timeRespond'[c] = timeRespond[c], at'[c] = at[c],
           up'[c] = up[c], down'[c] = down[c],
           serving' = c /\ server' = "respond" /\ link'[c] = "open" =>
               timeRequest' \in Questions(Asks(c))
    PROVE  Own(c)'
<1>1. Asks(c)' = Asks(c)
  BY DEF Asks
<1>2. \A i \in 1..Len(up'[c]) : up'[c][i] \in Questions(Asks(c))' \cup {Goodbye}
  BY <1>1 DEF Own, Questions
<1>3. \A i \in 1..Len(down'[c]) : down'[c][i] \in Hours(Asks(c))
  BY DEF Own
<1> QED BY <1>2, <1>3, OwnStep

LEMMA OwnInit == Init => OwnInv
<1> SUFFICES ASSUME Init, NEW c \in Client PROVE Own(c)
  BY DEF OwnInv
<1>1. shown[c] = <<>> /\ down[c] = <<>> /\ up[c] = <<>> /\ serving # c
  <2>1. serving # c
    BY DEF Init
  <2> QED BY <2>1 DEF Init
<1>2. \A i \in 1..Pieces : timeRespond[c][i] = NoText
  BY DEF Init
<1>3. DOMAIN shown[c] = {} /\ Len(down[c]) = 0 /\ Len(up[c]) = 0
  BY <1>1, EmptySeq
<1> QED BY <1>1, <1>2, <1>3 DEF Own

LEMMA OwnServer ==
    ASSUME ServiceInv, ServiceInv', OwnInv, Server \/ ServerCallFails \/ shutdownTimeServer
    PROVE  OwnInv'
<1>1. TypeOK /\ TypeOK' /\ QueueInv
  BY DEF ServiceInv
<1>2. CASE \/ createListenSocket \/ acceptConnection \/ closeConnection
           \/ ServerCallFails \/ shutdownTimeServer
  <2>1. UNCHANGED <<clientVars, up, down, gmt>> /\ server' # "respond"
    BY <1>2 DEF createListenSocket, acceptConnection, closeConnection, ServerCallFails,
                shutdownTimeServer, ServerEnds, netVars
  <2> QED BY <1>1, <2>1, OwnFrame DEF OwnInv, clientVars
<1>3. CASE receiveTimeRequest
  <2>1. server = "receive" /\ Serving
    BY <1>3 DEF receiveTimeRequest, Serving
  <2>2. PICK c \in Client : c = serving
    BY <2>1, ServedClient
  <2>3. UNCHANGED <<clientVars, down, gmt>>
    BY <1>3 DEF receiveTimeRequest, Received, ServerEnds
  <2>4. CASE ServerEnds("failed")
    <3>1. UNCHANGED up /\ server' # "respond"
      BY <2>4 DEF ServerEnds
    <3> QED BY <1>1, <2>3, <3>1, OwnFrame DEF OwnInv, clientVars
  <2>5. CASE link[c] = "client_closed" /\ UNCHANGED up /\ Received(timeRequest)
    <3>1. UNCHANGED <<serving, link>>
      BY <2>5 DEF Received
    <3>2. ASSUME NEW d \in Client PROVE ~ (serving' = d /\ link'[d] = "open")
      BY <2>2, <2>5, <3>1
    <3> QED BY <1>1, <2>3, <2>5, <3>2, OwnFrame DEF OwnInv, clientVars
  <2>6. CASE /\ up[c] # <<>> /\ up' = [up EXCEPT ![c] = Tail(@)]
             /\ Received(Head(up[c]))
    <3>1. /\ timeRequest' = Head(up[c]) /\ UNCHANGED serving
          /\ server' = "respond" => Head(up[c]) # Goodbye
      BY <2>6 DEF Received
    <3>2. up[c] \in Seq(Timezone) /\ up'[c] = Tail(up[c])
          /\ \A d \in Client \ {c} : up'[d] = up[d]
      BY <1>1, <2>2, <2>6 DEF TypeOK
    <3>3. /\ Head(up[c]) = up[c][1] /\ Len(up[c]) \in Nat \ {0}
          /\ Len(Tail(up[c])) = Len(up[c]) - 1
          /\ \A i \in 1..Len(Tail(up[c])) : Tail(up[c])[i] = up[c][i + 1]
      BY <2>6, <3>2, HeadTailProperties, EmptySeq
    <3>4. Asks(c)' = Asks(c)
      BY <2>3 DEF Asks, clientVars
    <3>5. \A i \in 1..Len(up'[c]) : up'[c][i] \in Questions(Asks(c))' \cup {Goodbye}
      <4>1. \A i \in 1..Len(up'[c]) : i + 1 \in 1..Len(up[c])
        BY <3>2, <3>3
      <4>2. \A i \in 1..Len(up[c]) : up[c][i] \in Questions(Asks(c)) \cup {Goodbye}
        BY <2>2 DEF OwnInv, Own
      <4> QED BY <3>2, <3>3, <3>4, <4>1, <4>2 DEF Questions
    <3>6. server' = "respond" => timeRequest' \in Questions(Asks(c))
      BY <2>2, <3>1, <3>3 DEF OwnInv, Own
    <3>7. Own(c)'
      <4>1. \A i \in 1..Len(down'[c]) : down'[c][i] \in Hours(Asks(c))
        BY <2>2, <2>3 DEF OwnInv, Own
      <4>2. shown'[c] = shown[c] /\ timeRespond'[c] = timeRespond[c] /\ at'[c] = at[c]
        BY <2>3 DEF clientVars
      <4>3. Own(c) /\ UNCHANGED gmt
        BY <2>2, <2>3 DEF OwnInv
      <4> QED BY <1>1, <2>2, <3>5, <3>6, <4>1, <4>2, <4>3, OwnStep
    <3>8. \A d \in Client \ {c} : Own(d)'
      BY <1>1, <2>2, <2>3, <3>1, <3>2, OwnFrame DEF OwnInv, clientVars
    <3> QED BY <3>7, <3>8 DEF OwnInv
  <2> QED BY <1>3, <2>2, <2>4, <2>5, <2>6 DEF receiveTimeRequest
<1>4. CASE sendTimeRespond
  <2>1. server = "respond" /\ Serving
    BY <1>4 DEF sendTimeRespond, Serving
  <2>2. PICK c \in Client : c = serving
    BY <2>1, ServedClient
  <2>3. UNCHANGED <<clientVars, up, gmt>> /\ server' # "respond"
    BY <1>4 DEF sendTimeRespond, ServerEnds
  <2>4. CASE link[c] # "open"
    <3>1. UNCHANGED down
      BY <1>4, <2>2, <2>4 DEF sendTimeRespond, ServerEnds
    <3> QED BY <1>1, <2>3, <3>1, OwnFrame DEF OwnInv, clientVars
  <2>5. CASE link[c] = "open"
    <3>1. down' = [down EXCEPT ![c] = @ \o Full(timeRequest)]
      BY <1>4, <2>2, <2>5 DEF sendTimeRespond, Full
    <3>2. down[c] \in Seq(Text) /\ down'[c] = down[c] \o Full(timeRequest)
          /\ \A d \in Client \ {c} : down'[d] = down[d]
      BY <1>1, <2>2, <3>1 DEF TypeOK
    <3>3. Asks(c) \in Nat /\ timeRequest \in Questions(Asks(c))
      BY <1>1, <2>1, <2>2, <2>5, AsksNat DEF OwnInv, Own
    <3>4. Full(timeRequest) \in Seq(Hours(Asks(c))) /\ Full(timeRequest) \in Seq(Text)
      <4>1. Full(timeRequest) \in [1..Pieces -> Hours(Asks(c))]
        BY <3>3, HourOfQuestion DEF Full
      <4>2. Full(timeRequest) \in [1..Pieces -> Text]
        BY <1>1, HourSent DEF Full, TypeOK
      <4> QED BY <4>1, <4>2, SeqDef
    <3>5. down[c] \in Seq(Hours(Asks(c)))
      <4>1. /\ down[c] \in [1..Len(down[c]) -> Text] /\ Len(down[c]) \in Nat
            /\ \A i \in 1..Len(down[c]) : down[c][i] \in Hours(Asks(c))
        BY <2>2, <3>2, LenProperties DEF OwnInv, Own
      <4>2. down[c] \in [1..Len(down[c]) -> Hours(Asks(c))]
        BY <4>1
      <4> QED BY <4>1, <4>2, SeqDef
    <3>6. \A i \in 1..Len(down'[c]) : down'[c][i] \in Hours(Asks(c))
      <4>1. down'[c] \in Seq(Hours(Asks(c)))
        BY <3>2, <3>4, <3>5, ConcatProperties
      <4> QED BY <4>1, ElementOfSeq
    <3>7. Own(c)'
      <4>1. shown'[c] = shown[c] /\ timeRespond'[c] = timeRespond[c] /\ at'[c] = at[c]
        BY <2>3 DEF clientVars
      <4>2. Own(c) /\ UNCHANGED gmt /\ Asks(c)' = Asks(c) /\ up'[c] = up[c]
        BY <2>2, <2>3, <4>1 DEF OwnInv, Asks
      <4>3. \A i \in 1..Len(up'[c]) : up'[c][i] \in Questions(Asks(c))' \cup {Goodbye}
        BY <4>2 DEF Own, Questions
      <4> QED BY <1>1, <2>2, <2>3, <3>6, <4>1, <4>2, <4>3, OwnStep
    <3>8. \A d \in Client \ {c} : Own(d)'
      BY <1>1, <2>2, <2>3, <3>2, OwnFrame DEF OwnInv, clientVars
    <3> QED BY <3>7, <3>8 DEF OwnInv
  <2> QED BY <2>4, <2>5
<1> QED BY <1>2, <1>3, <1>4 DEF Server

(* A step of client c leaves what is the others' alone.                    *)
LEMMA OwnOthers ==
    ASSUME TypeOK, TypeOK', NEW c \in Client, OwnInv, Own(c)',
           UNCHANGED <<server, serving, timeRequest, gmt>>,
           \A d \in Client \ {c} :
               /\ at'[d] = at[d] /\ shown'[d] = shown[d] /\ timeRespond'[d] = timeRespond[d]
               /\ link'[d] = link[d] /\ up'[d] = up[d] /\ down'[d] = down[d]
    PROVE  OwnInv'
<1> SUFFICES ASSUME NEW d \in Client \ {c} PROVE Own(d)'
  BY DEF OwnInv
<1>1. Own(d)
  BY DEF OwnInv
<1>2. serving' = d /\ server' = "respond" /\ link'[d] = "open" =>
          timeRequest' \in Questions(Asks(d))
  BY <1>1 DEF Own
<1> QED BY <1>1, <1>2, OwnFrame

(* Requests: what is sent is the next question, or the goodbye.            *)
LEMMA OwnSend ==
    ASSUME ServiceInv, ServiceInv', OwnInv, NEW c \in Client, Ask(c) \/ Bye(c)
    PROVE  OwnInv'
<1>1. TypeOK /\ TypeOK' /\ Own(c) /\ Len(shown[c]) \in Nat /\ up[c] \in Seq(Timezone)
  BY AsksNat DEF ServiceInv, OwnInv, TypeOK
<1>2. PICK zone \in Timezone, next \in {"receive", "close"} :
          /\ sendTimeRequest(c, zone, next)
          /\ \/ at[c] = "send" /\ next = "receive" /\ zone = Zones[Len(shown[c]) + 1]
             \/ at[c] = "bye" /\ zone = Goodbye
  <2>1. CASE Ask(c)
    <3>1. Len(shown[c]) \in {0, 1} /\ at[c] = "send"
          /\ sendTimeRequest(c, Zone(c), "receive")
      BY <2>1 DEF Ask, Zone, ServiceInv, QueueInv
    <3>2. Zone(c) \in Timezone
      BY <3>1, ZoneType
    <3> QED BY <3>1, <3>2 DEF Zone
  <2>2. CASE Bye(c)
    BY <2>2, ZonesType DEF Bye
  <2> QED BY <2>1, <2>2
<1>3. UNCHANGED <<serverVars, timeRespond, shown, cut, gmt, exhausted>>
  BY <1>2 DEF sendTimeRequest
<1>4. \A d \in Client \ {c} :
          at'[d] = at[d] /\ link'[d] = link[d] /\ up'[d] = up[d] /\ down'[d] = down[d]
  BY <1>1, <1>2 DEF sendTimeRequest, ClientEnds, TypeOK, netVars
<1>5. /\ at'[c] \in {next, "killed"} /\ (link'[c] = "open" => link[c] = "open")
      /\ down'[c] \in {down[c], <<>>}
      /\ \/ up'[c] = up[c]
         \/ at'[c] = next /\ up'[c] = Append(up[c], zone)
  BY <1>1, <1>2 DEF sendTimeRequest, ClientEnds, TypeOK, netVars
<1>6. /\ Asks(c) \in Nat /\ Asks(c)' \in Nat /\ Asks(c) <= Asks(c)'
      /\ at'[c] = next => zone \in Questions(Asks(c)') \cup {Goodbye}
  <2>1. Asks(c) = IF at[c] = "send" THEN Len(shown[c]) ELSE Len(shown[c]) + 1
    BY <1>2 DEF Asks
  <2>2. Asks(c)' = Len(shown[c]) + 1
    BY <1>3, <1>5 DEF Asks
  <2>3. Zones[Len(shown[c]) + 1] \in Questions(Len(shown[c]) + 1)
    BY <1>1 DEF Questions
  <2> QED BY <1>1, <1>2, <2>1, <2>2, <2>3
<1>7. \A i \in 1..Len(up'[c]) : up'[c][i] \in Questions(Asks(c))' \cup {Goodbye}
  <2>1. \A i \in 1..Len(up[c]) : up[c][i] \in Questions(Asks(c)') \cup {Goodbye}
    <3>1. Questions(Asks(c)) \subseteq Questions(Asks(c)')
      BY <1>6, MoreHours
    <3> QED BY <1>1, <3>1 DEF Own
  <2>2. CASE up'[c] = up[c]
    BY <2>1, <2>2 DEF Questions
  <2>3. CASE at'[c] = next /\ up'[c] = Append(up[c], zone)
    <3>1. \A i \in 1..Len(up'[c]) :
              \/ i \in 1..Len(up[c]) /\ up'[c][i] = up[c][i]
              \/ up'[c][i] = zone
      BY <1>1, <1>2, <2>3, AppendProperties
    <3> QED BY <1>6, <2>1, <2>3, <3>1 DEF Questions
  <2> QED BY <1>5, <2>2, <2>3
<1>8. \A i \in 1..Len(down'[c]) : down'[c][i] \in Hours(Asks(c))
  BY <1>1, <1>5, EmptySeq DEF Own
<1>9. serving' = c /\ server' = "respond" /\ link'[c] = "open" => timeRequest' \in Questions(Asks(c))
  BY <1>1, <1>3, <1>5 DEF Own, serverVars
<1>10. at'[c] \notin {"connect", "send"}
  BY <1>5
<1>11. Own(c)'
  BY <1>1, <1>3, <1>7, <1>8, <1>9, <1>10, OwnStep
<1> QED BY <1>1, <1>3, <1>4, <1>11, OwnOthers DEF serverVars

(* A new connection, and the end of a client.                              *)
LEMMA OwnEnds ==
    ASSUME ServiceInv, ServiceInv', OwnInv, NEW c \in Client,
           connectToTimeServer(c) \/ Close(c) \/ Killed(c)
    PROVE  OwnInv'
<1>1. TypeOK /\ TypeOK' /\ QueueInv /\ Own(c)
  BY DEF ServiceInv, OwnInv
<1>2. UNCHANGED <<server, serving, timeRequest, timeRespond, shown, up, gmt>>
  BY DEF connectToTimeServer, Close, Killed, ClientEnds, serverVars
<1>3. \A d \in Client \ {c} : at'[d] = at[d] /\ link'[d] = link[d] /\ down'[d] = down[d]
  BY <1>1 DEF connectToTimeServer, Close, Killed, ClientEnds, TypeOK
<1>4. /\ \/ at[c] = "connect" /\ at'[c] = "send"
         \/ at'[c] \notin {"connect", "send"}
      /\ down'[c] \in {down[c], <<>>}
      /\ link'[c] = "open" => link[c] = "open" \/ serving # c
  BY <1>1 DEF connectToTimeServer, Close, Killed, ClientEnds, TypeOK, QueueInv
<1>5. \A i \in 1..Len(down'[c]) : down'[c][i] \in Hours(Asks(c))
  BY <1>1, <1>4, EmptySeq DEF Own
<1>6. \A i \in 1..Len(up'[c]) : up'[c][i] \in Questions(Asks(c))' \cup {Goodbye}
  <2>1. Asks(c) \in Nat /\ Asks(c)' \in Nat /\ Asks(c) <= Asks(c)'
    <3>1. Len(shown[c]) \in Nat
      BY <1>1, AsksNat
    <3> QED BY <1>2, <1>4, <3>1 DEF Asks
  <2>2. Questions(Asks(c)) \subseteq Questions(Asks(c)')
    BY <2>1, MoreHours
  <2>3. \A i \in 1..Len(up[c]) : up[c][i] \in Questions(Asks(c)') \cup {Goodbye}
    BY <1>1, <2>2 DEF Own
  <2> QED BY <1>2, <2>3 DEF Questions
<1>7. serving' = c /\ server' = "respond" /\ link'[c] = "open" => timeRequest' \in Questions(Asks(c))
  BY <1>1, <1>2, <1>4 DEF Own
<1>8. Own(c)'
  BY <1>1, <1>2, <1>4, <1>5, <1>6, <1>7, OwnStep
<1> QED BY <1>1, <1>2, <1>3, <1>8, OwnOthers

(* What is printed: pieces of answers to the questions asked so far, or    *)
(* what the buffer has held before.                                        *)
LEMMA OwnAnswer ==
    ASSUME ServiceInv, ServiceInv', OwnInv, NEW c \in Client, receiveTimeRespond(c)
    PROVE  OwnInv'
<1> DEFINE n == Len(shown[c])
<1>1. TypeOK /\ TypeOK' /\ QueueInv /\ Own(c) /\ n \in {0, 1} /\ at[c] = "receive"
  BY DEF ServiceInv, OwnInv, receiveTimeRespond, QueueInv
<1>2. /\ UNCHANGED <<server, serving, timeRequest, gmt, up>> /\ Asks(c) = n + 1
      /\ timeRespond[c] \in [1..Pieces -> Text] /\ down[c] \in Seq(Text) /\ Len(down[c]) \in Nat
      /\ shown[c] \in Seq([1..Pieces -> Text])
  BY <1>1, LenProperties
     DEF receiveTimeRespond, ClientEnds, serverVars, netVars, Asks, TypeOK
<1>3. \A k : Hours(k)' = Hours(k) /\ Questions(k)' = Questions(k)
  BY <1>2 DEF Hours, Questions, createTimeRespond
<1>4. Hours(n) \subseteq Hours(n + 1)
  BY <1>1, MoreHours
<1>5. ASSUME NEW text \in [1..Pieces -> Text], Prints(c, text), UNCHANGED link,
             \A i \in 1..Pieces : text[i] \in Hours(n + 1) \cup {NoText},
             down' \in [Client -> Seq(Text)],
             \A d \in Client \ {c} : down'[d] = down[d],
             \A i \in 1..Len(down'[c]) : down'[c][i] \in Hours(n + 1)
      PROVE  OwnInv'
  <2>1. /\ at'[c] = IF n = 0 THEN "send" ELSE "bye"
        /\ Len(shown'[c]) = n + 1
        /\ \A d \in Client \ {c} : at'[d] = at[d] /\ shown'[d] = shown[d]
    BY <1>1, <1>2, <1>5, ShownStep
  <2>2. /\ shown'[c] = Append(shown[c], text) /\ timeRespond'[c] = text
        /\ \A d \in Client \ {c} : timeRespond'[d] = timeRespond[d]
    BY <1>1, <1>5 DEF Prints, TypeOK
  <2>3. /\ \A k \in 1..n : shown'[c][k] = shown[c][k]
        /\ shown'[c][n + 1] = text
        /\ DOMAIN shown[c] = 1..n /\ DOMAIN shown'[c] = 1..(n + 1)
    <3>1. shown'[c] \in Seq([1..Pieces -> Text])
      BY <1>1 DEF TypeOK
    <3> QED BY <1>2, <2>1, <2>2, <3>1, AppendProperties, LenProperties
  <2>4. Asks(c)' \in Nat /\ n + 1 <= Asks(c)'
    BY <1>1, <2>1 DEF Asks
  <2>5. Hours(n + 1) \subseteq Hours(Asks(c)') /\ Questions(n + 1) \subseteq Questions(Asks(c)')
    BY <1>1, <2>4, MoreHours
  <2>6. \A k \in DOMAIN shown'[c], i \in 1..Pieces : shown'[c][k][i] \in Hours(k)' \cup {NoText}
    <3> TAKE k \in DOMAIN shown'[c], i \in 1..Pieces
    <3>1. CASE k \in 1..n
      BY <1>1, <1>3, <2>3, <3>1 DEF Own
    <3>2. CASE k = n + 1
      BY <1>3, <1>5, <2>3, <3>2
    <3> QED BY <1>1, <2>3, <3>1, <3>2
  <2>7. \A i \in 1..Pieces : timeRespond'[c][i] \in Hours(Len(shown[c]))' \cup {NoText}
    <3>1. Hours(Len(shown[c]))' = Hours(n + 1)
      BY <1>2, <2>1 DEF Hours, createTimeRespond
    <3> QED BY <1>5, <2>2, <3>1
  <2>8. \A i \in 1..Len(down'[c]) : down'[c][i] \in Hours(Asks(c))'
    BY <1>2, <1>5, <2>5 DEF Hours, createTimeRespond
  <2>9. \A i \in 1..Len(up'[c]) : up'[c][i] \in Questions(Asks(c))' \cup {Goodbye}
    BY <1>1, <1>2, <2>5 DEF Own, Questions
  <2>10. serving' = c /\ server' = "respond" /\ link'[c] = "open" =>
             timeRequest' \in Questions(Asks(c))'
    BY <1>1, <1>2, <1>5, <2>5 DEF Own, Questions
  <2>11. Own(c)'
    BY <2>6, <2>7, <2>8, <2>9, <2>10 DEF Own
  <2> QED BY <1>1, <1>2, <1>5, <2>1, <2>2, <2>11, OwnOthers
<1>6. ASSUME NEW m \in 1..Pieces, m <= Len(down[c]), Prints(c, Filled(c, m)),
             down' = [down EXCEPT ![c] = SubSeq(@, m + 1, Len(@))], UNCHANGED link
      PROVE  OwnInv'
  <2>1. \A i \in 1..Len(down[c]) : down[c][i] \in Text /\ down[c][i] \in Hours(n + 1)
    BY <1>1, <1>2, ElementOfSeq DEF Own
  <2>2. Filled(c, m) \in [1..Pieces -> Text]
    BY <1>2, <1>6, <2>1 DEF Filled
  <2>3. \A i \in 1..Pieces : Filled(c, m)[i] \in Hours(n + 1) \cup {NoText}
    BY <1>1, <1>2, <1>4, <1>6, <2>1 DEF Filled, Own
  <2>4. /\ down'[c] = SubSeq(down[c], m + 1, Len(down[c]))
        /\ \A d \in Client \ {c} : down'[d] = down[d]
    BY <1>1, <1>6 DEF TypeOK
  <2>5. \A i \in 1..Len(down'[c]) : down'[c][i] \in Hours(n + 1)
    <3>1. \A i \in (m + 1)..Len(down[c]) : down[c][i] \in Hours(n + 1)
      BY <1>2, <2>1
    <3>2. down'[c] \in Seq(Hours(n + 1))
      BY <1>2, <2>4, <3>1, SubSeqProperties
    <3> QED BY <3>2, ElementOfSeq
  <2> QED BY <1>1, <1>5, <1>6, <2>2, <2>3, <2>4, <2>5 DEF TypeOK
<1>7. CASE Prints(c, timeRespond[c]) /\ UNCHANGED netVars
  <2>1. \A i \in 1..Pieces : timeRespond[c][i] \in Hours(n + 1) \cup {NoText}
    BY <1>1, <1>4 DEF Own
  <2>2. \A i \in 1..Len(down[c]) : down[c][i] \in Hours(n + 1)
    BY <1>1, <1>2 DEF Own
  <2> QED BY <1>1, <1>2, <1>5, <1>7, <2>1, <2>2 DEF TypeOK, netVars
<1>8. CASE link[c] = "reset" /\ ClientEnds(c, "failed") /\ UNCHANGED <<timeRespond, shown, cut>>
  <2>1. /\ at'[c] = "failed" /\ down'[c] = <<>> /\ link'[c] = "reset"
        /\ \A d \in Client \ {c} : at'[d] = at[d] /\ link'[d] = link[d] /\ down'[d] = down[d]
    BY <1>1, <1>8 DEF ClientEnds, TypeOK
  <2>2. Asks(c)' = Asks(c)
    BY <1>1, <1>8, <2>1 DEF Asks
  <2>3. \A i \in 1..Len(up'[c]) : up'[c][i] \in Questions(Asks(c))' \cup {Goodbye}
    BY <1>1, <1>2, <2>2 DEF Own, Questions
  <2>4. \A i \in 1..Len(down'[c]) : down'[c][i] \in Hours(Asks(c))
    BY <2>1, EmptySeq
  <2>5. Own(c)'
    BY <1>1, <1>2, <1>8, <2>1, <2>3, <2>4, OwnStep
  <2> QED BY <1>1, <1>2, <1>8, <2>1, <2>5, OwnOthers
<1> QED BY <1>6, <1>7, <1>8 DEF receiveTimeRespond

LEMMA OwnNext == ASSUME ServiceInv, ServiceInv', OwnInv, [Next]_vars PROVE OwnInv'
<1>1. CASE Stopped \/ UNCHANGED vars
  <2>1. UNCHANGED vars /\ TypeOK /\ TypeOK'
    BY <1>1 DEF Stopped, ServiceInv
  <2>2. \A c \in Client : Own(c)'
    <3> TAKE c \in Client
    <3>1. Own(c)
      BY DEF OwnInv
    <3>2. serving' = c /\ server' = "respond" /\ link'[c] = "open" =>
              timeRequest' \in Questions(Asks(c))
      BY <2>1, <3>1 DEF Own, vars, serverVars, netVars
    <3> QED BY <2>1, <3>1, <3>2, OwnFrame DEF vars, clientVars, netVars
  <2> QED BY <2>2 DEF OwnInv
<1> QED BY <1>1, OwnServer, OwnSend, OwnEnds, OwnAnswer DEF Next, ClientStep

(* Nothing foreign reaches a client, also if its recv is cut short or the  *)
(* server ends.                                                            *)
LEMMA OwnAlways == Spec => []OwnInv
<1>1. ServiceInv /\ ServiceInv' /\ OwnInv /\ [Next]_vars => OwnInv'
  BY OwnNext
<1> QED BY <1>1, OwnInit, Invariant, PTL DEF Spec

(* What the server does when it fails (timeServer.c:97-98, 124-125).       *)
LEMMA FailStep ==
    ASSUME ServiceInv, [Next]_vars, server # "failed", server' = "failed"
    PROVE  \/ ~ exhausted /\ exhausted'
           \/ serving \in Client /\ Broken(serving)
<1>1. CASE receiveTimeRequest
  <2>1. server = "receive" /\ Serving /\ up[serving] = <<>> /\ link[serving] = "reset"
    BY <1>1 DEF receiveTimeRequest, Received, Serving
  <2>2. /\ serving \in Client /\ Phase(serving) /\ ~ Gone(serving) /\ at[serving] # "connect"
        /\ Excused(serving) => Broken(serving)
    BY <2>1, ServedClient
  <2> QED BY <2>1, <2>2 DEF Phase
<1>2. CASE sendTimeRespond
  <2>1. server = "respond" /\ Serving /\ link[serving] \notin {"open", "client_closed"}
    BY <1>2 DEF sendTimeRespond, Serving
  <2>2. /\ serving \in Client /\ Phase(serving) /\ ~ Gone(serving) /\ at[serving] # "connect"
        /\ link[serving] # "refused"
        /\ Excused(serving) => Broken(serving)
    BY <2>1, ServedClient
  <2> QED BY <2>1, <2>2 DEF Phase
<1>3. CASE ServerCallFails
  BY <1>3 DEF ServerCallFails
<1>4. CASE createListenSocket \/ acceptConnection \/ closeConnection \/ shutdownTimeServer
  BY <1>4 DEF createListenSocket, acceptConnection, closeConnection, shutdownTimeServer, ServerEnds
<1>5. ASSUME NEW c \in Client, ClientStep(c) \/ Killed(c) PROVE UNCHANGED server
  BY <1>5 DEF ClientStep, Killed, connectToTimeServer, Ask, Bye, sendTimeRequest,
              receiveTimeRespond, Close, serverVars
<1>6. CASE Stopped \/ UNCHANGED vars
  BY <1>6 DEF Stopped, vars, serverVars
<1> QED BY <1>1, <1>2, <1>3, <1>4, <1>5, <1>6 DEF Next, Server

(* Answers match questions.  The k-th text a client shows is the respond   *)
(* to its k-th request, unless its own recv was cut short, its socket is   *)
(* none or the server has ended; and even then no piece of it belongs to a *)
(* later request or to another client: requests and answers of different   *)
(* connections are never mixed up, although the server clears neither      *)
(* request nor buffer (client.c:57-59, 71-82, timeServer.c:139-164).       *)
THEOREM AnswersStayOwn == Spec => []AnswersAreOwn
<1>1. ServiceInv /\ OwnInv => AnswersAreOwn
  BY DEF ServiceInv, Answered, AnswersAreOwn, OwnInv, Own
<1> QED BY <1>1, Invariant, OwnAlways, PTL

(* The server fails in no call but one short of resources, or one on the   *)
(* connection of a client that was killed or whose own recv was cut short: *)
(* it is the client served at that moment, never one served before or one  *)
(* that waits (timeServer.c:97-98, 124-125, 139-165).                      *)
THEOREM FailureHasACause == Spec => ServerFailsOnlyOnServed
<1>1. ServiceInv /\ [Next]_vars =>
          [server # "failed" /\ server' = "failed" =>
               \/ ~ exhausted /\ exhausted'
               \/ serving \in Client /\ (at[serving] = "killed" \/ cut[serving])]_vars
  BY FailStep DEF Broken
<1> QED BY <1>1, Invariant, PTL DEF Spec, ServerFailsOnlyOnServed
=============================================================================
