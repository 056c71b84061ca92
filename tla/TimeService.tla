----------------------------- MODULE TimeService -----------------------------
(***************************************************************************)
(* timeServer.c and client.c of "Blatt 3 - Prozessinteraktion mit          *)
(* Sockets": a server that serves one connection after another, and        *)
(* clients that ask for the time in two time zones and say goodbye.  Both  *)
(* sides ignore a recv that returns 0 or less than they asked for.         *)
(*                                                                         *)
(* The connections are TCP over the loopback device: what has been sent    *)
(* stays readable after the other end is closed; then recv returns 0; data *)
(* sent to, or left unread by, a closed end resets the connection; recv    *)
(* then fails, and send fails or kills the process with SIGPIPE.           *)
(***************************************************************************)
EXTENDS Integers, Sequences

CONSTANTS
    Client,
    NoClient,
    Hour,          \* hours of the day (GMT) at which the system is looked at
    Garbage,       \* what the uninitialised timeRequest of the server may hold
    MaxPending,    \* connections that may wait for accept: listen(soc, 1)
    Pieces         \* a respond is delivered in at most this many pieces

Goodbye == 127     \* the magic number
Zones == <<1, -5>> \* the requests of client.c: CET, EST
Timezone == -128..127

ASSUME ServiceAssumption ==
    /\ NoClient \notin Client
    /\ Hour \subseteq 0..23
    /\ Garbage # {} /\ Garbage \subseteq Timezone
    /\ MaxPending \in Nat \ {0} /\ Pieces \in Nat \ {0}

VARIABLES
    server,        \* where the server is
    serving,       \* the client at the other end of connectSoc
    timeRequest,   \* the server's stack variable, never cleared
    pending,       \* connections not yet accepted
    at,            \* where a client is
    timeRespond,   \* a client's stack variable, never cleared
    shown,         \* what a client has printed
    cut,           \* a recv of the client has returned a part of a respond
    link,          \* state of a client's connection
    up, down,      \* what is under way to the server and to the client
    gmt,           \* the hour
    exhausted      \* a system call has failed for want of resources

serverVars == <<server, serving, timeRequest, pending>>
clientVars == <<at, timeRespond, shown, cut>>
netVars == <<link, up, down>>
vars == <<serverVars, clientVars, netVars, gmt, exhausted>>

NoText == 99       \* what is in a buffer nothing has been received into
Text == (-23)..23 \cup {NoText}

TypeOK ==
    /\ server \in {"start", "accept", "receive", "respond", "close", "exited", "failed"}
    /\ serving \in Client \cup {NoClient}
    /\ timeRequest \in Timezone
    /\ pending \in Seq(Client)
    /\ at \in [Client -> {"connect", "send", "receive", "bye", "close", "done", "failed", "killed"}]
    /\ timeRespond \in [Client -> [1..Pieces -> Text]]
    /\ shown \in [Client -> Seq([1..Pieces -> Text])]
    /\ cut \in [Client -> BOOLEAN]
    /\ link \in [Client -> {"none", "invalid", "refused", "open",
                            "client_closed", "server_closed", "reset"}]
    /\ up \in [Client -> Seq(Timezone)]
    /\ down \in [Client -> Seq(Text)]
    /\ gmt \in Hour
    /\ exhausted \in BOOLEAN

Init ==
    /\ server = "start"
    /\ serving = NoClient
    /\ timeRequest \in Garbage
    /\ pending = <<>>
    /\ at = [c \in Client |-> "connect"]
    /\ timeRespond = [c \in Client |-> [i \in 1..Pieces |-> NoText]]
    /\ shown = [c \in Client |-> <<>>]
    /\ cut = [c \in Client |-> FALSE]
    /\ link = [c \in Client |-> "none"]
    /\ up = [c \in Client |-> <<>>]
    /\ down = [c \in Client |-> <<>>]
    /\ gmt \in Hour
    /\ exhausted = FALSE

-----------------------------------------------------------------------------
(* The server                                                              *)

ServerEnded == server \in {"exited", "failed"}
Listening == ~ ServerEnded /\ server # "start"

(* The connection of c after the server has closed its end.                *)
ClosedByServer(c) ==
    IF link[c] # "open" THEN link[c]
    ELSE IF c = serving /\ up[c] = <<>> THEN "server_closed" ELSE "reset"

(* exit closes the listen socket, connectSoc and what waits for accept.    *)
ServerEnds(how) ==
    /\ server' = how
    /\ serving' = NoClient
    /\ pending' = <<>>
    /\ link' = [c \in Client |-> ClosedByServer(c)]
    /\ UNCHANGED <<timeRequest, up, down, clientVars, gmt>>

createListenSocket ==
    /\ server = "start"
    /\ server' = "accept"
    /\ UNCHANGED <<serving, timeRequest, pending, clientVars, netVars, gmt, exhausted>>

acceptConnection ==
    /\ server = "accept"
    /\ pending # <<>>
    /\ serving' = Head(pending)
    /\ pending' = Tail(pending)
    /\ server' = "receive"
    /\ UNCHANGED <<timeRequest, clientVars, netVars, gmt, exhausted>>

(* socket, getaddrinfo, bind, listen or accept has failed.                 *)
ServerCallFails ==
    /\ server \in {"start", "accept"}
    /\ ~ exhausted /\ exhausted' = TRUE
    /\ ServerEnds("failed")

Received_NoBreak(zone) ==        \* mutant: the magic number is not tested
    /\ timeRequest' = zone
    /\ server' = "respond"
    /\ UNCHANGED <<serving, pending, clientVars, link, down, gmt, exhausted>>

Received_Old(zone) ==            \* mutant: the request is received into a copy
    /\ server' = IF zone = Goodbye THEN "close" ELSE "respond"
    /\ UNCHANGED <<timeRequest, serving, pending, clientVars, link, down, gmt, exhausted>>

Received_Signed(zone) ==         \* mutant: zones below 0 are taken for errors
    /\ timeRequest' = zone
    /\ server' = IF zone = Goodbye THEN "close" ELSE IF zone < 0 THEN "receive" ELSE "respond"
    /\ UNCHANGED <<serving, pending, clientVars, link, down, gmt, exhausted>>

(* The test for the magic number: also of the old request, when recv has   *)
(* returned 0.                                                             *)
Received(zone) ==
    /\ timeRequest' = zone
    /\ server' = IF zone = Goodbye THEN "close" ELSE "respond"
    /\ UNCHANGED <<serving, pending, clientVars, link, down, gmt, exhausted>>

receiveTimeRequest_Retries ==    \* mutant: after a recv of 0 it receives again
    /\ server = "receive"
    /\ \/ /\ up[serving] # <<>>
          /\ up' = [up EXCEPT ![serving] = Tail(@)]
          /\ Received(Head(up[serving]))
       \/ /\ up[serving] = <<>> /\ link[serving] = "reset"
          /\ ServerEnds("failed") /\ UNCHANGED exhausted

receiveTimeRequest ==
    /\ server = "receive"
    /\ \/ /\ up[serving] # <<>>
          /\ up' = [up EXCEPT ![serving] = Tail(@)]
          /\ Received(Head(up[serving]))
       \/ /\ up[serving] = <<>> /\ link[serving] = "client_closed"
          /\ UNCHANGED up
          /\ Received(timeRequest)
       \/ /\ up[serving] = <<>> /\ link[serving] = "reset"
          /\ ServerEnds("failed") /\ UNCHANGED exhausted

(* The remainder of C: it has the sign of the dividend.                    *)
CRem(a, b) == IF a >= 0 THEN a % b ELSE - ((- a) % b)

createTimeRespond_NoRem(zone) == gmt + zone    \* mutant: `%24' forgotten

(* The hour that is sent for a time zone.                                  *)
createTimeRespond(zone) == CRem(gmt + zone, 24)

sendTimeRespond ==
    /\ server = "respond"
    /\ CASE link[serving] = "open" ->
               /\ down' = [down EXCEPT ![serving] =
                              @ \o [i \in 1..Pieces |-> createTimeRespond(timeRequest)]]
               /\ server' = "receive"
               /\ UNCHANGED <<serving, timeRequest, pending, clientVars, link, up, gmt>>
         [] link[serving] = "client_closed" ->
               /\ link' = [link EXCEPT ![serving] = "reset"]
               /\ server' = "receive"
               /\ UNCHANGED <<serving, timeRequest, pending, clientVars, up, down, gmt>>
         [] OTHER -> ServerEnds("failed")
    /\ UNCHANGED exhausted

closeConnection ==
    /\ server = "close"
    /\ link' = [link EXCEPT ![serving] = ClosedByServer(serving)]
    /\ serving' = NoClient
    /\ server' = "accept"
    /\ UNCHANGED <<timeRequest, pending, clientVars, up, down, gmt, exhausted>>

(* SIGINT                                                                  *)
shutdownTimeServer == ~ ServerEnded /\ ServerEnds("exited") /\ UNCHANGED exhausted

Server ==
    \/ createListenSocket \/ acceptConnection \/ receiveTimeRequest
    \/ sendTimeRespond \/ closeConnection

-----------------------------------------------------------------------------
(* The clients                                                             *)

Ended(c) == at[c] \in {"done", "failed", "killed"}

(* createSocket and connectToTimeServer, which look at no error: the       *)
(* socket is -1, or not connected if nobody listens, or if connect has     *)
(* waited too long for a place among the pending connections.              *)
connectToTimeServer(c) ==
    /\ at[c] = "connect"
    /\ at' = [at EXCEPT ![c] = "send"]
    /\ \/ /\ ~ exhausted /\ exhausted' = TRUE
          /\ link' = [link EXCEPT ![c] = "invalid"]
          /\ UNCHANGED pending
       \/ /\ Listening /\ Len(pending) < MaxPending
          /\ link' = [link EXCEPT ![c] = "open"]
          /\ pending' = Append(pending, c)
          /\ UNCHANGED exhausted
       \/ /\ ~ Listening \/ Len(pending) = MaxPending
          /\ link' = [link EXCEPT ![c] = "refused"]
          /\ UNCHANGED <<pending, exhausted>>
    /\ UNCHANGED <<server, serving, timeRequest, timeRespond, shown, cut, up, down, gmt>>

(* A client ends: its end of the connection is closed.                     *)
ClientEnds(c, how) ==
    /\ at' = [at EXCEPT ![c] = how]
    /\ link' = [link EXCEPT ![c] = IF @ # "open" THEN @
                                   ELSE IF down[c] = <<>> THEN "client_closed" ELSE "reset"]
    /\ down' = [down EXCEPT ![c] = <<>>]
    /\ UNCHANGED up

(* send of a request, whose result is not looked at; the client goes on    *)
(* at `next'.                                                              *)
sendTimeRequest(c, zone, next) ==
    /\ \/ /\ link[c] = "open"
          /\ up' = [up EXCEPT ![c] = Append(@, zone)]
          /\ at' = [at EXCEPT ![c] = next]
          /\ UNCHANGED <<link, down>>
       \/ /\ link[c] = "server_closed"
          /\ link' = [link EXCEPT ![c] = "reset"]
          /\ at' = [at EXCEPT ![c] = next]
          /\ UNCHANGED <<up, down>>
       \/ /\ link[c] \in {"invalid", "reset"}
          /\ at' = [at EXCEPT ![c] = next]
          /\ UNCHANGED netVars
       \/ link[c] \in {"refused", "reset"} /\ ClientEnds(c, "killed")
    /\ UNCHANGED <<serverVars, timeRespond, shown, cut, gmt, exhausted>>

Ask(c) == at[c] = "send" /\ sendTimeRequest(c, Zones[Len(shown[c]) + 1], "receive")

Bye(c) == at[c] = "bye" /\ sendTimeRequest(c, Goodbye, "close")

(* The respond is printed, whatever recv has left in it.                   *)
Prints(c, text) ==
    /\ timeRespond' = [timeRespond EXCEPT ![c] = text]
    /\ shown' = [shown EXCEPT ![c] = Append(@, text)]
    /\ at' = [at EXCEPT ![c] = IF Len(shown[c]) + 1 < Len(Zones) THEN "send" ELSE "bye"]

(* recv puts the first n pieces that have arrived into the buffer.         *)
Filled(c, n) == [i \in 1..Pieces |-> IF i <= n THEN down[c][i] ELSE timeRespond[c][i]]

receiveTimeRespond(c) ==
    /\ at[c] = "receive"
    /\ \/ \E n \in 1..Pieces :
             /\ n <= Len(down[c])
             /\ Prints(c, Filled(c, n))
             /\ down' = [down EXCEPT ![c] = SubSeq(@, n + 1, Len(@))]
             /\ cut' = [cut EXCEPT ![c] = @ \/ n < Pieces]
             /\ UNCHANGED <<link, up>>
       \/ /\ down[c] = <<>> /\ link[c] \in {"invalid", "server_closed", "reset"}
          /\ Prints(c, timeRespond[c])
          /\ UNCHANGED <<cut, netVars>>
       \/ /\ down[c] = <<>> /\ link[c] = "reset"
          /\ ClientEnds(c, "failed")
          /\ UNCHANGED <<timeRespond, shown, cut>>
    /\ UNCHANGED <<serverVars, gmt, exhausted>>

Close(c) ==
    /\ at[c] = "close"
    /\ ClientEnds(c, "done")
    /\ UNCHANGED <<serverVars, timeRespond, shown, cut, gmt, exhausted>>

(* A client that is interrupted from outside.                              *)
Killed(c) ==
    /\ ~ Ended(c)
    /\ ClientEnds(c, "killed")
    /\ UNCHANGED <<serverVars, timeRespond, shown, cut, gmt, exhausted>>

ClientStep(c) ==
    connectToTimeServer(c) \/ Ask(c) \/ receiveTimeRespond(c) \/ Bye(c) \/ Close(c)

Stopped == ServerEnded /\ (\A c \in Client : Ended(c)) /\ UNCHANGED vars

Next ==
    \/ Server \/ ServerCallFails \/ shutdownTimeServer
    \/ \E c \in Client : ClientStep(c) \/ Killed(c)
    \/ Stopped

(* Server and clients are Unix processes: each goes on unless it is        *)
(* blocked in a call.  Nothing forces a kill, a SIGINT or a failing call.  *)
Spec == Init /\ [][Next]_vars /\ WF_vars(Server) /\ \A c \in Client : WF_vars(ClientStep(c))

-----------------------------------------------------------------------------
(* The hours of the answers to the first k questions, as they are sent.    *)
Hours(k) == {createTimeRespond(Zones[j]) : j \in 1..k}

(* Every answer shown is, in all its pieces, the one made for its question. *)
Right(c) ==
    \A k \in DOMAIN shown[c] : shown[c][k] = [i \in 1..Pieces |-> createTimeRespond(Zones[k])]

(* Answers match questions.  The k-th text a client shows is the respond   *)
(* to its k-th request, unless its own recv was cut short, its socket is   *)
(* none or the server has ended; and even then no piece of it answers a    *)
(* later request, a goodbye, garbage or what another client asked, though  *)
(* the server never clears its request, nor a client its buffer            *)
(* (client.c:57-59, 71-82, timeServer.c:140-164).  Whether the hour sent   *)
(* is the right one is another matter: it may be negative                  *)
(* (timeServer.c:112).                                                     *)
AnswersAreOwn ==
    \A c \in Client :
        /\ Right(c) \/ cut[c] \/ link[c] = "invalid" \/ ServerEnded
        /\ \A k \in DOMAIN shown[c], i \in 1..Pieces : shown[c][k][i] \in Hours(k) \cup {NoText}

(* The server fails in no call but one that is short of resources, or one  *)
(* on the connection of a client that was killed or whose own recv was cut *)
(* short, so that it closed with an answer unread.  The client served at   *)
(* that moment must be that one: whatever happens to other clients, before *)
(* or while they wait, is harmless, and so is a client that reads its      *)
(* answers and says goodbye (timeServer.c:97-98, 124-125, 139-164).  That  *)
(* one such client ends the server for all is against the comment that     *)
(* only the signal handler can end the loop (timeServer.c:165).            *)
ServerFailsOnlyOnServed ==
    [][server # "failed" /\ server' = "failed" =>
           \/ ~ exhausted /\ exhausted'
           \/ serving \in Client /\ (at[serving] = "killed" \/ cut[serving])]_vars

(* A client that is connected gets both answers, although others come      *)
(* before it, unless it is killed or the server ends                       *)
(* (timeServer.c:139-164).                                                 *)
EveryClientServed ==
    \A c \in Client :
        link[c] = "open" ~> \/ Right(c) /\ Len(shown[c]) = Len(Zones)
                            \/ cut[c] \/ at[c] = "killed" \/ ServerEnded

(* A client that was killed does not keep the server for ever: the answers *)
(* to its last request end the connection, or the server                   *)
(* (timeServer.c:97-98, 124-125, 154).                                     *)
DeadClientReleased ==
    \A c \in Client : serving = c /\ at[c] = "killed" ~> serving # c
=============================================================================
