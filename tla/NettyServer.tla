---------------------------- MODULE NettyServer ----------------------------
(***************************************************************************)
(* The four servers of web/general/netty: telnet, echo, file and discard.  *)
(* Each binds a listening channel and waits for it to be closed; a worker  *)
(* event loop runs the handler of a connection, one event at a time, and   *)
(* connections interleave with each other, with the boss loop, that owns   *)
(* the listening channel, and with the main thread.                        *)
(*                                                                         *)
(* What a client sends is a sequence of units: a line for telnet and file, *)
(* which decode lines, and a piece of text for echo and discard, whose     *)
(* channelRead gets whatever one read of the socket brings; "END" is two   *)
(* pieces, so that TCP may split it or join it with other text.            *)
(*   The decoders of telnet and file throw at a line of more than 8192     *)
(* bytes.  It is the one exception of a handler that is modelled; those of *)
(* a socket that fails are the client's loss.                              *)
(*                                                                         *)
(* Bound: the clients send MaxUnits units in all.  A flush reaches the     *)
(* socket at once; the text of a reply is named by the request it answers. *)
(***************************************************************************)
EXTENDS Integers, Sequences, SequencesExt

CONSTANTS Clients, MaxUnits

ASSUME BoundAssumption == MaxUnits \in Nat

VARIABLES
  server,       \* which of the four programs runs
  listening,    \* the channel bind() returned is open
  closing,      \* a handler has called parent().close(), for the boss loop to do
  main,         \* the main thread waits for closeFuture or is through
  loops,        \* the two event loop groups
  conn,         \* each client's connection; "lost" when the client's end failed
  asked,        \* all units a client has sent
  inbound,      \* those not yet read from the socket
  frames,       \* those of the current read that the handler has yet to see
  reading,      \* channelReadComplete of that read is still to come
  outbound,     \* replies written and not flushed
  received,     \* replies that have reached the client
  unitsLeft     \* what clients may still send

program == <<server, listening, closing, main, loops>>
traffic == <<asked, inbound, frames, reading, outbound, received>>
vars    == <<program, conn, traffic, unitsLeft>>

Telnet == "telnet"
Echo   == "echo"
File   == "file"
Discard == "discard"

TooLong == "tooLong"             \* a line the decoder throws at

Units == CASE server = Telnet  -> {"empty", "bye", "shutdown", "text", TooLong}
           [] server = Echo    -> {"EN", "D", "text"}
           [] server = File    -> {"path", "noSuchFile", TooLong}
           [] server = Discard -> {"text"}

END == <<"EN", "D">>

(* The replies to a sequence of units: telnet's response, echo's copy, the *)
(* file or its ERR line, nothing.                                          *)
Replies(units) == IF server = Discard THEN << >> ELSE units
Answers  == Units \ {TooLong}
Greeting == IF server \in {Telnet, File} THEN <<"welcome">> ELSE << >>

Init == /\ server \in {Telnet, Echo, File, Discard}
        /\ listening = TRUE
        /\ closing = FALSE
        /\ main = "waiting"
        /\ loops = "running"
        /\ conn = [c \in Clients |-> "none"]
        /\ asked = [c \in Clients |-> << >>]
        /\ inbound = [c \in Clients |-> << >>]
        /\ frames = [c \in Clients |-> << >>]
        /\ reading = [c \in Clients |-> FALSE]
        /\ outbound = [c \in Clients |-> << >>]
        /\ received = [c \in Clients |-> << >>]
        /\ unitsLeft = MaxUnits

-----------------------------------------------------------------------------
(* The clients.  A connection is accepted by the boss loop and then        *)
(* registered with a worker loop, which calls channelActive.               *)
Connect(c) ==
  /\ listening /\ conn[c] = "none"
  /\ conn' = [conn EXCEPT ![c] = "accepted"]
  /\ UNCHANGED <<program, traffic, unitsLeft>>

Send(c) ==
  /\ conn[c] \in {"accepted", "open"}
  /\ unitsLeft > 0
  /\ unitsLeft' = unitsLeft - 1
  /\ \E u \in Units : /\ asked' = [asked EXCEPT ![c] = Append(@, u)]
                      /\ inbound' = [inbound EXCEPT ![c] = Append(@, u)]
  /\ UNCHANGED <<program, conn, frames, reading, outbound, received>>

(* The client hangs up, or its socket fails; in the middle of a read, what *)
(* has not been flushed is discarded.                                      *)
Lose(c) ==
  /\ conn[c] = "open"
  /\ conn' = [conn EXCEPT ![c] = "lost"]
  /\ outbound' = [outbound EXCEPT ![c] = << >>]
  /\ UNCHANGED <<program, asked, inbound, frames, reading, received, unitsLeft>>

-----------------------------------------------------------------------------
(* The worker loop of connection c.                                        *)
ChannelActive(c) ==
  /\ conn[c] = "accepted"
  /\ conn' = [conn EXCEPT ![c] = "open"]
  /\ received' = [received EXCEPT ![c] = Greeting]
  /\ UNCHANGED <<program, asked, inbound, frames, reading, outbound, unitsLeft>>

(* One read of the socket brings any part of what has arrived.             *)
Read(c) ==
  /\ conn[c] = "open" /\ ~ reading[c] /\ inbound[c] # << >>
  /\ \E n \in 1..Len(inbound[c]) :
       /\ frames' = [frames EXCEPT ![c] = SubSeq(inbound[c], 1, n)]
       /\ inbound' = [inbound EXCEPT ![c] = SubSeq(@, n + 1, Len(@))]
  /\ reading' = [reading EXCEPT ![c] = TRUE]
  /\ UNCHANGED <<program, conn, asked, outbound, received, unitsLeft>>

(* close(): what has been written and not flushed is discarded.  The frames*)
(* of the read that are left still come to the handler; writes then fail.  *)
Close(c) == conn' = [conn EXCEPT ![c] = IF @ \in {"accepted", "open"} THEN "closed" ELSE @]

(* exceptionCaught, after a line too long.                                 *)
LineTooLongReported(c) ==        \* variant: tells the client before it closes
  /\ frames[c] # << >> /\ Head(frames[c]) = TooLong
  /\ frames' = [frames EXCEPT ![c] = Tail(@)]
  /\ reading' = [reading EXCEPT ![c] = server = Telnet \/ Len(frames[c]) > 1]
  /\ outbound' = [outbound EXCEPT ![c] = << >>]
  /\ received' = [received EXCEPT ![c] = Append(@ \o outbound[c], TooLong)]
  /\ Close(c)
  /\ UNCHANGED <<program, asked, inbound, unitsLeft>>

LineTooLong(c) ==
  /\ frames[c] # << >> /\ Head(frames[c]) = TooLong
  /\ frames' = [frames EXCEPT ![c] = Tail(@)]
  /\ reading' = [reading EXCEPT ![c] = server = Telnet \/ Len(frames[c]) > 1]
  /\ outbound' = [outbound EXCEPT ![c] = << >>]
  /\ Close(c)
  /\ UNCHANGED <<program, asked, inbound, received, unitsLeft>>

(* telnet's channelRead0: the reply is written; "shutdown" closes before   *)
(* anything is flushed, the listener of "bye" closes when its reply is out.*)
TelnetReadClosing(c) ==          \* variant: "bye" closes like "shutdown", not by the listener
  /\ server = Telnet /\ frames[c] # << >> /\ Head(frames[c]) # TooLong
  /\ LET request == Head(frames[c])
     IN  /\ frames' = [frames EXCEPT ![c] = Tail(@)]
         /\ closing' = (closing \/ request = "shutdown")
         /\ IF request \in {"bye", "shutdown"} THEN Close(c) ELSE UNCHANGED conn
         /\ outbound' = [outbound EXCEPT ![c] = IF conn'[c] = "open" THEN Append(@, request)
                                                ELSE << >>]
  /\ UNCHANGED <<server, listening, main, loops, asked, inbound, reading, received, unitsLeft>>

TelnetRead(c) ==
  /\ server = Telnet /\ frames[c] # << >> /\ Head(frames[c]) # TooLong
  /\ LET request == Head(frames[c])
         shutdown == request = "shutdown"
     IN  /\ frames' = [frames EXCEPT ![c] = Tail(@)]
         /\ closing' = (closing \/ shutdown)
         /\ IF shutdown THEN Close(c) ELSE UNCHANGED conn
         /\ outbound' = [outbound EXCEPT ![c] = IF conn'[c] = "open" THEN Append(@, request)
                                                ELSE << >>]
  /\ UNCHANGED <<server, listening, main, loops, asked, inbound, reading, received, unitsLeft>>

(* channelReadComplete flushes.  Of what is behind a "bye" as much goes    *)
(* out as the socket takes in the same write.                              *)
FirstBye(q) == CHOOSE i \in DOMAIN q : q[i] = "bye" /\ \A j \in 1..(i - 1) : q[j] # "bye"
TelnetReadCompleteUnflushed(c) ==   \* variant: flushes only before a close
  /\ server = Telnet /\ reading[c] /\ frames[c] = << >>
  /\ reading' = [reading EXCEPT ![c] = FALSE]
  /\ LET q == outbound[c]
     IN  IF "bye" \in Range(q)
         THEN Close(c) /\ received' = [received EXCEPT ![c] = @ \o q]
         ELSE UNCHANGED <<conn, received>>
  /\ UNCHANGED <<program, asked, inbound, frames, outbound, unitsLeft>>

TelnetReadComplete(c) ==
  /\ server = Telnet /\ reading[c] /\ frames[c] = << >>
  /\ reading' = [reading EXCEPT ![c] = FALSE]
  /\ outbound' = [outbound EXCEPT ![c] = << >>]
  /\ LET q == outbound[c]
     IN  IF "bye" \in Range(q)
         THEN /\ Close(c)
              /\ \E n \in FirstBye(q)..Len(q) :
                   received' = [received EXCEPT ![c] = @ \o SubSeq(q, 1, n)]
         ELSE /\ UNCHANGED conn
              /\ received' = [received EXCEPT ![c] = @ \o q]
  /\ UNCHANGED <<program, asked, inbound, frames, unitsLeft>>

(* A reply that is flushed at once.                                        *)
Reply(c, units) ==
  received' = [received EXCEPT ![c] = IF conn[c] = "open" THEN @ \o Replies(units) ELSE @]

(* echo writes and flushes what it has read and compares all of it with    *)
(* "END"; then it closes its connection and asks for the shutdown.         *)
EchoNeverDone(c) ==              \* variant: the handler does not return
  /\ server = Echo /\ reading[c] /\ frames[c] # << >>
  /\ frames' = [frames EXCEPT ![c] = << >>]
  /\ Reply(c, frames[c])
  /\ IF frames[c] = END THEN Close(c) /\ closing' = TRUE ELSE UNCHANGED <<conn, closing>>
  /\ UNCHANGED <<server, listening, main, loops, asked, inbound, reading, outbound, unitsLeft>>

EchoRead(c) ==
  /\ server = Echo /\ reading[c]
  /\ frames' = [frames EXCEPT ![c] = << >>]
  /\ reading' = [reading EXCEPT ![c] = FALSE]
  /\ Reply(c, frames[c])
  /\ IF frames[c] = END THEN Close(c) /\ closing' = TRUE ELSE UNCHANGED <<conn, closing>>
  /\ UNCHANGED <<server, listening, main, loops, asked, inbound, outbound, unitsLeft>>

(* file flushes the reply to each line: the file after its length, or ERR. *)
FileRead(c) ==
  /\ server = File /\ frames[c] # << >> /\ Head(frames[c]) # TooLong
  /\ frames' = [frames EXCEPT ![c] = Tail(@)]
  /\ reading' = [reading EXCEPT ![c] = Len(frames[c]) > 1]
  /\ Reply(c, <<Head(frames[c])>>)
  /\ UNCHANGED <<program, conn, asked, inbound, outbound, unitsLeft>>

(* discard releases what it has read.                                      *)
DiscardRead(c) ==
  /\ server = Discard /\ reading[c]
  /\ frames' = [frames EXCEPT ![c] = << >>]
  /\ reading' = [reading EXCEPT ![c] = FALSE]
  /\ UNCHANGED <<program, conn, asked, inbound, outbound, received, unitsLeft>>

-----------------------------------------------------------------------------
(* The boss loop closes the listening channel; the main thread wakes up    *)
(* and calls shutdownGracefully on both groups; each loop closes the       *)
(* connections it has, and ends when it has none.                          *)
CloseListening ==
  /\ closing /\ listening
  /\ listening' = FALSE
  /\ UNCHANGED <<server, closing, main, loops, conn, traffic, unitsLeft>>

MainWakesWithoutFinally ==       \* variant: the event loops are not shut down
  /\ main = "waiting" /\ ~ listening
  /\ main' = "ended"
  /\ UNCHANGED <<server, listening, closing, loops, conn, traffic, unitsLeft>>

MainWakes ==
  /\ main = "waiting" /\ ~ listening
  /\ main' = "ended"
  /\ loops' = "shuttingDown"
  /\ UNCHANGED <<server, listening, closing, conn, traffic, unitsLeft>>

CloseAll(c) ==
  /\ loops = "shuttingDown"
  /\ conn[c] \in {"accepted", "open"} /\ ~ reading[c]
  /\ Close(c)
  /\ UNCHANGED <<program, traffic, unitsLeft>>

Over(c) == conn[c] \in {"closed", "lost"} /\ ~ reading[c]
LoopsEnd ==
  /\ loops = "shuttingDown"
  /\ \A c \in Clients : conn[c] = "none" \/ Over(c)
  /\ loops' = "terminated"
  /\ UNCHANGED <<server, listening, closing, main, conn, traffic, unitsLeft>>

Handle(c) == \/ ChannelActive(c) \/ Read(c)
             \/ TelnetRead(c) \/ TelnetReadComplete(c) \/ LineTooLong(c)
             \/ EchoRead(c) \/ FileRead(c) \/ DiscardRead(c)

Next == \/ \E c \in Clients : Connect(c) \/ Send(c) \/ Lose(c)
        \/ \E c \in Clients : Handle(c) \/ CloseAll(c)
        \/ CloseListening \/ MainWakes \/ LoopsEnd

Spec == Init /\ [][Next]_vars

(***************************************************************************)
(* Event loops and the main thread are scheduled by the JVM; clients owe   *)
(* nothing.                                                                *)
(***************************************************************************)
FairSpec == /\ Spec
            /\ \A c \in Clients : WF_vars(Handle(c)) /\ WF_vars(CloseAll(c))
            /\ WF_vars(CloseListening) /\ WF_vars(MainWakes) /\ WF_vars(LoopsEnd)

-----------------------------------------------------------------------------
(* TypeOK: flags and connection states, only units this server gets, and   *)
(* no reply to a line that was too long.                                   *)
TypeOK ==
  /\ server \in {Telnet, Echo, File, Discard}
  /\ listening \in BOOLEAN /\ closing \in BOOLEAN
  /\ main \in {"waiting", "ended"}
  /\ loops \in {"running", "shuttingDown", "terminated"}
  /\ conn \in [Clients -> {"none", "accepted", "open", "closed", "lost"}]
  /\ \A q \in {asked, inbound, frames} : q \in [Clients -> Seq(Units)]
  /\ outbound \in [Clients -> Seq(Answers)]
  /\ received \in [Clients -> Seq(Answers \cup {"welcome"})]
  /\ reading \in [Clients -> BOOLEAN]
  /\ unitsLeft \in 0..MaxUnits

(* AnswersInOrder: a client gets the greeting and then the replies to its  *)
(* own requests, in their order and without a gap, however reads cut the   *)
(* stream and whenever connection, server or peer goes down; and between   *)
(* two reads of a connection nothing that was read is unanswered.          *)
Handled(c) == SubSeq(asked[c], 1, Len(asked[c]) - Len(inbound[c]) - Len(frames[c]))
Due(c)     == Greeting \o Replies(Handled(c))
AnswersInOrder ==
  \A c \in Clients :
    /\ IsPrefix(received[c], Due(c))
    /\ conn[c] = "open" /\ ~ reading[c] => received[c] = Due(c)

(* EveryCloseIsSaid: while the server listens it closes a connection only  *)
(* at the client's own request, after "bye" not before the goodbye is out, *)
(* after "END" not before it has been echoed, else after "shutdown"; or,   *)
(* unasked and with replies lost, because that client sent a line longer   *)
(* than the decoder takes.  What other clients do closes nothing.          *)
EveryCloseIsSaid ==
  \A c \in Clients :
    conn[c] = "closed" /\ listening =>
      \/ "bye" \in Range(received[c])
      \/ server = Echo /\ IsSuffix(END, received[c])
      \/ Range(Handled(c)) \cap {"shutdown", TooLong} # {}

(* ShutdownEnds: once a client has asked for it, every connection is closed*)
(* and the event loops and the main thread end, whatever the other clients *)
(* are doing; so the JVM ends.                                             *)
ShutdownEnds ==
  closing ~> /\ main = "ended" /\ loops = "terminated"
             /\ \A c \in Clients : conn[c] \in {"none", "closed", "lost"}

(* EveryUnitRead: what a client has sent is read, unless its connection is *)
(* over: no handler waits for more input than it has.                      *)
EveryUnitRead ==
  \A c \in Clients : inbound[c] # << >> ~> inbound[c] = << >> \/ Over(c)
=============================================================================
