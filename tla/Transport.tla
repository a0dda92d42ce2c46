------------------------------ MODULE Transport ------------------------------
(***************************************************************************)
(* The way of messages from one node to another: the senders and receivers *)
(* of daccord/src/transport/tcp.rs and uds.rs, and the bounded channel of  *)
(* channel.rs.  The sending event loop waits for each send; the accept     *)
(* loop and the reader of each connection are tasks of the receiving node. *)
(* The sockets and the listener's address belong to the operating system.  *)
(*                                                                         *)
(* Messages are numbered as they are sent.  The last one stands for what   *)
(* the protocols send again and again.                                     *)
(***************************************************************************)
EXTENDS Integers, Sequences, FiniteSets, SequencesExt

CONSTANTS
    Nil,
    LISTENER_CHANNEL_CAPACITY,
    SocketCapacity,   \* how many parts of frames a socket buffers
    Oversized,        \* the messages longer than MAX_MESSAGE_SIZE
    MaxMessage,       \* bound: the last message
    MaxFailures       \* bound: failures of connections and of the listener

ASSUME TransportAssumption ==
    /\ LISTENER_CHANNEL_CAPACITY \in Nat \ {0}
    /\ SocketCapacity \in Nat \ {0}
    /\ MaxMessage \in Nat \ {0}
    /\ Oversized \subseteq 1..(MaxMessage - 1)
    /\ MaxFailures \in Nat

VARIABLES
    kind,       \* "tcp", "uds" or "channel", for the whole behaviour
    conn,       \* the sender's connection: its number, or Nil
    sending,    \* the message of the current send and the step it is at
    sent,       \* the number of the last message
    links,      \* the connections made so far
    listener,   \* "accepting" or "rebinding"
    queue,      \* the channel into recv
    received,   \* what recv returned, with the connection it came by
    failures    \* how many failures have happened

vars == <<kind, conn, sending, sent, links, listener, queue, received, failures>>

Message == 1..MaxMessage

Idle == [at |-> "idle", msg |-> Nil]

\* A new connection waits in the listener's backlog.
NewLink == [socket |-> "open", parts |-> <<>>, reader |-> "backlog", msg |-> Nil]

Init ==
    /\ kind \in {"tcp", "uds", "channel"}
    /\ conn = Nil
    /\ sending = Idle
    /\ sent = 0
    /\ links = <<>>
    /\ listener = "accepting"
    /\ queue = <<>>
    /\ received = <<>>
    /\ failures = 0

Fail == failures < MaxFailures /\ failures' = failures + 1

-----------------------------------------------------------------------------
(* The sender.                                                             *)

\* The event loop sends the next message, or the last one again.
Send ==
    /\ sending = Idle
    /\ sent' = IF sent < MaxMessage THEN sent + 1 ELSE sent
    /\ sending' = [at |-> IF kind = "channel" THEN "channel" ELSE "connect", msg |-> sent']
    /\ UNCHANGED <<kind, conn, links, listener, queue, received, failures>>

\* Mutant: send waits one message too late.
ChannelSendOverFull ==
    /\ sending.at = "channel"
    /\ Len(queue) <= LISTENER_CHANNEL_CAPACITY
    /\ queue' = Append(queue, [msg |-> sending.msg, link |-> 0])
    /\ sending' = Idle
    /\ UNCHANGED <<kind, conn, sent, links, listener, received, failures>>

\* channel: send waits for capacity.
channel_send ==
    /\ sending.at = "channel"
    /\ Len(queue) < LISTENER_CHANNEL_CAPACITY
    /\ queue' = Append(queue, [msg |-> sending.msg, link |-> 0])
    /\ sending' = Idle
    /\ UNCHANGED <<kind, conn, sent, links, listener, received, failures>>

\* The lazy connect; if it fails the send does.
connect ==
    /\ sending.at = "connect"
    /\ \/ /\ conn # Nil
          /\ sending' = [sending EXCEPT !.at = "length"]
          /\ UNCHANGED <<conn, links, failures>>
       \/ /\ conn = Nil
          /\ conn' = Len(links) + 1
          /\ links' = Append(links, NewLink)
          /\ sending' = [sending EXCEPT !.at = "length"]
          /\ UNCHANGED failures
       \/ /\ conn = Nil
          /\ Fail
          /\ sending' = Idle
          /\ UNCHANGED <<conn, links>>
    /\ UNCHANGED <<kind, sent, listener, queue, received>>

\* The frame is written: the length, then the payload.
After(at) == IF at = "length" THEN [sending EXCEPT !.at = "payload"] ELSE Idle

\* Mutant: a broken connection is kept.
WriteKeepsConnection ==
    /\ sending.at \in {"length", "payload"}
    /\ LET link == links[conn]
       IN  \/ /\ link.socket = "open"
              /\ Len(link.parts) < SocketCapacity
              /\ links' = [links EXCEPT ![conn].parts = Append(@, <<sending.at, sending.msg>>)]
              /\ sending' = After(sending.at)
              /\ UNCHANGED conn
           \/ /\ link.socket = "reset"
              /\ links' = [links EXCEPT ![conn].socket = "closed"]
              /\ sending' = After(sending.at)
              /\ UNCHANGED conn
           \/ /\ link.socket # "open"
              /\ links' = [links EXCEPT ![conn].socket = "closed"]
              /\ sending' = Idle
              /\ UNCHANGED conn
    /\ UNCHANGED <<kind, sent, listener, queue, received, failures>>

\* A write waits for room in the socket.  On a connection the peer has reset it may
\* still succeed once; a write that fails drops the connection and fails the send.
write_all ==
    /\ sending.at \in {"length", "payload"}
    /\ LET link == links[conn]
       IN  \/ /\ link.socket = "open"
              /\ Len(link.parts) < SocketCapacity
              /\ links' = [links EXCEPT ![conn].parts = Append(@, <<sending.at, sending.msg>>)]
              /\ sending' = After(sending.at)
              /\ UNCHANGED conn
           \/ /\ link.socket = "reset"
              /\ links' = [links EXCEPT ![conn].socket = "closed"]
              /\ sending' = After(sending.at)
              /\ UNCHANGED conn
           \/ /\ link.socket # "open"
              /\ links' = [links EXCEPT ![conn].socket = "closed"]
              /\ sending' = Idle
              /\ conn' = Nil
    /\ UNCHANGED <<kind, sent, listener, queue, received, failures>>

-----------------------------------------------------------------------------
(* The listener.                                                           *)

\* A connection is accepted and gets its reader.
accept(k) ==
    /\ listener = "accepting"
    /\ links[k].reader = "backlog"
    /\ links' = [links EXCEPT ![k].reader = "length"]
    /\ UNCHANGED <<kind, conn, sending, sent, listener, queue, received, failures>>

\* accept fails, for want of descriptors perhaps.
AcceptFails ==
    /\ listener = "accepting"
    /\ kind # "channel"
    /\ Fail
    /\ listener' = "rebinding"
    /\ UNCHANGED <<kind, conn, sending, sent, links, queue, received>>

\* The address of the old listener, which is still open, is not free; a path is,
\* once its file is removed.
BindSucceeds == kind = "uds"

\* After a delay the address is bound again.  Connections still in the backlog of
\* the old listener are reset with it.
rebind ==
    /\ listener = "rebinding"
    /\ BindSucceeds
    /\ listener' = "accepting"
    /\ links' = [k \in DOMAIN links |->
                    IF links[k].reader = "backlog"
                    THEN [links[k] EXCEPT !.reader = "gone",
                                          !.socket = IF @ = "open" THEN "reset" ELSE @]
                    ELSE links[k]]
    /\ UNCHANGED <<kind, conn, sending, sent, queue, received, failures>>

-----------------------------------------------------------------------------
(* The reader of a connection.                                             *)

\* What the bytes of the next part are to the reader: the message of a length, or the
\* payload that belongs to the length it has read, or no message at all.
Garbled == 0
Read(link) ==
    LET part == Head(link.parts)
    IN  IF part[1] = link.reader /\ (link.reader = "payload" => part[2] = link.msg)
        THEN part[2] ELSE Garbled

\* Mutant: the length is not looked at.
ReadAnyLength(k) ==
    LET link == links[k]
    IN  /\ link.reader \in {"length", "payload"}
        /\ link.parts # <<>>
        /\ links' = [links EXCEPT ![k].parts = Tail(@),
                                  ![k].reader = IF @ = "length" THEN "payload" ELSE "send",
                                  ![k].msg = Read(link)]
        /\ UNCHANGED <<kind, conn, sending, sent, listener, queue, received, failures>>

\* The next part arrives; a frame that is too long closes the connection.
read_exact(k) ==
    LET link == links[k]
        close == link.reader = "length" /\ Read(link) \in Oversized
    IN  /\ link.reader \in {"length", "payload"}
        /\ link.parts # <<>>
        /\ links' = [links EXCEPT ![k].parts = IF close THEN <<>> ELSE Tail(@),
                                  ![k].reader = IF close THEN "gone"
                                                ELSE IF @ = "length" THEN "payload" ELSE "send",
                                  ![k].msg = Read(link),
                                  ![k].socket = IF close /\ @ = "open" THEN "reset" ELSE @]
        /\ UNCHANGED <<kind, conn, sending, sent, listener, queue, received, failures>>

\* The connection is no longer open: a read fails, with or without what was buffered.
ReadFails(k) ==
    /\ links[k].reader \in {"length", "payload"}
    /\ links[k].socket # "open"
    /\ links' = [links EXCEPT ![k].reader = "gone", ![k].parts = <<>>]
    /\ UNCHANGED <<kind, conn, sending, sent, listener, queue, received, failures>>

\* Mutant: while the queue is full a message changes places with the one behind it.
ReaderPutsOff(k) ==
    LET link == links[k]
        m == link.msg
    IN  /\ link.reader = "send"
        /\ IF Len(queue) < LISTENER_CHANNEL_CAPACITY
           THEN /\ queue' = Append(queue, [msg |-> m, link |-> k])
                /\ links' = [links EXCEPT ![k].reader = "length", ![k].msg = Nil]
           ELSE /\ Len(link.parts) = 2 /\ Head(link.parts)[2] \notin Oversized
                /\ links' = [links EXCEPT ![k].parts = <<<<"length", m>>, <<"payload", m>>>>,
                                          ![k].msg = Head(link.parts)[2]]
                /\ UNCHANGED queue
        /\ UNCHANGED <<kind, conn, sending, sent, listener, received, failures>>

\* The message goes into the queue, which all readers share, when there is room.
reader_sends(k) ==
    /\ links[k].reader = "send"
    /\ Len(queue) < LISTENER_CHANNEL_CAPACITY
    /\ queue' = Append(queue, [msg |-> links[k].msg, link |-> k])
    /\ links' = [links EXCEPT ![k].reader = "length", ![k].msg = Nil]
    /\ UNCHANGED <<kind, conn, sending, sent, listener, received, failures>>

\* The receiving node takes the next message.  That the last one came is noted once.
recv ==
    /\ queue # <<>>
    /\ queue' = Tail(queue)
    /\ received' = IF Head(queue).msg = MaxMessage
                      /\ \E i \in DOMAIN received : received[i].msg = MaxMessage
                   THEN received ELSE Append(received, Head(queue))
    /\ UNCHANGED <<kind, conn, sending, sent, links, listener, failures>>

\* The network or a process breaks a connection.
Break(k) ==
    /\ links[k].socket = "open"
    /\ Fail
    /\ links' = [links EXCEPT ![k].socket = "reset"]
    /\ UNCHANGED <<kind, conn, sending, sent, listener, queue, received>>

Next ==
    \/ Send
    \/ channel_send
    \/ connect
    \/ write_all
    \/ \E k \in DOMAIN links : accept(k)
    \/ AcceptFails
    \/ rebind
    \/ \E k \in DOMAIN links : read_exact(k)
    \/ \E k \in DOMAIN links : ReadFails(k)
    \/ \E k \in DOMAIN links : reader_sends(k)
    \/ recv
    \/ \E k \in DOMAIN links : Break(k)

\* Failures are bounded, so every connection's tasks get their turn.
Fairness ==
    /\ WF_vars(Send)
    /\ WF_vars(channel_send)
    /\ WF_vars(connect)
    /\ WF_vars(write_all)
    /\ WF_vars(rebind)
    /\ WF_vars(recv)
    /\ \A k \in 1..(MaxFailures + Cardinality(Oversized) + 1) :
          /\ WF_vars(k \in DOMAIN links /\ accept(k))
          /\ WF_vars(k \in DOMAIN links /\ (read_exact(k) \/ ReadFails(k)))
          /\ WF_vars(k \in DOMAIN links /\ reader_sends(k))

Spec == Init /\ [][Next]_vars /\ Fairness

-----------------------------------------------------------------------------
(* Properties.                                                             *)

\* The state has the shape of the code's types, and neither the listener's channel
\* nor a socket holds more than its capacity: the reader and the sender wait.
TypeOK ==
    /\ conn \in DOMAIN links \cup {Nil}
    /\ sending \in [at : {"idle", "channel", "connect", "length", "payload"},
                    msg : Message \cup {Nil}]
    /\ links \in Seq([socket : {"open", "reset", "closed"},
                      parts : Seq({"length", "payload"} \X Message),
                      reader : {"backlog", "length", "payload", "send", "gone"},
                      msg : Message \cup {Nil}])
    /\ \A k \in DOMAIN links : Len(links[k].parts) <= SocketCapacity
    /\ Len(queue) <= LISTENER_CHANNEL_CAPACITY

\* Reconnecting never duplicates a message, and what is received was sent and is
\* not longer than what a socket's reader accepts: a frame that was cut short is gone,
\* and no length is ever put together with the payload of another frame.
AtMostOnce ==
    /\ \A i, j \in DOMAIN received : received[i].msg = received[j].msg => i = j
    /\ \A i \in DOMAIN received :
          /\ received[i].msg \in 1..sent
          /\ kind # "channel" => received[i].msg \notin Oversized

\* Messages overtake each other only when the sender has reconnected: of two that
\* come in the wrong order, the late one used an older connection.
ReorderedAcrossConnections ==
    \A i, j \in DOMAIN received :
        i < j /\ received[i].msg > received[j].msg => received[i].link > received[j].link

\* What is sent again and again arrives, after broken connections, failed connects,
\* frames that are too long and a listener that failed, unless it is a TCP listener.
Reconnects ==
    <>(\/ \E i \in DOMAIN received : received[i].msg = MaxMessage
       \/ kind = "tcp" /\ listener = "rebinding")

=============================================================================
