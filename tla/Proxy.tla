------------------------------- MODULE Proxy -------------------------------
(***************************************************************************)
(* One connection of the TCP proxy in src/listen/main.go.  handleRequest  *)
(* dials the backend and starts two reader goroutines (chanFromConn), one *)
(* per socket; each reads into its 1024-byte buffer b, copies what it     *)
(* read and sends the copy on an unbuffered channel, then loops.  At end  *)
(* of stream it sends nil.  handleRequest selects on both channels,       *)
(* writes each chunk to the other socket, and returns on the first nil    *)
(* without closing either socket.                                         *)
(*                                                                         *)
(* Direction "up" is the client socket (inConn, relayed to the backend),  *)
(* "down" the backend socket (outConn, relayed to the client).  A chunk   *)
(* is what one Read returns, abstracted to a model value.                 *)
(***************************************************************************)
EXTENDS Naturals, Sequences, SequencesExt

CONSTANTS
    Chunks,      \* payloads one conn.Read may return
    MaxChunks    \* bound on the chunks each peer sends

Dirs == {"up", "down"}
Shared == "b"          \* a reference to the reader's buffer, not a copy

VARIABLES
    wire,       \* wire[d]: bytes the peer sent that are not yet read
    eof,        \* eof[d]: the peer closed its sending side
    sent,       \* sent[d]: everything the peer sent (history)
    reader,     \* reader[d]: the chanFromConn goroutine of socket d
    buf,        \* buf[d]: the contents of that goroutine's buffer b
    main,       \* handleRequest: "select", "write" or "returned"
    pend,       \* the chunk handleRequest received and is writing
    delivered   \* delivered[d]: what was written to the other socket

vars == <<wire, eof, sent, reader, buf, main, pend, delivered>>

Chunk == Chunks \cup {Shared}

TypeOK ==
    /\ wire \in [Dirs -> BoundedSeq(Chunks, MaxChunks)]
    /\ eof \in [Dirs -> BOOLEAN]
    /\ sent \in [Dirs -> BoundedSeq(Chunks, MaxChunks)]
    /\ reader \in [Dirs -> [st : {"read", "send", "nil", "done"},
                            res : Chunk \cup {"none"}]]
    /\ buf \in [Dirs -> Chunks \cup {"none"}]
    /\ main \in {"select", "write", "returned"}
    /\ pend \in [dir : Dirs, ref : Chunk \cup {"none"}]
    /\ delivered \in [Dirs -> BoundedSeq(Chunks, MaxChunks)]

Init ==
    /\ wire = [d \in Dirs |-> <<>>]
    /\ eof = [d \in Dirs |-> FALSE]
    /\ sent = [d \in Dirs |-> <<>>]
    /\ reader = [d \in Dirs |-> [st |-> "read", res |-> "none"]]
    /\ buf = [d \in Dirs |-> "none"]
    /\ main = "select"
    /\ pend = [dir |-> "up", ref |-> "none"]
    /\ delivered = [d \in Dirs |-> <<>>]

-----------------------------------------------------------------------------
(* The peers: the client and the backend write, and may close.            *)
PeerSend(d, x) ==
    /\ ~eof[d] /\ Len(sent[d]) < MaxChunks
    /\ wire' = [wire EXCEPT ![d] = Append(@, x)]
    /\ sent' = [sent EXCEPT ![d] = Append(@, x)]
    /\ UNCHANGED <<eof, reader, buf, main, pend, delivered>>

PeerClose(d) ==
    /\ ~eof[d]
    /\ eof' = [eof EXCEPT ![d] = TRUE]
    /\ UNCHANGED <<wire, sent, reader, buf, main, pend, delivered>>

-----------------------------------------------------------------------------
(* chanFromConn's goroutine, lines 58-76.                                 *)

\* Mutant: the slice b[:n] is sent without the copy of lines 67-69.
ReadResultShared(x) == Shared

\* Lines 67-69: the chunk sent is a fresh copy of what Read put in b.
ReadResult(x) == x

\* conn.Read: n > 0 gives a chunk to send; at end of stream (err != nil,
\* n = 0) the goroutine sends nil.  With no data and no EOF it blocks.
Read(d) ==
    /\ reader[d].st = "read"
    /\ \/ /\ wire[d] # <<>>
          /\ buf' = [buf EXCEPT ![d] = Head(wire[d])]
          /\ wire' = [wire EXCEPT ![d] = Tail(@)]
          /\ reader' = [reader EXCEPT ![d] =
                          [st |-> "send", res |-> ReadResult(Head(wire[d]))]]
       \/ /\ wire[d] = <<>> /\ eof[d]
          /\ reader' = [reader EXCEPT ![d] = [st |-> "nil", res |-> "none"]]
          /\ UNCHANGED <<wire, buf>>
    /\ UNCHANGED <<eof, sent, main, pend, delivered>>

-----------------------------------------------------------------------------
(* handleRequest, lines 36-51.  A receive on the unbuffered channel is    *)
(* the rendezvous that completes the reader's send.                       *)

\* Mutant: the nil test of lines 39/45 is missing; nil is written as data.
ReceiveWithoutNilCheck(d) ==
    /\ main = "select"
    /\ reader[d].st \in {"send", "nil"}
    /\ reader' = [reader EXCEPT ![d] = [st |-> IF @.st = "nil" THEN "done" ELSE "read",
                                       res |-> "none"]]
    /\ main' = "write"
    /\ pend' = [dir |-> d, ref |-> reader[d].res]
    /\ UNCHANGED <<wire, eof, sent, buf, delivered>>

\* Mutant: the select has only the case of the client socket.
ReceiveClientOnly(d) ==
    /\ main = "select" /\ d = "up"
    /\ reader[d].st \in {"send", "nil"}
    /\ IF reader[d].st = "nil"
       THEN /\ reader' = [reader EXCEPT ![d] = [st |-> "done", res |-> "none"]]
            /\ main' = "returned"
            /\ UNCHANGED pend
       ELSE /\ reader' = [reader EXCEPT ![d] = [st |-> "read", res |-> "none"]]
            /\ main' = "write"
            /\ pend' = [dir |-> d, ref |-> reader[d].res]
    /\ UNCHANGED <<wire, eof, sent, buf, delivered>>

\* A case of the select: a chunk is taken for writing; nil returns.
Receive(d) ==
    /\ main = "select"
    /\ reader[d].st \in {"send", "nil"}
    /\ IF reader[d].st = "nil"
       THEN /\ reader' = [reader EXCEPT ![d] = [st |-> "done", res |-> "none"]]
            /\ main' = "returned"
            /\ UNCHANGED pend
       ELSE /\ reader' = [reader EXCEPT ![d] = [st |-> "read", res |-> "none"]]
            /\ main' = "write"
            /\ pend' = [dir |-> d, ref |-> reader[d].res]
    /\ UNCHANGED <<wire, eof, sent, buf, delivered>>

\* outConn.Write(b1) / inConn.Write(b2): the bytes the slice refers to now.
Write ==
    /\ main = "write"
    /\ LET d == pend.dir
           bytes == IF pend.ref = Shared THEN buf[d] ELSE pend.ref
       IN delivered' = [delivered EXCEPT ![d] = Append(@, bytes)]
    /\ main' = "select"
    /\ pend' = [pend EXCEPT !.ref = "none"]
    /\ UNCHANGED <<wire, eof, sent, reader, buf>>

Next ==
    \/ \E d \in Dirs : \/ \E x \in Chunks : PeerSend(d, x)
                       \/ PeerClose(d)
    \/ \E d \in Dirs : Read(d)
    \/ \E d \in Dirs : Receive(d)
    \/ Write

\* Every goroutine of the connection is scheduled while it can run; the
\* peers need not send or close.
Fairness ==
    /\ \A d \in Dirs : WF_vars(Read(d)) /\ WF_vars(Receive(d))
    /\ WF_vars(Write)

Spec == Init /\ [][Next]_vars /\ Fairness

-----------------------------------------------------------------------------
(* Properties.                                                            *)

\* Each socket receives exactly the bytes the other peer sent, in order
\* and without corruption: a chunk handed to handleRequest is not changed
\* by the reader's next Read into the same buffer (the copy of lines
\* 67-69), and the two directions never mix.
RelayedInOrder ==
    \A d \in Dirs : IsPrefix(delivered[d], sent[d])

\* As long as handleRequest has not returned, every chunk a peer sends is
\* eventually written to the other socket: neither select case starves.
DataRelayedWhileOpen ==
    \A d \in Dirs, i \in 1..MaxChunks :
        (Len(sent[d]) >= i) ~> (Len(delivered[d]) >= i \/ main = "returned")

\* A connection completes: once both peers have finished sending, each
\* socket eventually receives everything the other peer sent, and both
\* reader goroutines end.  handleRequest returns on the first nil (lines
\* 39-40 and 45-46) and nobody receives from the other channel again.
ConnectionCompletes ==
    (eof["up"] /\ eof["down"])
        ~> \A d \in Dirs : delivered[d] = sent[d] /\ reader[d].st = "done"

=============================================================================
