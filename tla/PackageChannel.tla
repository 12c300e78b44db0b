--------------------------- MODULE PackageChannel ---------------------------
(***************************************************************************)
(* What a connection of the Net library promises the server on top of it:  *)
(* the peer's packages arrive whole, in order and once; the connection is  *)
(* shut for a reason (the peer left, or its next package is unacceptable)  *)
(* and nothing arrives afterwards.  No buffers, chunks, headers cached     *)
(* between calls, or epoll.                                                *)
(***************************************************************************)
EXTENDS Naturals, Sequences

CONSTANT Acceptable(_)

VARIABLES
    sent,      \* contents of the packages the peer sent
    received,  \* contents handed to the server
    peerOpen,  \* the peer is still there
    shut       \* the server gave the connection up

vars == << sent, received, peerOpen, shut >>

Init ==
    /\ sent = << >>
    /\ received = << >>
    /\ peerOpen = TRUE
    /\ shut = FALSE

Send ==
    /\ peerOpen = TRUE
    /\ Len(sent') = Len(sent) + 1
    /\ SubSeq(sent', 1, Len(sent)) = sent
    /\ UNCHANGED << received, peerOpen, shut >>

Leave ==
    /\ peerOpen = TRUE
    /\ peerOpen' = FALSE
    /\ UNCHANGED << sent, received, shut >>

Deliver ==
    /\ shut = FALSE
    /\ Len(received) < Len(sent)
    /\ Acceptable(sent[Len(received) + 1])
    /\ received' = Append(received, sent[Len(received) + 1])
    /\ UNCHANGED << sent, peerOpen, shut >>

Shut ==
    /\ shut = FALSE
    /\ \/ ~peerOpen
       \/ Len(received) < Len(sent) /\ ~Acceptable(sent[Len(received) + 1])
    /\ shut' = TRUE
    /\ UNCHANGED << sent, received, peerOpen >>

Next == Send \/ Leave \/ Deliver \/ Shut

Spec == Init /\ [][Next]_vars
=============================================================================
