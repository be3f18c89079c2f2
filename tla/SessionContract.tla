-------------------------- MODULE SessionContract --------------------------
(***************************************************************************)
(* What a websocket session promises the object that owns it, on either    *)
(* side: CWsSession to the server and CSession to the client.  It opens or *)
(* fails to, delivers a prefix of what it accepted, in order and without   *)
(* repetition, starts the closing handshake only when everything it        *)
(* accepted is delivered, reports its end at most once, and after the end  *)
(* neither delivers nor reports anything.                                  *)
(***************************************************************************)
EXTENDS Integers, Sequences

CONSTANT Payloads

VARIABLES
  phase,      \* "opening", "open", "over"
  accepted,   \* payloads the session took responsibility for
  wire,       \* payloads delivered to the peer
  closeSent,  \* the closing handshake has been started
  reads,      \* number of messages reported to the owner
  ends        \* number of times the end was reported to the owner

vars == <<phase, accepted, wire, closeSent, reads, ends>>

Init ==
  /\ phase = "opening" /\ closeSent = FALSE
  /\ accepted = <<>> /\ wire = <<>>
  /\ reads = 0 /\ ends = 0

\* The closing handshake may be part of the step that leaves nothing to deliver.
MayClose == closeSent' \in BOOLEAN /\ (closeSent => closeSent') /\ (closeSent' => wire' = accepted')

Open ==
  /\ phase = "opening" /\ phase' = "open"
  /\ MayClose
  /\ UNCHANGED <<accepted, wire, reads, ends>>

Accept(p) ==
  /\ phase = "open" /\ ~closeSent
  /\ accepted' = Append(accepted, p)
  /\ UNCHANGED <<phase, wire, closeSent, reads, ends>>

Deliver ==
  /\ phase = "open" /\ Len(wire) < Len(accepted)
  /\ wire' = Append(wire, accepted[Len(wire) + 1])
  /\ MayClose
  /\ UNCHANGED <<phase, accepted, reads, ends>>

SendClose ==
  /\ phase = "open" /\ MayClose
  /\ UNCHANGED <<phase, accepted, wire, reads, ends>>

Receive ==
  /\ phase = "open"
  /\ reads' = reads + 1
  /\ UNCHANGED <<phase, accepted, wire, closeSent, ends>>

\* The end, before or after the opening, is reported unless the owner is gone.
End ==
  /\ phase # "over" /\ phase' = "over"
  /\ ends' \in {ends, ends + 1}
  /\ UNCHANGED <<accepted, wire, closeSent, reads>>

Next == Open \/ (\E p \in Payloads : Accept(p)) \/ Deliver \/ SendClose \/ Receive \/ End

Spec == Init /\ [][Next]_vars
=============================================================================
