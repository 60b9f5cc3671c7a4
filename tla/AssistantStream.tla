--------------------------- MODULE AssistantStream ---------------------------
(***************************************************************************)
(* The assistant message a child is streaming and the one it last          *)
(* finalized (live-state.ts), as operators on a stream record.             *)
(*                                                                         *)
(* A message is abstracted to its identity: its timestamp and the response *)
(* id the provider may give it once it has begun to stream.  0 stands for  *)
(* an absent value, so a message without a timestamp has no identity.      *)
(***************************************************************************)
EXTENDS Integers, Sequences

CONSTANT MAX_FINALIZED_ASSISTANT_IDENTITIES

ASSUME TombstoneAssumption == MAX_FINALIZED_ASSISTANT_IDENTITIES \in Nat \ {0}

Identity == [ts : Nat, rid : Nat]
NoIdentity == [ts |-> 0, rid |-> 0]
Identifiable(i) == i.ts # 0

AssistantLiveState ==
  [ active : BOOLEAN,
    generation : Nat,
    current : Identity,             \* the message being streamed
    finalGeneration : Nat,          \* 0 is undefined
    final : Identity,               \* the message finalized last
    finalized : Seq(Identity) ]     \* tombstones, oldest first

NoStream ==
  [ active |-> FALSE, generation |-> 0, current |-> NoIdentity,
    finalGeneration |-> 0, final |-> NoIdentity, finalized |-> << >> ]

(***************************************************************************)
(* The identity of a record against a known message: a known response id   *)
(* decides; without one the timestamp does, for a record that has no       *)
(* response id either or when the stream may learn it from this record.    *)
(***************************************************************************)
matchesIdentity(i, known, allowResponseIdUpgrade) ==
  IF known.rid # 0 THEN i.rid = known.rid
  ELSE /\ i.rid = 0 \/ allowResponseIdUpgrade
       /\ known.ts # 0
       /\ known.ts = i.ts

matchesRetained(i, known) ==
  IF i.rid # 0 THEN known.rid = i.rid ELSE known.ts = i.ts

wasFinalized(m, i) ==
  \E n \in 1..Len(m.finalized) : matchesRetained(i, m.finalized[n])

(* Mutant: a finalized identity leaves no tombstone. *)
forgetFinalized(m, i) == m.finalized

(* The tombstones after i was finalized. *)
rememberFinalized(m, i) ==
  LET grown == Append(m.finalized, i)
  IN  IF wasFinalized(m, i) THEN m.finalized
      ELSE IF Len(grown) > MAX_FINALIZED_ASSISTANT_IDENTITIES THEN Tail(grown)
      ELSE grown

assistantMessageMatchesFinalized(m, i) ==
  Identifiable(i) /\ matchesIdentity(i, m.final, FALSE)

(* Mutant: the identity goes but the stream stays marked as active. *)
deactivateKeyOnly(m) == [m EXCEPT !.current = NoIdentity]

deactivateAssistantMessage(m) ==
  [m EXCEPT !.active = FALSE, !.current = NoIdentity]

(* Not older than the finalized message, nor a possible replay of it. *)
FollowsFinalized(m, i) ==
  m.final.ts # 0 =>
    \/ i.ts > m.final.ts
    \/ i.ts = m.final.ts /\ i.rid # 0 /\ m.final.rid # 0 /\ i.rid # m.final.rid

CanStartMessage(m, i) ==
  /\ Identifiable(i)
  /\ ~m.active
  /\ ~wasFinalized(m, i)
  /\ FollowsFinalized(m, i)

startAssistantMessage(m, i) ==
  [m EXCEPT !.generation = @ + 1, !.active = TRUE, !.current = i]

CanUpdateMessage(m, i) ==
  /\ m.active
  /\ Identifiable(i)
  /\ ~wasFinalized(m, i)
  /\ matchesIdentity(i, m.current, TRUE)

(* The stream learns a response id; its timestamp is the one it began with. *)
updateAssistantMessage(m, i) ==
  IF m.current.rid = 0 THEN [m EXCEPT !.current.rid = i.rid] ELSE m

(* The precondition is that of updateAssistantMessage. *)
finalizeAssistantMessage(m, i) ==
  LET u == updateAssistantMessage(m, i)
  IN  [u EXCEPT !.active = FALSE,
                !.finalGeneration = u.generation,
                !.final = u.current,
                !.finalized = rememberFinalized(u, i)]
==============================================================================
