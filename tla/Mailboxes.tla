----------------------------- MODULE Mailboxes -----------------------------
(***************************************************************************)
(* What message queues promise: under each id in use there is a mailbox    *)
(* that keeps what is sent to that id, and gives to who receives from it   *)
(* the oldest message of the least of the types that are asked for.        *)
(***************************************************************************)
EXTENDS Integers, Sequences

CONSTANTS Proc, Messages, Wants, Nothing

VARIABLES
  box,    (* a function on the ids in use, to sequences of messages        *)
  asked   (* what a process that has slept for a message now asks for      *)

Accepts(want, type) ==
  CASE want = 0 -> TRUE
    [] want > 0 -> type = want
    [] want < 0 -> type <= -want

(* The place of the message to receive: with a negative number the least type
   comes first, otherwise age alone counts. *)
Chosen(s, want, i) ==
  /\ Accepts(want, s[i].type)
  /\ \A j \in 1..Len(s) : Accepts(want, s[j].type) =>
       IF want < 0 THEN s[j].type > s[i].type \/ (s[j].type = s[i].type /\ j >= i)
                   ELSE j >= i

Init == box = << >> /\ asked = [p \in Proc |-> Nothing]

Send == \E id \in DOMAIN box, m \in Messages :
          box' = [box EXCEPT ![id] = Append(@, m)]

Receive(id, want) ==
  /\ id \in DOMAIN box
  /\ \E i \in 1..Len(box[id]) :
       /\ Chosen(box[id], want, i)
       /\ box' = [box EXCEPT ![id] = SubSeq(@, 1, i - 1) \o SubSeq(@, i + 1, Len(@))]

(* A new mailbox is empty, and its id was not in use. *)
Create ==
  \E id \in DOMAIN box' \ DOMAIN box :
    box' = [x \in DOMAIN box \cup {id} |-> IF x = id THEN << >> ELSE box[x]]

Discard == \E id \in DOMAIN box : box' = [x \in DOMAIN box \ {id} |-> box[x]]

(* Who has slept gets the message it asked for. *)
Answer(p) ==
  /\ asked[p] # Nothing
  /\ asked' = [asked EXCEPT ![p] = Nothing]
  /\ Receive(asked[p].id, asked[p].want)

Next ==
  \/ UNCHANGED box
  \/ \E p \in Proc : Answer(p)
  \/ /\ UNCHANGED asked
     /\ \/ Send \/ Create \/ Discard
        \/ \E id \in DOMAIN box, want \in Wants : Receive(id, want)

Spec == Init /\ [][Next]_<<box, asked>>
=============================================================================
