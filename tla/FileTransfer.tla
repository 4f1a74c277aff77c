------------------------------ MODULE FileTransfer ------------------------------
(***************************************************************************)
(* What the file transfers of lab8 and lab10 promise, without saying how:  *)
(* a sender, a receiver and the archive the receiver puts together.        *)
(*                                                                         *)
(* The archive grows packet by packet, in order and each packet once; some *)
(* places may get other data than the packet's own.  The receiver stops    *)
(* with the whole archive, or where other data made it stop.  An archive   *)
(* with other data in it may not open, which ends the receiver.  The       *)
(* sender does not end before the receiver has come far enough.            *)
(***************************************************************************)
EXTENDS Integers

CONSTANTS Last,    \* number of the last packet
          Spoilt,  \* the sets of places of the archive that may get other data
          EndsAt   \* phases of the receiver in which the sender may end

VARIABLES written,   \* the places 0..written - 1 of the archive are filled
          foreign,   \* those of them that do not hold the packet's own data
          sender,    \* "sending" or "done"
          receiver   \* "receiving", "unzipping", "unzipped", "done" or "crashed"

vars == <<written, foreign, sender, receiver>>

Init == written = 0 /\ foreign = {} /\ sender = "sending" /\ receiver = "receiving"

\* The next places are filled; others keep what they have.
Fill(n) ==
  /\ receiver = "receiving"
  /\ written' = n
  /\ \E F \in SUBSET (written..n - 1) : foreign' = foreign \cup F
  /\ foreign' \in Spoilt

\* More packets are to come.
Grow == /\ \E n \in written..Last : Fill(n)
        /\ UNCHANGED <<sender, receiver>>

\* The last packet is there, or what is taken for it.
Complete == /\ \E n \in written + 1..Last + 1 : Fill(n)
            /\ written' = Last + 1 \/ written' - 1 \in foreign'
            /\ receiver' = "unzipping"
            /\ UNCHANGED sender

Unzip == /\ receiver = "unzipping"
         /\ receiver' = "unzipped"
         /\ UNCHANGED <<written, foreign, sender>>

\* Only an archive that is not the sender's may fail to open.
Fail == /\ receiver = "unzipping"
        /\ foreign # {}
        /\ receiver' = "crashed"
        /\ UNCHANGED <<written, foreign, sender>>

Finish == /\ receiver = "unzipped"
          /\ receiver' = "done"
          /\ UNCHANGED <<written, foreign, sender>>

End == /\ sender = "sending"
       /\ receiver \in EndsAt
       /\ sender' = "done"
       /\ UNCHANGED <<written, foreign, receiver>>

Next == Grow \/ Complete \/ Unzip \/ Fail \/ Finish \/ End

Spec == Init /\ [][Next]_vars
=============================================================================
