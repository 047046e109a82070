------------------------------ MODULE MCVchiq ------------------------------
(***************************************************************************)
(* VCHIQ and the mailbox it starts over, for TLC: a behaviour is one of a  *)
(* slot-processing thread with its interrupt and VchiqRelease, of the      *)
(* transmit stream, or of the mailbox driver.                              *)
(***************************************************************************)
EXTENDS VchiqThread, VchiqTx, RpiqMailbox

CONSTANTS c1, c2, a1, a2

VARIABLE scene

vchiqVars == <<scene, threadVars, vars, mailboxVars>>

\* Nothing of VchiqThread can move.
NoThread ==
  /\ EventInit
  /\ posted = 0 /\ done = 0 /\ posterPc = "idle"
  /\ threadPc = "exited" /\ stop = FALSE /\ slotZero = "mapped" /\ relPc = "done"

VchiqInit ==
  /\ \/ scene = "thread" /\ ThreadInit
     \/ scene \in {"tx", "mailbox"} /\ NoThread
  /\ Init /\ MailboxInit

VchiqNext ==
  /\ UNCHANGED scene
  /\ \/ scene = "thread" /\ ThreadNext /\ UNCHANGED <<vars, mailboxVars>>
     \/ scene = "tx" /\ Next /\ UNCHANGED <<threadVars, mailboxVars>>
     \/ scene = "mailbox" /\ MailboxNext /\ UNCHANGED <<threadVars, vars>>

VchiqSpec ==
  /\ VchiqInit /\ [][VchiqNext]_vchiqVars
  /\ ThreadFairness /\ Fairness
  /\ WF_mailboxVars(scene = "mailbox" /\ InitStep)
  /\ \A c \in Clients : WF_mailboxVars(scene = "mailbox" /\ Handler(c))
  /\ WF_mailboxVars(scene = "mailbox" /\ (FwTake \/ FwAnswer))
  /\ WF_mailboxVars(scene = "mailbox" /\ MailboxIsr)
  /\ WF_mailboxVars(scene = "mailbox" /\ MailboxDpc)

-----------------------------------------------------------------------------
(***************************************************************************)
(* Posted work is handled unless the memory is gone, a stop ends the       *)
(* thread, recycled slots return to the senders, every message is parsed,  *)
(* and no parked mailbox request stays so.                                 *)
(***************************************************************************)
VchiqMovesOn ==
  []<>(/\ done = posted \/ slotZero = "freed"
       /\ stop => threadPc \in {"exited", "fault"}
       /\ SlotsSeen = slotQueueRecycle
       /\ \A h \in memory : h.padding \/ Less(h.pos, rxPos)
       /\ ClientServed)
=============================================================================
