----------------------------- MODULE SharedDraft -----------------------------
(* What an editor of a shared, versioned record promises, whatever the record *)
(* is.  The server numbers the versions of the record; the editor holds a     *)
(* draft that was started from one of them.  The draft may only be written    *)
(* over the version it was started from or one the user was shown after a     *)
(* refusal, so nobody's version is replaced by somebody who never saw it.     *)
(* Version 0 is a record that is not there yet.  The Office worksheet and the *)
(* Office roof sketch editor are both shown to implement this module          *)
(* (OfficeDesk).                                                              *)
EXTENDS Naturals

VARIABLES
    ver,    \* the server's version of the record
    base,   \* the version the draft was started from
    work,   \* TRUE when the draft holds changes that are not saved
    offer,  \* the version shown to the user after a refused save, 0 if none
    own     \* the versions this editor wrote

sdvars == <<ver, base, work, offer, own>>

Init ==
    /\ ver \in Nat
    /\ base \in 0..ver
    /\ work = FALSE
    /\ offer = 0
    /\ own = {}

(* Somebody else saves the record. *)
Foreign ==
    /\ ver' = ver + 1
    /\ UNCHANGED <<base, work, offer, own>>

Edit ==
    /\ work' = TRUE
    /\ UNCHANGED <<ver, base, offer, own>>

(* The draft is written over the version it was started from, or over the one *)
(* the user was shown and decided to replace.                                 *)
Commit ==
    /\ ver = base \/ (offer # 0 /\ ver = offer)
    /\ ver' = ver + 1
    /\ own' = own \cup {ver'}
    /\ UNCHANGED <<base, work, offer>>

(* The editor learns that its own write was accepted; changes made meanwhile  *)
(* stay unsaved.                                                              *)
Learn ==
    /\ base' \in own
    /\ work' \in BOOLEAN
    /\ offer' \in {0, offer}
    /\ UNCHANGED <<ver, own>>

(* The save is refused and some version of the server is shown to the user.   *)
Refuse ==
    /\ offer' \in 0..ver
    /\ UNCHANGED <<ver, base, work, own>>

(* The draft is replaced by a version of the server. *)
Adopt ==
    /\ base' \in 0..ver
    /\ work' = FALSE
    /\ offer' \in 0..ver
    /\ UNCHANGED <<ver, own>>

(* The editor falls back to an older version: it can only be refused for it.  *)
Forget ==
    /\ base' \in 0..base
    /\ work' \in BOOLEAN
    /\ offer' \in 0..ver
    /\ UNCHANGED <<ver, own>>

Next == Foreign \/ Edit \/ Commit \/ Learn \/ Refuse \/ Adopt \/ Forget

Spec == Init /\ [][Next]_sdvars
=============================================================================
