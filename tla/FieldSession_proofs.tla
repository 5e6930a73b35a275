------------------------ MODULE FieldSession_proofs ------------------------
(***************************************************************************)
(* Theorems of FieldSession: the queue of a rep survives everything, reps  *)
(* who share a device are kept apart, and the shared renewal never shows   *)
(* Office a token twice.  Every lemma <Part>Step is the step of one part   *)
(* of an inductive invariant, one case per action that can disturb it;     *)
(* Frame says which actions may change which field.                        *)
(***************************************************************************)
EXTENDS FieldSession, TLAPS

-----------------------------------------------------------------------------
(* The inductive invariants *)

(* What a phase promises about the values that go with it. *)
Filled ==
    /\ read.phase = "answered" => read.data \in Users
    /\ auth.op \in {"tokens", "user"} => auth.user \in Users /\ auth.pair # 0
    /\ renewal.phase = "asked" => renewal.token # 0
    /\ renewal.phase = "save" => renewal.pair # 0

SessionTypes == TypeOK /\ Filled

(* A queued row stays in the scope it was queued in. *)
OwnerKept == \A r \in Rows : hist.owner[r] # Nobody => rows[r].owner = hist.owner[r]

(* A row nobody queued is nowhere: no pass holds it and Office did not run it. *)
NotYetQueued == \A r \in Rows : hist.owner[r] = Nobody =>
    /\ rows[r].state = "none" /\ pass.got[r] = "none" /\ office.ran[r] = {}
    /\ r \notin pass.todo \cup pass.row

Present == \A r \in Rows : hist.owner[r] # Nobody /\ r \notin hist.removed => rows[r].state # "none"

(* A pass that says "synced" has an answer of Office, in the row, in what it will write
   back, or in the answer it has just been given. *)
SyncedRan == \A r \in Rows :
    /\ rows[r].state = "synced" \/ pass.got[r] = "synced" => office.ran[r] # {}
    /\ pass.ans = "ran" /\ r \in pass.row => office.ran[r] # {}

(* Undo can only write back unsynced rows of their owners. *)
UndoKeeps == \A e \in undo :
    /\ hist.owner[e.row] # Nobody /\ e.was.owner = hist.owner[e.row]
    /\ e.was.state \in {"pending", "failed"}

KeptInv == OwnerKept /\ NotYetQueued /\ Present /\ SyncedRan /\ UndoKeeps

(* Every token the device holds or is renewing is u's. *)
Belongs(k, u) == k # 0 => office.pairs[k].user = u
TokensOf(u) == /\ Belongs(disk.access, u) /\ Belongs(disk.refresh, u)
               /\ Belongs(renewal.token, u) /\ Belongs(renewal.pair, u)

RanAsOwner == \A r \in Rows : office.ran[r] \subseteq {hist.owner[r]}

CachedAsOwner ==
    /\ \A u \in Users : cache[u] \subseteq {u}
    /\ read.phase = "answered" /\ app.user # Nobody => read.data = app.user

SessionOwned == app.user # Nobody => TokensOf(app.user)

(* The rows a running pass still holds belong to the owner of the tokens, also after that
   owner signed out. *)
PassOwned == \A r \in pass.todo \cup pass.row : TokensOf(hist.owner[r])

Resting ==
    /\ pass.phase \in {"idle", "load"} => pass.todo = {} /\ pass.row = {}
    /\ renewal.phase = "idle" => renewal.token = 0 /\ renewal.pair = 0

(* Between the answer to a sign-in and the new user nothing of the rep before is under way. *)
SigningIn ==
    /\ auth.op \in {"tokens", "user"} =>
        /\ app.user = Nobody /\ office.pairs[auth.pair].user = auth.user
        /\ pass.todo = {} /\ pass.row = {} /\ read.phase = "idle" /\ renewal.phase = "idle"
        /\ pass.phase \notin {"answered", "await", "resend"}
    /\ auth.op = "user" => disk.access = auth.pair /\ disk.refresh = auth.pair

(* An app that starts does nothing else, and finds a user and tokens that agree. *)
Starting == ~app.ready =>
    /\ ~app.mounted /\ ~timer /\ auth.op = "idle"
    /\ pass.phase = "idle" /\ read.phase = "idle" /\ renewal.phase = "idle"
    /\ Coherent

ApartInv == RanAsOwner /\ CachedAsOwner /\ SessionOwned /\ PassOwned /\ Resting /\ SigningIn /\ Starting

HasSession == app.user # Nobody /\ auth.op = "idle" /\ renewal.phase # "clear" => disk.refresh # 0

(* Office has not seen the refresh token k used. *)
Unshown(k) == ~office.pairs[k].revoked

(* While nothing was lost, the stored refresh token is unused, except while the answer that
   replaces it is being saved; so are the token being renewed and the pair being signed in. *)
ReuseInv == ~hist.fault =>
    /\ ~hist.reused
    /\ disk.refresh # 0 /\ ~(renewal.phase = "save" /\ disk.refresh = renewal.token) => Unshown(disk.refresh)
    /\ renewal.phase = "asked" => Unshown(renewal.token)
    /\ renewal.phase = "save" => Unshown(renewal.pair) /\ renewal.pair # renewal.token
    /\ auth.op = "tokens" => /\ Unshown(auth.pair)
                             /\ auth.pair \notin {disk.refresh, renewal.token, renewal.pair}

-----------------------------------------------------------------------------
(* Types *)

LEMMA NullTypes == NoRenewal \in Renewals /\ NoAuth \in Auths /\ Idle \in Passes /\ NoRead \in Reads
<1>1. 0 \in Pairs
  BY DEF Pairs
<1>2. NoRenewal \in Renewals /\ NoAuth \in Auths
  BY <1>1 DEF NoRenewal, Renewals, NoAuth, Auths, Someone
<1>3. Idle \in Passes /\ NoRead \in Reads
  BY DEF Idle, Passes, NoRead, Reads, Someone, States
<1> QED
  BY <1>2, <1>3

LEMMA RunSyncTyped == ASSUME NEW p \in Passes PROVE RunSync(p) \in Passes
BY DEF RunSync, Passes

LEMMA ResumesTyped ==
    ASSUME NEW p \in Passes, NEW d \in Reads, NEW ok \in BOOLEAN
    PROVE  PassResumes(p, ok) \in Passes /\ ReadResumes(d, ok) \in Reads
<1>1. PassResumes(p, ok) \in Passes
  BY DEF PassResumes, Passes
<1>2. ReadResumes(d, ok) \in Reads
  BY NullTypes DEF ReadResumes, Reads
<1> QED
  BY <1>1, <1>2

LEMMA SettleTyped ==
    ASSUME pass \in Passes, read \in Reads, NEW ok \in BOOLEAN, Settle(ok)
    PROVE  renewal' = NoRenewal /\ pass' \in Passes /\ read' \in Reads
BY ResumesTyped DEF Settle

LEMMA JoinTyped ==
    ASSUME disk \in Disks, renewal \in Renewals, pass \in Passes, read \in Reads,
           NEW who \in {"pass", "read"}, JoinRenewal(who)
    PROVE  renewal' \in Renewals /\ pass' \in Passes /\ read' \in Reads
<1>1. PassResumes(pass, FALSE) \in Passes /\ ReadResumes(read, FALSE) \in Reads
  BY ResumesTyped
<1>2. [pass EXCEPT !.phase = "await"] \in Passes /\ [read EXCEPT !.phase = "await"] \in Reads
  BY DEF Passes, Reads
<1>3. pass' \in Passes /\ read' \in Reads
  BY <1>1, <1>2 DEF JoinRenewal
<1>4. [NoRenewal EXCEPT !.phase = "asked", !.token = disk.refresh, !.waiting = {who}] \in Renewals
  BY NullTypes DEF Renewals, Disks
<1>5. [renewal EXCEPT !.waiting = @ \cup {who}] \in Renewals
  BY DEF Renewals
<1> QED
  BY <1>3, <1>4, <1>5 DEF JoinRenewal

LEMMA VerdictTyped ==
    ASSUME app \in Apps, Verdict(app'.conn), app' = [app EXCEPT !.conn = app'.conn, !.ready = TRUE],
           app'.conn \in Blocked \cup {"connecting", "connected", "server_unavailable", "offline"}
    PROVE  app' \in Apps
BY DEF Apps

LEMMA TokenTyped == ASSUME TypeOK, NEW k \in Pairs, k # 0
                   PROVE  k \in 1..Len(office.pairs) /\ office.pairs[k] \in TokenPairs
BY DEF TypeOK, Pairs

LEMMA BearerTyped ==
    ASSUME TypeOK, NEW k \in Pairs
    PROVE  Bearer(k) # Nobody => k # 0 /\ Bearer(k) = office.pairs[k].user /\ Bearer(k) \in Users
<1>1. CASE k = 0
  BY <1>1 DEF Bearer
<1>2. CASE k # 0
  BY <1>2, TokenTyped DEF Bearer, TokenPairs
<1> QED
  BY <1>1, <1>2

LEMMA MarkTyped ==
    ASSUME NEW s \in Seq(TokenPairs), NEW k \in 1..Len(s), NEW t \in TokenPairs
    PROVE  [s EXCEPT ![k] = t] \in Seq(TokenPairs) /\ Len([s EXCEPT ![k] = t]) = Len(s)
OBVIOUS

LEMMA AppendTyped ==
    ASSUME NEW s \in Seq(TokenPairs), NEW t \in TokenPairs
    PROVE  Append(s, t) \in Seq(TokenPairs) /\ Len(Append(s, t)) = Len(s) + 1 /\ Len(s) \in Nat
OBVIOUS

LEMMA FamilyTyped ==
    ASSUME office.pairs \in Seq(TokenPairs), NEW f
    PROVE  RevokeFamily(f) \in Seq(TokenPairs) /\ Len(RevokeFamily(f)) = Len(office.pairs)
<1>1. DOMAIN office.pairs = 1..Len(office.pairs) /\ \A k \in 1..Len(office.pairs) : office.pairs[k]
      \in TokenPairs
  OBVIOUS
<1>2. \A k \in 1..Len(office.pairs) :
        [office.pairs[k] EXCEPT !.revoked = @ \/ office.pairs[k].fam = f] \in TokenPairs
  <2> TAKE k \in 1..Len(office.pairs)
  <2>1. (office.pairs[k].revoked \/ office.pairs[k].fam = f) \in BOOLEAN
    OBVIOUS
  <2> QED
    BY <1>1, <2>1 DEF TokenPairs
<1> QED
  BY <1>1, <1>2 DEF RevokeFamily

LEMMA OfficeTyped ==
    ASSUME TypeOK, NEW ps \in Seq(TokenPairs)
    PROVE  [office EXCEPT !.pairs = ps] \in [pairs : Seq(TokenPairs), ran : [Rows -> SUBSET Users]]
BY DEF TypeOK

LEMMA LoadedRows == ASSUME TypeOK, app.user # Nobody, NEW r \in LoadPending
                    PROVE  r \in Rows /\ rows[r] \in [state : States, owner : Users]
BY SessionAssumption DEF LoadPending, MyRows, TypeOK, Apps, Someone

LEMMA MainUser == Screen = "main" => app.user # Nobody /\ app.ready
BY DEF Screen, Blocked

LEMMA DropTyped ==
    ASSUME TypeOK, NEW gone \in SUBSET LoadPending, DropRows(gone)
    PROVE  TypeOK'
<1>1. gone \subseteq Rows
  BY DEF LoadPending, MyRows
<1>2. undo' \subseteq Undos
  BY MainUser, LoadedRows DEF DropRows, Undos
<1>3. rows' \in [Rows -> [state : States, owner : Someone]]
  BY DEF DropRows, TypeOK, States
<1>4. hist' \in Histories
  <2>1. hist.events + 1 \in Nat
    BY DEF TypeOK, Histories
  <2> QED
    BY <1>1, <2>1 DEF DropRows, TypeOK, Histories
<1>5. Pairs' = Pairs /\ Disks' = Disks /\ Auths' = Auths /\ Renewals' = Renewals
  BY DEF DropRows, Pairs, Disks, Auths, Renewals
<1> QED
  BY <1>2, <1>3, <1>4, <1>5 DEF DropRows, TypeOK, device, Apps, Passes, Reads, Undos, Histories, Someone

LEMMA SendTyped ==
    ASSUME TypeOK, NEW r \in Rows, SendOnce(r)
    PROVE  TypeOK'
<1>1. Reply(disk.access) \in {"none", "ran", "unauth", "missing"}
  BY DEF Reply
<1>2. pass' \in Passes
  <2>1. (IF Reply(disk.access) = "unauth" /\ pass.phase = "resend" THEN "refused" ELSE
        Reply(disk.access))
          \in {"none", "ran", "unauth", "refused", "missing"}
    BY <1>1
  <2> QED
    BY <2>1 DEF SendOnce, TypeOK, Passes
<1>3. office' \in [pairs : Seq(TokenPairs), ran : [Rows -> SUBSET Users]] /\ office'.pairs =
      office.pairs
  <2>1. CASE Reply(disk.access) = "ran" /\ office.ran[r] = {}
    <3>1. disk.access \in Pairs
      BY DEF TypeOK, Disks
    <3>2. Bearer(disk.access) # Nobody
      BY <2>1 DEF Reply
    <3>3. Bearer(disk.access) \in Users
      BY <3>1, <3>2, BearerTyped
    <3>4. office' = [office EXCEPT !.ran = [office.ran EXCEPT ![r] = {Bearer(disk.access)}]]
      BY <2>1 DEF SendOnce
    <3>5. [office.ran EXCEPT ![r] = {Bearer(disk.access)}] \in [Rows -> SUBSET Users]
      BY <3>3 DEF TypeOK
    <3> QED
      BY <3>4, <3>5 DEF TypeOK
  <2>2. CASE ~(Reply(disk.access) = "ran" /\ office.ran[r] = {})
    BY <2>2 DEF SendOnce, TypeOK
  <2> QED
    BY <2>1, <2>2
<1>4. Pairs' = Pairs /\ Disks' = Disks /\ Auths' = Auths /\ Renewals' = Renewals
  BY <1>3 DEF Pairs, Disks, Auths, Renewals
<1>5. UNCHANGED <<disk, app, eval, auth, renewal, read, rows, undo, cache, link, timer, hist>>
  BY DEF SendOnce, device, work
<1> QED
  BY <1>2, <1>3, <1>4, <1>5 DEF TypeOK, Apps, Passes, Reads, Undos, Histories, Someone

LEMMA BootTyped == ASSUME SessionTypes, Boot PROVE TypeOK'
<1>p. Pairs' = Pairs /\ Disks' = Disks /\ Auths' = Auths /\ Renewals' = Renewals
  BY DEF Boot, work, Pairs, Disks, Auths, Renewals
<1>1. app' \in Apps
  BY SessionAssumption DEF SessionTypes, TypeOK, Apps, Disks, Auths, Boot, Someone, States, Blocked,
     work
<1>u. disk' \in Disks' /\ auth' \in Auths' /\ renewal' \in Renewals' /\ pass' \in Passes /\ read'
      \in Reads /\ rows' \in [Rows -> [state : States, owner : Someone]] /\ undo' \subseteq Undos /\
      cache' \in [Someone -> SUBSET Users] /\ office' \in [pairs : Seq(TokenPairs), ran : [Rows ->
      SUBSET Users]] /\ hist' \in Histories
  BY <1>p, SessionAssumption DEF SessionTypes, TypeOK, Boot, work
<1>e. eval' \in {"idle", "version", "probe"} /\ link' \in Links /\ timer' \in BOOLEAN
  BY SessionAssumption DEF SessionTypes, TypeOK, Boot, work
<1> QED
  BY <1>1, <1>u, <1>e DEF TypeOK, Apps, Passes, Reads, Undos, Histories, Someone

LEMMA EvaluateGatesTyped == ASSUME SessionTypes, EvaluateGates PROVE TypeOK'
<1>p. Pairs' = Pairs /\ Disks' = Disks /\ Auths' = Auths /\ Renewals' = Renewals
  BY DEF EvaluateGates, Verdict, work, Pairs, Disks, Auths, Renewals
<1>1. app' \in Apps
  <2>1. app'.conn \in Blocked \cup {"connecting", "connected", "server_unavailable", "offline"}
    BY DEF EvaluateGates, Verdict, SessionTypes, TypeOK, Apps, Blocked
  <2> QED
    BY <2>1 DEF EvaluateGates, Verdict, SessionTypes, TypeOK, Apps
<1>u. disk' \in Disks' /\ auth' \in Auths' /\ renewal' \in Renewals' /\ pass' \in Passes /\ read'
      \in Reads /\ rows' \in [Rows -> [state : States, owner : Someone]] /\ undo' \subseteq Undos /\
      cache' \in [Someone -> SUBSET Users] /\ office' \in [pairs : Seq(TokenPairs), ran : [Rows ->
      SUBSET Users]] /\ hist' \in Histories
  BY <1>p, SessionAssumption DEF SessionTypes, TypeOK, EvaluateGates, Verdict, work
<1>e. eval' \in {"idle", "version", "probe"} /\ link' \in Links /\ timer' \in BOOLEAN
  BY SessionAssumption DEF SessionTypes, TypeOK, EvaluateGates, Verdict, work
<1> QED
  BY <1>1, <1>u, <1>e DEF TypeOK, Apps, Passes, Reads, Undos, Histories, Someone

LEMMA EvaluateProbeTyped == ASSUME SessionTypes, EvaluateProbe PROVE TypeOK'
<1>p. Pairs' = Pairs /\ Disks' = Disks /\ Auths' = Auths /\ Renewals' = Renewals
  BY DEF EvaluateProbe, Verdict, ProbeAnswer, mapRelayError, work, Pairs, Disks, Auths, Renewals
<1>1. app' \in Apps
  <2>1. PICK c \in ProbeAnswer : Verdict(c)
    BY DEF EvaluateProbe
  <2>2. c \in Blocked \cup {"connected", "server_unavailable", "offline"}
    BY DEF ProbeAnswer, mapRelayError, Blocked
  <2> QED
    BY <2>1, <2>2 DEF Verdict, SessionTypes, TypeOK, Apps
<1>2. pass' \in Passes
  BY RunSyncTyped DEF SessionTypes, TypeOK, EvaluateProbe
<1>u. disk' \in Disks' /\ auth' \in Auths' /\ renewal' \in Renewals' /\ read' \in Reads /\ rows' \in
      [Rows -> [state : States, owner : Someone]] /\ undo' \subseteq Undos /\ cache' \in [Someone ->
      SUBSET Users] /\ office' \in [pairs : Seq(TokenPairs), ran : [Rows -> SUBSET Users]] /\ hist'
      \in Histories
  BY <1>p, RunSyncTyped, SessionAssumption DEF SessionTypes, TypeOK, EvaluateProbe, Verdict,
     ProbeAnswer, mapRelayError, work
<1>e. eval' \in {"idle", "version", "probe"} /\ link' \in Links /\ timer' \in BOOLEAN
  BY SessionAssumption DEF SessionTypes, TypeOK, EvaluateProbe, Verdict, ProbeAnswer, mapRelayError,
     work
<1> QED
  BY <1>1, <1>2, <1>u, <1>e DEF TypeOK, Apps, Passes, Reads, Undos, Histories, Someone

LEMMA MountTyped == ASSUME SessionTypes, Mount PROVE TypeOK'
<1>p. Pairs' = Pairs /\ Disks' = Disks /\ Auths' = Auths /\ Renewals' = Renewals
  BY DEF Mount, work, Pairs, Disks, Auths, Renewals
<1>1. app' \in Apps
  BY RunSyncTyped, SessionAssumption DEF SessionTypes, TypeOK, Apps, Disks, Auths, Mount, Someone,
     States, Blocked, work
<1>2. pass' \in Passes
  BY RunSyncTyped, SessionAssumption DEF SessionTypes, TypeOK, Passes, Mount, Someone, States, work
<1>u. disk' \in Disks' /\ auth' \in Auths' /\ renewal' \in Renewals' /\ read' \in Reads /\ rows' \in
      [Rows -> [state : States, owner : Someone]] /\ undo' \subseteq Undos /\ cache' \in [Someone ->
      SUBSET Users] /\ office' \in [pairs : Seq(TokenPairs), ran : [Rows -> SUBSET Users]] /\ hist'
      \in Histories
  BY <1>p, RunSyncTyped, SessionAssumption DEF SessionTypes, TypeOK, Mount, work
<1>e. eval' \in {"idle", "version", "probe"} /\ link' \in Links /\ timer' \in BOOLEAN
  BY SessionAssumption DEF SessionTypes, TypeOK, Mount, work
<1> QED
  BY <1>1, <1>2, <1>u, <1>e DEF TypeOK, Apps, Passes, Reads, Undos, Histories, Someone

LEMMA UnmountTyped == ASSUME SessionTypes, Unmount PROVE TypeOK'
<1>p. Pairs' = Pairs /\ Disks' = Disks /\ Auths' = Auths /\ Renewals' = Renewals
  BY DEF Unmount, Pairs, Disks, Auths, Renewals
<1>1. app' \in Apps
  BY SessionAssumption DEF SessionTypes, TypeOK, Apps, Disks, Auths, Unmount, Someone, States, Blocked
<1>2. undo' \subseteq Undos
  BY SessionAssumption DEF SessionTypes, TypeOK, Undos, Apps, Unmount, Someone, States, Blocked
<1>u. disk' \in Disks' /\ auth' \in Auths' /\ renewal' \in Renewals' /\ pass' \in Passes /\ read'
      \in Reads /\ rows' \in [Rows -> [state : States, owner : Someone]] /\ cache' \in [Someone ->
      SUBSET Users] /\ office' \in [pairs : Seq(TokenPairs), ran : [Rows -> SUBSET Users]] /\ hist'
      \in Histories
  BY <1>p, SessionAssumption DEF SessionTypes, TypeOK, Unmount
<1>e. eval' \in {"idle", "version", "probe"} /\ link' \in Links /\ timer' \in BOOLEAN
  BY SessionAssumption DEF SessionTypes, TypeOK, Unmount
<1> QED
  BY <1>1, <1>2, <1>u, <1>e DEF TypeOK, Apps, Passes, Reads, Undos, Histories, Someone

LEMMA PairTyped == ASSUME SessionTypes, Pair PROVE TypeOK'
<1>p. Pairs' = Pairs /\ Disks' = Disks /\ Auths' = Auths /\ Renewals' = Renewals
  BY DEF Pair, work, Pairs, Disks, Auths, Renewals
<1>1. disk' \in Disks'
  BY <1>p, SessionAssumption DEF SessionTypes, TypeOK, Disks, Auths, Renewals, Pair, Someone, States,
     work
<1>2. app' \in Apps
  BY SessionAssumption DEF SessionTypes, TypeOK, Apps, Disks, Auths, Pair, Someone, States, Blocked,
     work
<1>u. auth' \in Auths' /\ renewal' \in Renewals' /\ pass' \in Passes /\ read' \in Reads /\ rows' \in
      [Rows -> [state : States, owner : Someone]] /\ undo' \subseteq Undos /\ cache' \in [Someone ->
      SUBSET Users] /\ office' \in [pairs : Seq(TokenPairs), ran : [Rows -> SUBSET Users]] /\ hist'
      \in Histories
  BY <1>p, SessionAssumption DEF SessionTypes, TypeOK, Pair, work
<1>e. eval' \in {"idle", "version", "probe"} /\ link' \in Links /\ timer' \in BOOLEAN
  BY SessionAssumption DEF SessionTypes, TypeOK, Pair, work
<1> QED
  BY <1>1, <1>2, <1>u, <1>e DEF TypeOK, Apps, Passes, Reads, Undos, Histories, Someone

LEMMA UnpairTyped == ASSUME SessionTypes, Unpair PROVE TypeOK'
<1>n. hist.events + 1 \in Nat /\ hist.reads + 1 \in Nat
  BY DEF SessionTypes, TypeOK, Histories
<1>p. Pairs' = Pairs /\ Disks' = Disks /\ Auths' = Auths /\ Renewals' = Renewals
  BY DEF Unpair, Spend, work, Pairs, Disks, Auths, Renewals
<1>1. disk' \in Disks'
  BY <1>p, SessionAssumption DEF SessionTypes, TypeOK, Disks, Auths, Renewals, Unpair, Spend, Someone,
     States, work
<1>2. app' \in Apps
  BY SessionAssumption DEF SessionTypes, TypeOK, Apps, Disks, Auths, Unpair, Spend, Someone, States,
     Blocked, work
<1>3. hist' \in Histories
  BY <1>n, SessionAssumption DEF SessionTypes, TypeOK, Histories, Apps, Undos, Unpair, Spend, Someone,
     States, Blocked, work
<1>u. auth' \in Auths' /\ renewal' \in Renewals' /\ pass' \in Passes /\ read' \in Reads /\ rows' \in
      [Rows -> [state : States, owner : Someone]] /\ undo' \subseteq Undos /\ cache' \in [Someone ->
      SUBSET Users] /\ office' \in [pairs : Seq(TokenPairs), ran : [Rows -> SUBSET Users]]
  BY <1>p, SessionAssumption DEF SessionTypes, TypeOK, Unpair, Spend, work
<1>e. eval' \in {"idle", "version", "probe"} /\ link' \in Links /\ timer' \in BOOLEAN
  BY SessionAssumption DEF SessionTypes, TypeOK, Unpair, Spend, work
<1> QED
  BY <1>1, <1>2, <1>3, <1>u, <1>e DEF TypeOK, Apps, Passes, Reads, Undos, Histories, Someone

LEMMA RetryTyped == ASSUME SessionTypes, Retry PROVE TypeOK'
<1>p. Pairs' = Pairs /\ Disks' = Disks /\ Auths' = Auths /\ Renewals' = Renewals
  BY DEF Retry, work, Pairs, Disks, Auths, Renewals
<1>u. disk' \in Disks' /\ app' \in Apps /\ auth' \in Auths' /\ renewal' \in Renewals' /\ pass' \in
      Passes /\ read' \in Reads /\ rows' \in [Rows -> [state : States, owner : Someone]] /\ undo'
      \subseteq Undos /\ cache' \in [Someone -> SUBSET Users] /\ office' \in [pairs :
      Seq(TokenPairs), ran : [Rows -> SUBSET Users]] /\ hist' \in Histories
  BY <1>p, SessionAssumption DEF SessionTypes, TypeOK, Retry, work
<1>e. eval' \in {"idle", "version", "probe"} /\ link' \in Links /\ timer' \in BOOLEAN
  BY SessionAssumption DEF SessionTypes, TypeOK, Retry, work
<1> QED
  BY <1>u, <1>e DEF TypeOK, Apps, Passes, Reads, Undos, Histories, Someone

LEMMA PersistTokensTyped == ASSUME SessionTypes, PersistTokens PROVE TypeOK'
<1>p. Pairs' = Pairs /\ Disks' = Disks /\ Auths' = Auths /\ Renewals' = Renewals
  BY DEF PersistTokens, work, Pairs, Disks, Auths, Renewals
<1>1. disk' \in Disks'
  BY <1>p, SessionAssumption DEF SessionTypes, TypeOK, Disks, Auths, Renewals, PersistTokens, Someone,
     States, work
<1>2. auth' \in Auths'
  BY <1>p, SessionAssumption DEF SessionTypes, TypeOK, Auths, PersistTokens, Someone, States, work
<1>u. app' \in Apps /\ renewal' \in Renewals' /\ pass' \in Passes /\ read' \in Reads /\ rows' \in
      [Rows -> [state : States, owner : Someone]] /\ undo' \subseteq Undos /\ cache' \in [Someone ->
      SUBSET Users] /\ office' \in [pairs : Seq(TokenPairs), ran : [Rows -> SUBSET Users]] /\ hist'
      \in Histories
  BY <1>p, SessionAssumption DEF SessionTypes, TypeOK, PersistTokens, work
<1>e. eval' \in {"idle", "version", "probe"} /\ link' \in Links /\ timer' \in BOOLEAN
  BY SessionAssumption DEF SessionTypes, TypeOK, PersistTokens, work
<1> QED
  BY <1>1, <1>2, <1>u, <1>e DEF TypeOK, Apps, Passes, Reads, Undos, Histories, Someone

LEMMA PersistUserTyped == ASSUME SessionTypes, PersistUser PROVE TypeOK'
<1>p. Pairs' = Pairs /\ Disks' = Disks /\ Auths' = Auths /\ Renewals' = Renewals
  BY DEF PersistUser, work, Pairs, Disks, Auths, Renewals
<1>1. disk' \in Disks'
  BY <1>p, NullTypes, RunSyncTyped, SessionAssumption DEF SessionTypes, TypeOK, Disks, Auths, Renewals,
     PersistUser, Someone, States, work
<1>2. app' \in Apps
  BY NullTypes, RunSyncTyped, SessionAssumption DEF SessionTypes, TypeOK, Apps, Disks, Auths,
     PersistUser, Someone, States, Blocked, work
<1>3. auth' \in Auths'
  BY <1>p, NullTypes, RunSyncTyped, SessionAssumption DEF SessionTypes, TypeOK, Auths, PersistUser,
     Someone, States, work
<1>4. pass' \in Passes
  BY NullTypes, RunSyncTyped, SessionAssumption DEF SessionTypes, TypeOK, Passes, PersistUser, Someone,
     States, work
<1>u. renewal' \in Renewals' /\ read' \in Reads /\ rows' \in [Rows -> [state : States, owner :
      Someone]] /\ undo' \subseteq Undos /\ cache' \in [Someone -> SUBSET Users] /\ office' \in
      [pairs : Seq(TokenPairs), ran : [Rows -> SUBSET Users]] /\ hist' \in Histories
  BY <1>p, NullTypes, RunSyncTyped, SessionAssumption DEF SessionTypes, TypeOK, PersistUser, work
<1>e. eval' \in {"idle", "version", "probe"} /\ link' \in Links /\ timer' \in BOOLEAN
  BY SessionAssumption DEF SessionTypes, TypeOK, PersistUser, work
<1> QED
  BY <1>1, <1>2, <1>3, <1>4, <1>u, <1>e DEF TypeOK, Apps, Passes, Reads, Undos, Histories, Someone

LEMMA LogoutUserTyped == ASSUME SessionTypes, LogoutUser PROVE TypeOK'
<1>p. Pairs' = Pairs /\ Disks' = Disks /\ Auths' = Auths /\ Renewals' = Renewals
  BY DEF LogoutUser, work, Pairs, Disks, Auths, Renewals
<1>1. disk' \in Disks'
  BY <1>p, NullTypes, SessionAssumption DEF SessionTypes, TypeOK, Disks, Auths, Renewals, LogoutUser,
     Someone, States, work
<1>2. app' \in Apps
  BY NullTypes, SessionAssumption DEF SessionTypes, TypeOK, Apps, Disks, Auths, LogoutUser, Someone,
     States, Blocked, work
<1>3. auth' \in Auths'
  BY <1>p, NullTypes, SessionAssumption DEF SessionTypes, TypeOK, Auths, LogoutUser, Someone, States,
     work
<1>u. renewal' \in Renewals' /\ pass' \in Passes /\ read' \in Reads /\ rows' \in [Rows -> [state :
      States, owner : Someone]] /\ undo' \subseteq Undos /\ cache' \in [Someone -> SUBSET Users] /\
      office' \in [pairs : Seq(TokenPairs), ran : [Rows -> SUBSET Users]] /\ hist' \in Histories
  BY <1>p, NullTypes, SessionAssumption DEF SessionTypes, TypeOK, LogoutUser, work
<1>e. eval' \in {"idle", "version", "probe"} /\ link' \in Links /\ timer' \in BOOLEAN
  BY SessionAssumption DEF SessionTypes, TypeOK, LogoutUser, work
<1> QED
  BY <1>1, <1>2, <1>3, <1>u, <1>e DEF TypeOK, Apps, Passes, Reads, Undos, Histories, Someone

LEMMA RenewTyped == ASSUME SessionTypes, Renew PROVE TypeOK'
<1> DEFINE t == office.pairs[renewal.token]
           used == [office.pairs EXCEPT ![renewal.token].revoked = TRUE]
           fresh == Append(used, [user |-> t.user, fam |-> t.fam, revoked |-> FALSE, expired |-> FALSE,
                                  dead |-> FALSE])
<1>t. renewal.token \in 1..Len(office.pairs) /\ t \in TokenPairs /\ office.pairs \in Seq(TokenPairs)
  BY TokenTyped DEF Renew, SessionTypes, Filled, TypeOK, Renewals
<1>f. fresh \in Seq(TokenPairs) /\ Len(fresh) = Len(office.pairs) + 1 /\ Len(office.pairs) \in Nat
  <2>1. used = [office.pairs EXCEPT ![renewal.token] = [t EXCEPT !.revoked = TRUE]]
    BY <1>t
  <2>2. [t EXCEPT !.revoked = TRUE] \in TokenPairs
    BY <1>t DEF TokenPairs
  <2>3. used \in Seq(TokenPairs) /\ Len(used) = Len(office.pairs)
    BY <1>t, <2>1, <2>2, MarkTyped
  <2>4. [user |-> t.user, fam |-> t.fam, revoked |-> FALSE, expired |-> FALSE, dead |-> FALSE] \in
        TokenPairs
    BY <1>t DEF TokenPairs
  <2> QED
    BY <1>t, <2>3, <2>4, AppendTyped
<1>r. RevokeFamily(t.fam) \in Seq(TokenPairs) /\ Len(RevokeFamily(t.fam)) = Len(office.pairs)
  BY <1>t, FamilyTyped
<1>o. \/ /\ office' = [office EXCEPT !.pairs = fresh] /\ renewal' = [renewal EXCEPT !.phase = "save", !.pair = Len(fresh)]
         /\ hist' = hist /\ office'.pairs = fresh /\ ~t.revoked
      \/ /\ office' = [office EXCEPT !.pairs = RevokeFamily(t.fam)] /\ renewal' = [renewal EXCEPT !.phase = "clear"]
         /\ hist' = [hist EXCEPT !.reused = TRUE] /\ office'.pairs = RevokeFamily(t.fam) /\ t.revoked
      \/ /\ office' = office /\ renewal' = [renewal EXCEPT !.phase = "clear"] /\ hist' = hist
  BY DEF Renew, SessionTypes, TypeOK
<1> HIDE DEF fresh, used, t
<1>q. Pairs \subseteq Pairs'
  BY <1>o, <1>f, <1>r DEF Pairs
<1>n. hist.events + 1 \in Nat /\ hist.reads + 1 \in Nat
  BY DEF SessionTypes, TypeOK, Histories
<1>1. renewal' \in Renewals'
  <2>1. Len(fresh) \in Pairs' \/ renewal' = [renewal EXCEPT !.phase = "clear"]
    BY <1>o, <1>f DEF Pairs
  <2>2. renewal.token \in Pairs' /\ renewal.pair \in Pairs'
    BY <1>q DEF SessionTypes, TypeOK, Renewals
  <2> QED
    BY <1>o, <2>1, <2>2 DEF SessionTypes, TypeOK, Renewals
<1>2. office' \in [pairs : Seq(TokenPairs), ran : [Rows -> SUBSET Users]]
  BY <1>o, <1>f, <1>r, OfficeTyped DEF SessionTypes, TypeOK
<1>3. hist' \in Histories
  BY <1>o DEF SessionTypes, TypeOK, Histories
<1>u. disk' \in Disks' /\ app' \in Apps /\ auth' \in Auths' /\ pass' \in Passes /\ read' \in Reads
      /\ rows' \in [Rows -> [state : States, owner : Someone]] /\ undo' \subseteq Undos /\ cache'
      \in [Someone -> SUBSET Users]
  BY <1>q, SessionAssumption DEF SessionTypes, TypeOK, Disks, Auths, Renew, RevokeFamily, device, work
<1>e. eval' \in {"idle", "version", "probe"} /\ link' \in Links /\ timer' \in BOOLEAN
  BY SessionAssumption DEF SessionTypes, TypeOK, Renew, RevokeFamily, device, work
<1> QED
  BY <1>1, <1>2, <1>3, <1>u, <1>e DEF TypeOK, Apps, Passes, Reads, Undos, Histories, Someone

LEMMA RenewFailsTyped == ASSUME SessionTypes, RenewFails PROVE TypeOK'
<1>n. hist.events + 1 \in Nat /\ hist.reads + 1 \in Nat
  BY DEF SessionTypes, TypeOK, Histories
<1>p. Pairs' = Pairs /\ Disks' = Disks /\ Auths' = Auths /\ Renewals' = Renewals
  BY DEF RenewFails, work, device, Settle, Pairs, Disks, Auths, Renewals
<1>1. renewal' \in Renewals'
  BY <1>p, NullTypes, SettleTyped, SessionAssumption DEF SessionTypes, TypeOK, Renewals, RenewFails,
     Someone, States, device, work
<1>2. pass' \in Passes
  BY NullTypes, SettleTyped, SessionAssumption DEF SessionTypes, TypeOK, Passes, RenewFails, Someone,
     States, device, work
<1>3. read' \in Reads
  BY NullTypes, SettleTyped, SessionAssumption DEF SessionTypes, TypeOK, Reads, TokenPairs, RenewFails,
     Someone, States, device, work
<1>4. hist' \in Histories
  BY <1>n, NullTypes, SettleTyped, SessionAssumption DEF SessionTypes, TypeOK, Histories, Apps, Undos,
     RenewFails, Someone, States, Blocked, device, work
<1>u. disk' \in Disks' /\ app' \in Apps /\ auth' \in Auths' /\ rows' \in [Rows -> [state : States,
      owner : Someone]] /\ undo' \subseteq Undos /\ cache' \in [Someone -> SUBSET Users] /\ office'
      \in [pairs : Seq(TokenPairs), ran : [Rows -> SUBSET Users]]
  BY <1>p, NullTypes, SettleTyped, SessionAssumption DEF SessionTypes, TypeOK, RenewFails, device, work
<1>e. eval' \in {"idle", "version", "probe"} /\ link' \in Links /\ timer' \in BOOLEAN
  BY SessionAssumption DEF SessionTypes, TypeOK, RenewFails, device, work
<1> QED
  BY <1>1, <1>2, <1>3, <1>4, <1>u, <1>e DEF TypeOK, Apps, Passes, Reads, Undos, Histories, Someone

LEMMA SaveAccessTyped == ASSUME SessionTypes, SaveAccess PROVE TypeOK'
<1>p. Pairs' = Pairs /\ Disks' = Disks /\ Auths' = Auths /\ Renewals' = Renewals
  BY DEF SaveAccess, work, Pairs, Disks, Auths, Renewals
<1>1. disk' \in Disks'
  BY <1>p, SessionAssumption DEF SessionTypes, TypeOK, Disks, Auths, Renewals, SaveAccess, Someone,
     States, work
<1>u. app' \in Apps /\ auth' \in Auths' /\ renewal' \in Renewals' /\ pass' \in Passes /\ read' \in
      Reads /\ rows' \in [Rows -> [state : States, owner : Someone]] /\ undo' \subseteq Undos /\
      cache' \in [Someone -> SUBSET Users] /\ office' \in [pairs : Seq(TokenPairs), ran : [Rows ->
      SUBSET Users]] /\ hist' \in Histories
  BY <1>p, SessionAssumption DEF SessionTypes, TypeOK, SaveAccess, work
<1>e. eval' \in {"idle", "version", "probe"} /\ link' \in Links /\ timer' \in BOOLEAN
  BY SessionAssumption DEF SessionTypes, TypeOK, SaveAccess, work
<1> QED
  BY <1>1, <1>u, <1>e DEF TypeOK, Apps, Passes, Reads, Undos, Histories, Someone

LEMMA SaveRefreshTyped == ASSUME SessionTypes, SaveRefresh PROVE TypeOK'
<1>p. Pairs' = Pairs /\ Disks' = Disks /\ Auths' = Auths /\ Renewals' = Renewals
  BY DEF SaveRefresh, work, Settle, Pairs, Disks, Auths, Renewals
<1>1. disk' \in Disks'
  BY <1>p, NullTypes, SettleTyped, SessionAssumption DEF SessionTypes, TypeOK, Disks, Auths, Renewals,
     SaveRefresh, Someone, States, work
<1>2. renewal' \in Renewals'
  BY <1>p, NullTypes, SettleTyped, SessionAssumption DEF SessionTypes, TypeOK, Renewals, SaveRefresh,
     Someone, States, work
<1>3. pass' \in Passes
  BY NullTypes, SettleTyped, SessionAssumption DEF SessionTypes, TypeOK, Passes, SaveRefresh, Someone,
     States, work
<1>4. read' \in Reads
  BY NullTypes, SettleTyped, SessionAssumption DEF SessionTypes, TypeOK, Reads, TokenPairs, SaveRefresh,
     Someone, States, work
<1>u. app' \in Apps /\ auth' \in Auths' /\ rows' \in [Rows -> [state : States, owner : Someone]] /\
      undo' \subseteq Undos /\ cache' \in [Someone -> SUBSET Users] /\ office' \in [pairs :
      Seq(TokenPairs), ran : [Rows -> SUBSET Users]] /\ hist' \in Histories
  BY <1>p, NullTypes, SettleTyped, SessionAssumption DEF SessionTypes, TypeOK, SaveRefresh, work
<1>e. eval' \in {"idle", "version", "probe"} /\ link' \in Links /\ timer' \in BOOLEAN
  BY SessionAssumption DEF SessionTypes, TypeOK, SaveRefresh, work
<1> QED
  BY <1>1, <1>2, <1>3, <1>4, <1>u, <1>e DEF TypeOK, Apps, Passes, Reads, Undos, Histories, Someone

LEMMA SessionExpiredTyped == ASSUME SessionTypes, SessionExpired PROVE TypeOK'
<1>p. Pairs' = Pairs /\ Disks' = Disks /\ Auths' = Auths /\ Renewals' = Renewals
  BY DEF SessionExpired, work, Settle, Pairs, Disks, Auths, Renewals
<1>1. disk' \in Disks'
  <2>1. 0 \in Pairs
    BY DEF Pairs
  <2> QED
    BY <1>p, <2>1 DEF SessionTypes, TypeOK, Disks, SessionExpired
<1>2. app' \in Apps
  BY NullTypes, SettleTyped, SessionAssumption DEF SessionTypes, TypeOK, Apps, Disks, Auths,
     SessionExpired, Someone, States, Blocked, work
<1>3. renewal' \in Renewals'
  BY <1>p, NullTypes, SettleTyped, SessionAssumption DEF SessionTypes, TypeOK, Renewals, SessionExpired,
     Someone, States, work
<1>4. pass' \in Passes
  BY NullTypes, SettleTyped, SessionAssumption DEF SessionTypes, TypeOK, Passes, SessionExpired,
     Someone, States, work
<1>5. read' \in Reads
  BY NullTypes, SettleTyped, SessionAssumption DEF SessionTypes, TypeOK, Reads, TokenPairs,
     SessionExpired, Someone, States, work
<1>u. auth' \in Auths' /\ rows' \in [Rows -> [state : States, owner : Someone]] /\ undo' \subseteq
      Undos /\ cache' \in [Someone -> SUBSET Users] /\ office' \in [pairs : Seq(TokenPairs), ran :
      [Rows -> SUBSET Users]] /\ hist' \in Histories
  BY <1>p, NullTypes, SettleTyped, SessionAssumption DEF SessionTypes, TypeOK, SessionExpired, work
<1>e. eval' \in {"idle", "version", "probe"} /\ link' \in Links /\ timer' \in BOOLEAN
  BY SessionAssumption DEF SessionTypes, TypeOK, SessionExpired, work
<1> QED
  BY <1>1, <1>2, <1>3, <1>4, <1>5, <1>u, <1>e DEF TypeOK, Apps, Passes, Reads, Undos, Histories, Someone

LEMMA PassLoadTyped == ASSUME SessionTypes, PassLoad PROVE TypeOK'
<1>p. Pairs' = Pairs /\ Disks' = Disks /\ Auths' = Auths /\ Renewals' = Renewals
  BY DEF PassLoad, LoadPending, MyRows, work, device, Pairs, Disks, Auths, Renewals
<1>1. pass' \in Passes
  <2>1. LoadPending \subseteq Rows
    BY DEF LoadPending, MyRows
  <2> QED
    BY <2>1 DEF SessionTypes, TypeOK, Passes, PassLoad
<1>u. disk' \in Disks' /\ app' \in Apps /\ auth' \in Auths' /\ renewal' \in Renewals' /\ read' \in
      Reads /\ rows' \in [Rows -> [state : States, owner : Someone]] /\ undo' \subseteq Undos /\
      cache' \in [Someone -> SUBSET Users] /\ office' \in [pairs : Seq(TokenPairs), ran : [Rows ->
      SUBSET Users]] /\ hist' \in Histories
  BY <1>p, SessionAssumption DEF SessionTypes, TypeOK, PassLoad, LoadPending, MyRows, device, work
<1>e. eval' \in {"idle", "version", "probe"} /\ link' \in Links /\ timer' \in BOOLEAN
  BY SessionAssumption DEF SessionTypes, TypeOK, PassLoad, LoadPending, MyRows, device, work
<1> QED
  BY <1>1, <1>u, <1>e DEF TypeOK, Apps, Passes, Reads, Undos, Histories, Someone

LEMMA SendRowTyped == ASSUME SessionTypes, SendRow PROVE TypeOK'
BY SendTyped DEF SessionTypes, TypeOK, Passes, SendRow

LEMMA ResendRowTyped == ASSUME SessionTypes, ResendRow PROVE TypeOK'
BY SendTyped DEF SessionTypes, TypeOK, Passes, ResendRow

LEMMA UnauthorizedTyped == ASSUME SessionTypes, Unauthorized PROVE TypeOK'
<1>p. Pairs' = Pairs /\ Disks' = Disks /\ Auths' = Auths /\ Renewals' = Renewals
  BY DEF Unauthorized, work, device, JoinRenewal, Pairs, Disks, Auths, Renewals
<1>1. renewal' \in Renewals'
  BY <1>p, JoinTyped, NullTypes, SessionAssumption DEF SessionTypes, TypeOK, Renewals, Unauthorized,
     Someone, States, device, work
<1>2. pass' \in Passes
  BY JoinTyped, NullTypes, SessionAssumption DEF SessionTypes, TypeOK, Passes, Unauthorized, Someone,
     States, device, work
<1>3. read' \in Reads
  BY JoinTyped, NullTypes, SessionAssumption DEF SessionTypes, TypeOK, Reads, TokenPairs, Unauthorized,
     Someone, States, device, work
<1>u. disk' \in Disks' /\ app' \in Apps /\ auth' \in Auths' /\ rows' \in [Rows -> [state : States,
      owner : Someone]] /\ undo' \subseteq Undos /\ cache' \in [Someone -> SUBSET Users] /\ office'
      \in [pairs : Seq(TokenPairs), ran : [Rows -> SUBSET Users]] /\ hist' \in Histories
  BY <1>p, JoinTyped, NullTypes, SessionAssumption DEF SessionTypes, TypeOK, Unauthorized, device, work
<1>e. eval' \in {"idle", "version", "probe"} /\ link' \in Links /\ timer' \in BOOLEAN
  BY SessionAssumption DEF SessionTypes, TypeOK, Unauthorized, device, work
<1> QED
  BY <1>1, <1>2, <1>3, <1>u, <1>e DEF TypeOK, Apps, Passes, Reads, Undos, Histories, Someone

LEMMA RowDoneTyped == ASSUME SessionTypes, RowDone PROVE TypeOK'
<1>p. Pairs' = Pairs /\ Disks' = Disks /\ Auths' = Auths /\ Renewals' = Renewals
  BY DEF RowDone, StateFor, work, device, Pairs, Disks, Auths, Renewals
<1>1. pass' \in Passes
  BY SessionAssumption DEF SessionTypes, TypeOK, Passes, RowDone, StateFor, Someone, States, device,
     work
<1>u. disk' \in Disks' /\ app' \in Apps /\ auth' \in Auths' /\ renewal' \in Renewals' /\ read' \in
      Reads /\ rows' \in [Rows -> [state : States, owner : Someone]] /\ undo' \subseteq Undos /\
      cache' \in [Someone -> SUBSET Users] /\ office' \in [pairs : Seq(TokenPairs), ran : [Rows ->
      SUBSET Users]] /\ hist' \in Histories
  BY <1>p, SessionAssumption DEF SessionTypes, TypeOK, RowDone, StateFor, device, work
<1>e. eval' \in {"idle", "version", "probe"} /\ link' \in Links /\ timer' \in BOOLEAN
  BY SessionAssumption DEF SessionTypes, TypeOK, RowDone, StateFor, device, work
<1> QED
  BY <1>1, <1>u, <1>e DEF TypeOK, Apps, Passes, Reads, Undos, Histories, Someone

LEMMA PassWritebackTyped == ASSUME SessionTypes, PassWriteback PROVE TypeOK'
<1>p. Pairs' = Pairs /\ Disks' = Disks /\ Auths' = Auths /\ Renewals' = Renewals
  BY DEF PassWriteback, SavedRow, device, Pairs, Disks, Auths, Renewals
<1>1. pass' \in Passes
  BY SessionAssumption DEF SessionTypes, TypeOK, Passes, PassWriteback, SavedRow, Someone, States,
     device
<1>2. rows' \in [Rows -> [state : States, owner : Someone]]
  BY SessionAssumption DEF SessionTypes, TypeOK, Apps, Passes, Undos, PassWriteback, SavedRow, Someone,
     States, Blocked, device
<1>u. disk' \in Disks' /\ app' \in Apps /\ auth' \in Auths' /\ renewal' \in Renewals' /\ read' \in
      Reads /\ undo' \subseteq Undos /\ cache' \in [Someone -> SUBSET Users] /\ office' \in [pairs :
      Seq(TokenPairs), ran : [Rows -> SUBSET Users]] /\ hist' \in Histories
  BY <1>p, SessionAssumption DEF SessionTypes, TypeOK, PassWriteback, SavedRow, device
<1>e. eval' \in {"idle", "version", "probe"} /\ link' \in Links /\ timer' \in BOOLEAN
  BY SessionAssumption DEF SessionTypes, TypeOK, PassWriteback, SavedRow, device
<1> QED
  BY <1>1, <1>2, <1>u, <1>e DEF TypeOK, Apps, Passes, Reads, Undos, Histories, Someone

LEMMA PassEndTyped == ASSUME SessionTypes, PassEnd PROVE TypeOK'
<1>p. Pairs' = Pairs /\ Disks' = Disks /\ Auths' = Auths /\ Renewals' = Renewals
  BY DEF PassEnd, work, device, Pairs, Disks, Auths, Renewals
<1>1. pass' \in Passes
  BY NullTypes, SessionAssumption DEF SessionTypes, TypeOK, Passes, PassEnd, Someone, States, device,
     work
<1>u. disk' \in Disks' /\ app' \in Apps /\ auth' \in Auths' /\ renewal' \in Renewals' /\ read' \in
      Reads /\ rows' \in [Rows -> [state : States, owner : Someone]] /\ undo' \subseteq Undos /\
      cache' \in [Someone -> SUBSET Users] /\ office' \in [pairs : Seq(TokenPairs), ran : [Rows ->
      SUBSET Users]] /\ hist' \in Histories
  BY <1>p, NullTypes, SessionAssumption DEF SessionTypes, TypeOK, PassEnd, device, work
<1>e. eval' \in {"idle", "version", "probe"} /\ link' \in Links /\ timer' \in BOOLEAN
  BY SessionAssumption DEF SessionTypes, TypeOK, PassEnd, device, work
<1> QED
  BY <1>1, <1>u, <1>e DEF TypeOK, Apps, Passes, Reads, Undos, Histories, Someone

LEMMA ReadSendTyped == ASSUME SessionTypes, ReadSend PROVE TypeOK'
<1>p. Pairs' = Pairs /\ Disks' = Disks /\ Auths' = Auths /\ Renewals' = Renewals
  BY DEF ReadSend, Reply, work, device, Pairs, Disks, Auths, Renewals
<1>1. read' \in Reads
  <2>1. disk.access \in Pairs
    BY DEF SessionTypes, TypeOK, Disks
  <2>2. Bearer(disk.access) \in Someone
    BY <2>1, BearerTyped DEF SessionTypes, Someone
  <2> QED
    BY <2>2, NullTypes DEF SessionTypes, TypeOK, Reads, ReadSend
<1>u. disk' \in Disks' /\ app' \in Apps /\ auth' \in Auths' /\ renewal' \in Renewals' /\ pass' \in
      Passes /\ rows' \in [Rows -> [state : States, owner : Someone]] /\ undo' \subseteq Undos /\
      cache' \in [Someone -> SUBSET Users] /\ office' \in [pairs : Seq(TokenPairs), ran : [Rows ->
      SUBSET Users]] /\ hist' \in Histories
  BY <1>p, NullTypes, SessionAssumption DEF SessionTypes, TypeOK, ReadSend, Reply, device, work
<1>e. eval' \in {"idle", "version", "probe"} /\ link' \in Links /\ timer' \in BOOLEAN
  BY SessionAssumption DEF SessionTypes, TypeOK, ReadSend, Reply, device, work
<1> QED
  BY <1>1, <1>u, <1>e DEF TypeOK, Apps, Passes, Reads, Undos, Histories, Someone

LEMMA ReadUnauthorizedTyped == ASSUME SessionTypes, ReadUnauthorized PROVE TypeOK'
<1>p. Pairs' = Pairs /\ Disks' = Disks /\ Auths' = Auths /\ Renewals' = Renewals
  BY DEF ReadUnauthorized, work, device, JoinRenewal, Pairs, Disks, Auths, Renewals
<1>1. renewal' \in Renewals'
  BY <1>p, JoinTyped, NullTypes, SessionAssumption DEF SessionTypes, TypeOK, Renewals, ReadUnauthorized,
     Someone, States, device, work
<1>2. pass' \in Passes
  BY JoinTyped, NullTypes, SessionAssumption DEF SessionTypes, TypeOK, Passes, ReadUnauthorized,
     Someone, States, device, work
<1>3. read' \in Reads
  BY JoinTyped, NullTypes, SessionAssumption DEF SessionTypes, TypeOK, Reads, TokenPairs,
     ReadUnauthorized, Someone, States, device, work
<1>u. disk' \in Disks' /\ app' \in Apps /\ auth' \in Auths' /\ rows' \in [Rows -> [state : States,
      owner : Someone]] /\ undo' \subseteq Undos /\ cache' \in [Someone -> SUBSET Users] /\ office'
      \in [pairs : Seq(TokenPairs), ran : [Rows -> SUBSET Users]] /\ hist' \in Histories
  BY <1>p, JoinTyped, NullTypes, SessionAssumption DEF SessionTypes, TypeOK, ReadUnauthorized, device,
     work
<1>e. eval' \in {"idle", "version", "probe"} /\ link' \in Links /\ timer' \in BOOLEAN
  BY SessionAssumption DEF SessionTypes, TypeOK, ReadUnauthorized, device, work
<1> QED
  BY <1>1, <1>2, <1>3, <1>u, <1>e DEF TypeOK, Apps, Passes, Reads, Undos, Histories, Someone

LEMMA ReadCachedTyped == ASSUME SessionTypes, ReadCached PROVE TypeOK'
<1>p. Pairs' = Pairs /\ Disks' = Disks /\ Auths' = Auths /\ Renewals' = Renewals
  BY DEF ReadCached, CacheScope, device, Pairs, Disks, Auths, Renewals
<1>1. read' \in Reads
  BY NullTypes, SessionAssumption DEF SessionTypes, TypeOK, Reads, TokenPairs, ReadCached, CacheScope,
     Someone, States, device
<1>2. cache' \in [Someone -> SUBSET Users]
  BY SessionAssumption DEF SessionTypes, Filled, TypeOK, Apps, Reads, ReadCached, CacheScope, Someone
<1>u. disk' \in Disks' /\ app' \in Apps /\ auth' \in Auths' /\ renewal' \in Renewals' /\ pass' \in
      Passes /\ rows' \in [Rows -> [state : States, owner : Someone]] /\ undo' \subseteq Undos /\
      office' \in [pairs : Seq(TokenPairs), ran : [Rows -> SUBSET Users]] /\ hist' \in Histories
  BY <1>p, NullTypes, SessionAssumption DEF SessionTypes, TypeOK, ReadCached, CacheScope, device
<1>e. eval' \in {"idle", "version", "probe"} /\ link' \in Links /\ timer' \in BOOLEAN
  BY SessionAssumption DEF SessionTypes, TypeOK, ReadCached, CacheScope, device
<1> QED
  BY <1>1, <1>2, <1>u, <1>e DEF TypeOK, Apps, Passes, Reads, Undos, Histories, Someone

LEMMA LoginViaRelayTyped == ASSUME NEW u \in Users, SessionTypes, LoginViaRelay(u) PROVE TypeOK'
<1>i. /\ office'.pairs = Issue(u, NewFamily) /\ office' = [office EXCEPT !.pairs = Issue(u, NewFamily)]
      /\ Issue(u, NewFamily) \in Seq(TokenPairs) /\ Len(Issue(u, NewFamily)) = Len(office.pairs) + 1
      /\ Len(office.pairs) \in Nat
  <2>1. NewFamily \in Nat
    BY DEF SessionTypes, TypeOK, NewFamily
  <2>2. [user |-> u, fam |-> NewFamily, revoked |-> FALSE, expired |-> FALSE, dead |-> FALSE] \in
        TokenPairs
    BY <2>1 DEF TokenPairs
  <2>3. office.pairs \in Seq(TokenPairs)
    BY DEF SessionTypes, TypeOK
  <2>4. Issue(u, NewFamily) \in Seq(TokenPairs) /\ Len(Issue(u, NewFamily)) = Len(office.pairs) + 1
    BY <2>2, <2>3, AppendTyped DEF Issue
  <2> QED
    BY <2>3, <2>4 DEF LoginViaRelay, SessionTypes, TypeOK
<1>q. Pairs \subseteq Pairs'
  BY <1>i DEF Pairs
<1>n. hist.events + 1 \in Nat /\ hist.reads + 1 \in Nat
  BY DEF SessionTypes, TypeOK, Histories
<1>1. auth' \in Auths'
  BY <1>i DEF Auths, Pairs, Someone, LoginViaRelay
<1>2. office' \in [pairs : Seq(TokenPairs), ran : [Rows -> SUBSET Users]]
  BY <1>i, OfficeTyped DEF SessionTypes, LoginViaRelay
<1>3. hist' \in Histories
  BY <1>n, SessionAssumption DEF SessionTypes, TypeOK, Histories, Apps, Undos, LoginViaRelay, Issue,
     NewFamily, Spend, Someone, States, Blocked, work
<1>u. disk' \in Disks' /\ app' \in Apps /\ renewal' \in Renewals' /\ pass' \in Passes /\ read' \in
      Reads /\ rows' \in [Rows -> [state : States, owner : Someone]] /\ undo' \subseteq Undos /\
      cache' \in [Someone -> SUBSET Users]
  BY <1>q, SessionAssumption DEF SessionTypes, TypeOK, Disks, Renewals, LoginViaRelay, Issue, NewFamily,
     Spend, work
<1>e. eval' \in {"idle", "version", "probe"} /\ link' \in Links /\ timer' \in BOOLEAN
  BY SessionAssumption DEF SessionTypes, TypeOK, LoginViaRelay, Issue, NewFamily, Spend, work
<1> QED
  BY <1>1, <1>2, <1>3, <1>u, <1>e DEF TypeOK, Apps, Passes, Reads, Undos, Histories, Someone

LEMMA LogoutTokensTyped == ASSUME SessionTypes, LogoutTokens PROVE TypeOK'
<1>p. Pairs' = Pairs /\ Disks' = Disks /\ Auths' = Auths /\ Renewals' = Renewals
  BY DEF LogoutTokens, NoAuth, work, Pairs, Disks, Auths, Renewals
<1>1. disk' \in Disks'
  BY <1>p, NullTypes, SessionAssumption DEF SessionTypes, TypeOK, Disks, Auths, Renewals, LogoutTokens,
     NoAuth, Someone, States, work
<1>2. auth' \in Auths'
  BY <1>p, NullTypes, SessionAssumption DEF SessionTypes, TypeOK, Auths, LogoutTokens, NoAuth, Someone,
     States, work
<1>u. app' \in Apps /\ renewal' \in Renewals' /\ pass' \in Passes /\ read' \in Reads /\ rows' \in
      [Rows -> [state : States, owner : Someone]] /\ undo' \subseteq Undos /\ cache' \in [Someone ->
      SUBSET Users] /\ office' \in [pairs : Seq(TokenPairs), ran : [Rows -> SUBSET Users]] /\ hist'
      \in Histories
  BY <1>p, NullTypes, SessionAssumption DEF SessionTypes, TypeOK, LogoutTokens, NoAuth, work
<1>e. eval' \in {"idle", "version", "probe"} /\ link' \in Links /\ timer' \in BOOLEAN
  BY SessionAssumption DEF SessionTypes, TypeOK, LogoutTokens, NoAuth, work
<1> QED
  BY <1>1, <1>2, <1>u, <1>e DEF TypeOK, Apps, Passes, Reads, Undos, Histories, Someone

LEMMA QueueMutationTyped == ASSUME NEW r \in Rows, SessionTypes, QueueMutation(r) PROVE TypeOK'
<1>n. hist.events + 1 \in Nat /\ hist.reads + 1 \in Nat
  BY DEF SessionTypes, TypeOK, Histories
<1>p. Pairs' = Pairs /\ Disks' = Disks /\ Auths' = Auths /\ Renewals' = Renewals
  BY DEF QueueMutation, device, Pairs, Disks, Auths, Renewals
<1>1. pass' \in Passes
  BY RunSyncTyped, SessionAssumption DEF SessionTypes, TypeOK, Passes, QueueMutation, Someone, States,
     device
<1>2. rows' \in [Rows -> [state : States, owner : Someone]]
  BY RunSyncTyped, SessionAssumption DEF SessionTypes, TypeOK, Apps, Passes, Undos, QueueMutation,
     Someone, States, Blocked, device
<1>3. hist' \in Histories
  BY <1>n, RunSyncTyped, SessionAssumption DEF SessionTypes, TypeOK, Histories, Apps, Undos,
     QueueMutation, Someone, States, Blocked, device
<1>u. disk' \in Disks' /\ app' \in Apps /\ auth' \in Auths' /\ renewal' \in Renewals' /\ read' \in
      Reads /\ undo' \subseteq Undos /\ cache' \in [Someone -> SUBSET Users] /\ office' \in [pairs :
      Seq(TokenPairs), ran : [Rows -> SUBSET Users]]
  BY <1>p, RunSyncTyped, SessionAssumption DEF SessionTypes, TypeOK, QueueMutation, device
<1>e. eval' \in {"idle", "version", "probe"} /\ link' \in Links /\ timer' \in BOOLEAN
  BY SessionAssumption DEF SessionTypes, TypeOK, QueueMutation, device
<1> QED
  BY <1>1, <1>2, <1>3, <1>u, <1>e DEF TypeOK, Apps, Passes, Reads, Undos, Histories, Someone

LEMMA SyncNowTyped == ASSUME SessionTypes, SyncNow PROVE TypeOK'
<1>p. Pairs' = Pairs /\ Disks' = Disks /\ Auths' = Auths /\ Renewals' = Renewals
  BY DEF SyncNow, work, device, Pairs, Disks, Auths, Renewals
<1>1. pass' \in Passes
  BY RunSyncTyped, SessionAssumption DEF SessionTypes, TypeOK, Passes, SyncNow, Someone, States, device,
     work
<1>u. disk' \in Disks' /\ app' \in Apps /\ auth' \in Auths' /\ renewal' \in Renewals' /\ read' \in
      Reads /\ rows' \in [Rows -> [state : States, owner : Someone]] /\ undo' \subseteq Undos /\
      cache' \in [Someone -> SUBSET Users] /\ office' \in [pairs : Seq(TokenPairs), ran : [Rows ->
      SUBSET Users]] /\ hist' \in Histories
  BY <1>p, RunSyncTyped, SessionAssumption DEF SessionTypes, TypeOK, SyncNow, device, work
<1>e. eval' \in {"idle", "version", "probe"} /\ link' \in Links /\ timer' \in BOOLEAN
  BY SessionAssumption DEF SessionTypes, TypeOK, SyncNow, device, work
<1> QED
  BY <1>1, <1>u, <1>e DEF TypeOK, Apps, Passes, Reads, Undos, Histories, Someone

LEMMA TimerFiresTyped == ASSUME SessionTypes, TimerFires PROVE TypeOK'
<1>p. Pairs' = Pairs /\ Disks' = Disks /\ Auths' = Auths /\ Renewals' = Renewals
  BY DEF TimerFires, work, device, Pairs, Disks, Auths, Renewals
<1>1. pass' \in Passes
  BY RunSyncTyped, SessionAssumption DEF SessionTypes, TypeOK, Passes, TimerFires, Someone, States,
     device, work
<1>u. disk' \in Disks' /\ app' \in Apps /\ auth' \in Auths' /\ renewal' \in Renewals' /\ read' \in
      Reads /\ rows' \in [Rows -> [state : States, owner : Someone]] /\ undo' \subseteq Undos /\
      cache' \in [Someone -> SUBSET Users] /\ office' \in [pairs : Seq(TokenPairs), ran : [Rows ->
      SUBSET Users]] /\ hist' \in Histories
  BY <1>p, RunSyncTyped, SessionAssumption DEF SessionTypes, TypeOK, TimerFires, device, work
<1>e. eval' \in {"idle", "version", "probe"} /\ link' \in Links /\ timer' \in BOOLEAN
  BY SessionAssumption DEF SessionTypes, TypeOK, TimerFires, device, work
<1> QED
  BY <1>1, <1>u, <1>e DEF TypeOK, Apps, Passes, Reads, Undos, Histories, Someone

LEMMA ReadStartTyped == ASSUME SessionTypes, ReadStart PROVE TypeOK'
<1>n. hist.events + 1 \in Nat /\ hist.reads + 1 \in Nat
  BY DEF SessionTypes, TypeOK, Histories
<1>p. Pairs' = Pairs /\ Disks' = Disks /\ Auths' = Auths /\ Renewals' = Renewals
  BY DEF ReadStart, Spend, work, device, Pairs, Disks, Auths, Renewals
<1>1. read' \in Reads
  BY NullTypes, SessionAssumption DEF SessionTypes, TypeOK, Reads, TokenPairs, ReadStart, Spend,
     Someone, States, device, work
<1>2. hist' \in Histories
  BY <1>n, NullTypes, SessionAssumption DEF SessionTypes, TypeOK, Histories, Apps, Undos, ReadStart,
     Spend, Someone, States, Blocked, device, work
<1>u. disk' \in Disks' /\ app' \in Apps /\ auth' \in Auths' /\ renewal' \in Renewals' /\ pass' \in
      Passes /\ rows' \in [Rows -> [state : States, owner : Someone]] /\ undo' \subseteq Undos /\
      cache' \in [Someone -> SUBSET Users] /\ office' \in [pairs : Seq(TokenPairs), ran : [Rows ->
      SUBSET Users]]
  BY <1>p, NullTypes, SessionAssumption DEF SessionTypes, TypeOK, ReadStart, Spend, device, work
<1>e. eval' \in {"idle", "version", "probe"} /\ link' \in Links /\ timer' \in BOOLEAN
  BY SessionAssumption DEF SessionTypes, TypeOK, ReadStart, Spend, device, work
<1> QED
  BY <1>1, <1>2, <1>u, <1>e DEF TypeOK, Apps, Passes, Reads, Undos, Histories, Someone

LEMMA RemoveMutationTyped == ASSUME SessionTypes, RemoveMutation PROVE TypeOK'
<1> PICK r \in LoadPending : DropRows({r})
  BY DEF RemoveMutation
<1> QED
  BY DropTyped DEF SessionTypes

LEMMA RemoveAllStuckTyped == ASSUME SessionTypes, RemoveAllStuck PROVE TypeOK'
BY DropTyped DEF SessionTypes, RemoveAllStuck

LEMMA RestoreMutationsTyped == ASSUME SessionTypes, RestoreMutations PROVE TypeOK'
<1>n. hist.events + 1 \in Nat /\ hist.reads + 1 \in Nat
  BY DEF SessionTypes, TypeOK, Histories
<1>p. Pairs' = Pairs /\ Disks' = Disks /\ Auths' = Auths /\ Renewals' = Renewals
  BY DEF RestoreMutations, device, Pairs, Disks, Auths, Renewals
<1>1. rows' \in [Rows -> [state : States, owner : Someone]]
  BY SessionAssumption DEF SessionTypes, TypeOK, Apps, Passes, Undos, RestoreMutations, Someone, States,
     Blocked, device
<1>2. undo' \subseteq Undos
  BY SessionAssumption DEF SessionTypes, TypeOK, Undos, Apps, RestoreMutations, Someone, States,
     Blocked, device
<1>3. hist' \in Histories
  BY <1>n, SessionAssumption DEF SessionTypes, TypeOK, Histories, Apps, Undos, RestoreMutations,
     Someone, States, Blocked, device
<1>u. disk' \in Disks' /\ app' \in Apps /\ auth' \in Auths' /\ renewal' \in Renewals' /\ pass' \in
      Passes /\ read' \in Reads /\ cache' \in [Someone -> SUBSET Users] /\ office' \in [pairs :
      Seq(TokenPairs), ran : [Rows -> SUBSET Users]]
  BY <1>p, SessionAssumption DEF SessionTypes, TypeOK, RestoreMutations, device
<1>e. eval' \in {"idle", "version", "probe"} /\ link' \in Links /\ timer' \in BOOLEAN
  BY SessionAssumption DEF SessionTypes, TypeOK, RestoreMutations, device
<1> QED
  BY <1>1, <1>2, <1>3, <1>u, <1>e DEF TypeOK, Apps, Passes, Reads, Undos, Histories, Someone

LEMMA UndoExpiresTyped == ASSUME SessionTypes, UndoExpires PROVE TypeOK'
<1>p. Pairs' = Pairs /\ Disks' = Disks /\ Auths' = Auths /\ Renewals' = Renewals
  BY DEF UndoExpires, device, Pairs, Disks, Auths, Renewals
<1>1. undo' \subseteq Undos
  BY SessionAssumption DEF SessionTypes, TypeOK, Undos, Apps, UndoExpires, Someone, States, Blocked,
     device
<1>u. disk' \in Disks' /\ app' \in Apps /\ auth' \in Auths' /\ renewal' \in Renewals' /\ pass' \in
      Passes /\ read' \in Reads /\ rows' \in [Rows -> [state : States, owner : Someone]] /\ cache'
      \in [Someone -> SUBSET Users] /\ office' \in [pairs : Seq(TokenPairs), ran : [Rows -> SUBSET
      Users]] /\ hist' \in Histories
  BY <1>p, SessionAssumption DEF SessionTypes, TypeOK, UndoExpires, device
<1>e. eval' \in {"idle", "version", "probe"} /\ link' \in Links /\ timer' \in BOOLEAN
  BY SessionAssumption DEF SessionTypes, TypeOK, UndoExpires, device
<1> QED
  BY <1>1, <1>u, <1>e DEF TypeOK, Apps, Passes, Reads, Undos, Histories, Someone

LEMMA AccessExpiresTyped == ASSUME SessionTypes, AccessExpires PROVE TypeOK'
<1> DEFINE t == [office.pairs[disk.access] EXCEPT !.expired = TRUE]
           ps == [office.pairs EXCEPT ![disk.access] = t]
<1>o. office' = [office EXCEPT !.pairs = ps] /\ ps \in Seq(TokenPairs) /\ Len(ps) =
      Len(office.pairs) /\ office'.pairs = ps
  <2>1. disk.access \in 1..Len(office.pairs) /\ office.pairs[disk.access] \in TokenPairs
    BY TokenTyped DEF AccessExpires, Aged, SessionTypes, TypeOK, Disks
  <2>2. t \in TokenPairs
    BY <2>1 DEF TokenPairs
  <2>3. office.pairs \in Seq(TokenPairs)
    BY DEF SessionTypes, TypeOK
  <2>4. ps \in Seq(TokenPairs) /\ Len(ps) = Len(office.pairs)
    BY <2>1, <2>2, <2>3, MarkTyped
  <2>5. office' = [office EXCEPT !.pairs = ps]
    BY <2>1, <2>3 DEF AccessExpires, SessionTypes, TypeOK
  <2> QED
    BY <2>4, <2>5 DEF SessionTypes, TypeOK
<1> HIDE DEF ps, t
<1>q. Pairs \subseteq Pairs'
  BY <1>o DEF Pairs
<1>n. hist.events + 1 \in Nat /\ hist.reads + 1 \in Nat
  BY DEF SessionTypes, TypeOK, Histories
<1>1. office' \in [pairs : Seq(TokenPairs), ran : [Rows -> SUBSET Users]]
  BY <1>o, OfficeTyped DEF SessionTypes
<1>2. hist' \in Histories
  BY <1>n, SessionAssumption DEF SessionTypes, TypeOK, Histories, Apps, Undos, AccessExpires, Aged,
     Spend, Someone, States, Blocked, device, work
<1>u. disk' \in Disks' /\ app' \in Apps /\ auth' \in Auths' /\ renewal' \in Renewals' /\ pass' \in
      Passes /\ read' \in Reads /\ rows' \in [Rows -> [state : States, owner : Someone]] /\ undo'
      \subseteq Undos /\ cache' \in [Someone -> SUBSET Users]
  BY <1>q, SessionAssumption DEF SessionTypes, TypeOK, Disks, Auths, Renewals, AccessExpires, Aged,
     Spend, device, work
<1>e. eval' \in {"idle", "version", "probe"} /\ link' \in Links /\ timer' \in BOOLEAN
  BY SessionAssumption DEF SessionTypes, TypeOK, AccessExpires, Aged, Spend, device, work
<1> QED
  BY <1>1, <1>2, <1>u, <1>e DEF TypeOK, Apps, Passes, Reads, Undos, Histories, Someone

LEMMA RefreshExpiresTyped == ASSUME SessionTypes, RefreshExpires PROVE TypeOK'
<1> DEFINE t == [office.pairs[disk.refresh] EXCEPT !.dead = TRUE, !.expired = TRUE]
           ps == [office.pairs EXCEPT ![disk.refresh] = t]
<1>o. office' = [office EXCEPT !.pairs = ps] /\ ps \in Seq(TokenPairs) /\ Len(ps) =
      Len(office.pairs) /\ office'.pairs = ps
  <2>1. disk.refresh \in 1..Len(office.pairs) /\ office.pairs[disk.refresh] \in TokenPairs
    BY TokenTyped DEF RefreshExpires, Aged, SessionTypes, TypeOK, Disks
  <2>2. t \in TokenPairs
    BY <2>1 DEF TokenPairs
  <2>3. office.pairs \in Seq(TokenPairs)
    BY DEF SessionTypes, TypeOK
  <2>4. ps \in Seq(TokenPairs) /\ Len(ps) = Len(office.pairs)
    BY <2>1, <2>2, <2>3, MarkTyped
  <2>5. office' = [office EXCEPT !.pairs = ps]
    BY <2>1, <2>3 DEF RefreshExpires, SessionTypes, TypeOK
  <2> QED
    BY <2>4, <2>5 DEF SessionTypes, TypeOK
<1> HIDE DEF ps, t
<1>q. Pairs \subseteq Pairs'
  BY <1>o DEF Pairs
<1>n. hist.events + 1 \in Nat /\ hist.reads + 1 \in Nat
  BY DEF SessionTypes, TypeOK, Histories
<1>1. office' \in [pairs : Seq(TokenPairs), ran : [Rows -> SUBSET Users]]
  BY <1>o, OfficeTyped DEF SessionTypes
<1>2. hist' \in Histories
  BY <1>n, SessionAssumption DEF SessionTypes, TypeOK, Histories, Apps, Undos, RefreshExpires, Aged,
     Spend, Someone, States, Blocked, device, work
<1>u. disk' \in Disks' /\ app' \in Apps /\ auth' \in Auths' /\ renewal' \in Renewals' /\ pass' \in
      Passes /\ read' \in Reads /\ rows' \in [Rows -> [state : States, owner : Someone]] /\ undo'
      \subseteq Undos /\ cache' \in [Someone -> SUBSET Users]
  BY <1>q, SessionAssumption DEF SessionTypes, TypeOK, Disks, Auths, Renewals, RefreshExpires, Aged,
     Spend, device, work
<1>e. eval' \in {"idle", "version", "probe"} /\ link' \in Links /\ timer' \in BOOLEAN
  BY SessionAssumption DEF SessionTypes, TypeOK, RefreshExpires, Aged, Spend, device, work
<1> QED
  BY <1>1, <1>2, <1>u, <1>e DEF TypeOK, Apps, Passes, Reads, Undos, Histories, Someone

LEMMA LinkChangesTyped == ASSUME SessionTypes, LinkChanges PROVE TypeOK'
<1>n. hist.events + 1 \in Nat /\ hist.reads + 1 \in Nat
  BY DEF SessionTypes, TypeOK, Histories
<1>p. Pairs' = Pairs /\ Disks' = Disks /\ Auths' = Auths /\ Renewals' = Renewals
  BY DEF LinkChanges, Spend, work, device, Pairs, Disks, Auths, Renewals
<1>1. pass' \in Passes
  BY RunSyncTyped, SessionAssumption DEF SessionTypes, TypeOK, Passes, LinkChanges, Spend, Someone,
     States, device, work
<1>2. hist' \in Histories
  BY <1>n, RunSyncTyped, SessionAssumption DEF SessionTypes, TypeOK, Histories, Apps, Undos,
     LinkChanges, Spend, Someone, States, Blocked, device, work
<1>u. disk' \in Disks' /\ app' \in Apps /\ auth' \in Auths' /\ renewal' \in Renewals' /\ read' \in
      Reads /\ rows' \in [Rows -> [state : States, owner : Someone]] /\ undo' \subseteq Undos /\
      cache' \in [Someone -> SUBSET Users] /\ office' \in [pairs : Seq(TokenPairs), ran : [Rows ->
      SUBSET Users]]
  BY <1>p, RunSyncTyped, SessionAssumption DEF SessionTypes, TypeOK, LinkChanges, Spend, device, work
<1>e. eval' \in {"idle", "version", "probe"} /\ link' \in Links /\ timer' \in BOOLEAN
  BY SessionAssumption DEF SessionTypes, TypeOK, LinkChanges, Spend, device, work
<1> QED
  BY <1>1, <1>2, <1>u, <1>e DEF TypeOK, Apps, Passes, Reads, Undos, Histories, Someone

LEMMA AnswerLostTyped == ASSUME SessionTypes, AnswerLost PROVE TypeOK'
<1>n. hist.events + 1 \in Nat /\ hist.reads + 1 \in Nat
  BY DEF SessionTypes, TypeOK, Histories
<1>p. Pairs' = Pairs /\ Disks' = Disks /\ Auths' = Auths /\ Renewals' = Renewals
  BY DEF AnswerLost, work, device, Pairs, Disks, Auths, Renewals
<1>1. pass' \in Passes
  BY SessionAssumption DEF SessionTypes, TypeOK, Passes, AnswerLost, Someone, States, device, work
<1>2. hist' \in Histories
  BY <1>n, SessionAssumption DEF SessionTypes, TypeOK, Histories, Apps, Undos, AnswerLost, Someone,
     States, Blocked, device, work
<1>u. disk' \in Disks' /\ app' \in Apps /\ auth' \in Auths' /\ renewal' \in Renewals' /\ read' \in
      Reads /\ rows' \in [Rows -> [state : States, owner : Someone]] /\ undo' \subseteq Undos /\
      cache' \in [Someone -> SUBSET Users] /\ office' \in [pairs : Seq(TokenPairs), ran : [Rows ->
      SUBSET Users]]
  BY <1>p, SessionAssumption DEF SessionTypes, TypeOK, AnswerLost, device, work
<1>e. eval' \in {"idle", "version", "probe"} /\ link' \in Links /\ timer' \in BOOLEAN
  BY SessionAssumption DEF SessionTypes, TypeOK, AnswerLost, device, work
<1> QED
  BY <1>1, <1>2, <1>u, <1>e DEF TypeOK, Apps, Passes, Reads, Undos, Histories, Someone

LEMMA RenewLostTyped == ASSUME SessionTypes, RenewLost PROVE TypeOK'
<1>n. hist.events + 1 \in Nat /\ hist.reads + 1 \in Nat
  BY DEF SessionTypes, TypeOK, Histories
<1>p. Pairs' = Pairs /\ Disks' = Disks /\ Auths' = Auths /\ Renewals' = Renewals
  BY DEF RenewLost, work, device, Settle, Pairs, Disks, Auths, Renewals
<1>1. renewal' \in Renewals'
  BY <1>p, NullTypes, SettleTyped, SessionAssumption DEF SessionTypes, TypeOK, Renewals, RenewLost,
     Someone, States, device, work
<1>2. pass' \in Passes
  BY NullTypes, SettleTyped, SessionAssumption DEF SessionTypes, TypeOK, Passes, RenewLost, Someone,
     States, device, work
<1>3. read' \in Reads
  BY NullTypes, SettleTyped, SessionAssumption DEF SessionTypes, TypeOK, Reads, TokenPairs, RenewLost,
     Someone, States, device, work
<1>4. hist' \in Histories
  BY <1>n, NullTypes, SettleTyped, SessionAssumption DEF SessionTypes, TypeOK, Histories, Apps, Undos,
     RenewLost, Someone, States, Blocked, device, work
<1>u. disk' \in Disks' /\ app' \in Apps /\ auth' \in Auths' /\ rows' \in [Rows -> [state : States,
      owner : Someone]] /\ undo' \subseteq Undos /\ cache' \in [Someone -> SUBSET Users] /\ office'
      \in [pairs : Seq(TokenPairs), ran : [Rows -> SUBSET Users]]
  BY <1>p, NullTypes, SettleTyped, SessionAssumption DEF SessionTypes, TypeOK, RenewLost, device, work
<1>e. eval' \in {"idle", "version", "probe"} /\ link' \in Links /\ timer' \in BOOLEAN
  BY SessionAssumption DEF SessionTypes, TypeOK, RenewLost, device, work
<1> QED
  BY <1>1, <1>2, <1>3, <1>4, <1>u, <1>e DEF TypeOK, Apps, Passes, Reads, Undos, Histories, Someone

LEMMA CrashTyped == ASSUME SessionTypes, Crash PROVE TypeOK'
<1>n. hist.events + 1 \in Nat /\ hist.reads + 1 \in Nat
  BY DEF SessionTypes, TypeOK, Histories
<1>p. Pairs' = Pairs /\ Disks' = Disks /\ Auths' = Auths /\ Renewals' = Renewals
  BY DEF Crash, Pairs, Disks, Auths, Renewals
<1>1. app' \in Apps
  BY NullTypes, SessionAssumption DEF SessionTypes, TypeOK, Apps, Disks, Auths, Crash, Someone, States,
     Blocked
<1>2. auth' \in Auths'
  BY <1>p, NullTypes, SessionAssumption DEF SessionTypes, TypeOK, Auths, Crash, Someone, States
<1>3. renewal' \in Renewals'
  BY <1>p, NullTypes, SessionAssumption DEF SessionTypes, TypeOK, Renewals, Crash, Someone, States
<1>4. pass' \in Passes
  BY NullTypes, SessionAssumption DEF SessionTypes, TypeOK, Passes, Crash, Someone, States
<1>5. read' \in Reads
  BY NullTypes, SessionAssumption DEF SessionTypes, TypeOK, Reads, TokenPairs, Crash, Someone, States
<1>6. undo' \subseteq Undos
  BY NullTypes, SessionAssumption DEF SessionTypes, TypeOK, Undos, Apps, Crash, Someone, States, Blocked
<1>7. hist' \in Histories
  BY <1>n, NullTypes, SessionAssumption DEF SessionTypes, TypeOK, Histories, Apps, Undos, Crash,
     Someone, States, Blocked
<1>u. disk' \in Disks' /\ rows' \in [Rows -> [state : States, owner : Someone]] /\ cache' \in
      [Someone -> SUBSET Users] /\ office' \in [pairs : Seq(TokenPairs), ran : [Rows -> SUBSET
      Users]]
  BY <1>p, NullTypes, SessionAssumption DEF SessionTypes, TypeOK, Crash
<1>e. eval' \in {"idle", "version", "probe"} /\ link' \in Links /\ timer' \in BOOLEAN
  BY SessionAssumption DEF SessionTypes, TypeOK, Crash
<1> QED
  BY <1>1, <1>2, <1>3, <1>4, <1>5, <1>6, <1>7, <1>u, <1>e DEF TypeOK, Apps, Passes, Reads, Undos,
     Histories, Someone

LEMMA TypeStep == ASSUME SessionTypes, [Next]_vars PROVE TypeOK'
<1>s. CASE UNCHANGED vars
  BY <1>s DEF vars, SessionTypes, TypeOK, Disks, Apps, Auths, Renewals, Passes, Reads, Undos, Histories,
     Pairs, Someone
<1>a. CASE Next
  BY <1>a, BootTyped, EvaluateGatesTyped, EvaluateProbeTyped, MountTyped, UnmountTyped, PairTyped,
     UnpairTyped, RetryTyped, PersistTokensTyped, PersistUserTyped, LogoutUserTyped, RenewTyped,
     RenewFailsTyped, SaveAccessTyped, SaveRefreshTyped, SessionExpiredTyped, PassLoadTyped,
     SendRowTyped, ResendRowTyped, UnauthorizedTyped, RowDoneTyped, PassWritebackTyped, PassEndTyped,
     ReadSendTyped, ReadUnauthorizedTyped, ReadCachedTyped, LoginViaRelayTyped, LogoutTokensTyped,
     QueueMutationTyped, SyncNowTyped, TimerFiresTyped, ReadStartTyped, RemoveMutationTyped,
     RemoveAllStuckTyped, RestoreMutationsTyped, UndoExpiresTyped, AccessExpiresTyped,
     RefreshExpiresTyped, LinkChangesTyped, AnswerLostTyped, RenewLostTyped, CrashTyped DEF Next,
     EvalStep, PairStep, AuthStep, RenewalStep, PassStep, ReadStep
<1> QED
  BY <1>s, <1>a

-----------------------------------------------------------------------------
(* Which action may change which field *)

LEMMA RunSyncFrame ==
    ASSUME pass \in Passes, pass' = RunSync(pass)
    PROVE  /\ pass'.todo = pass.todo /\ pass'.row = pass.row /\ pass'.got = pass.got /\ pass'.ans = pass.ans
           /\ pass'.phase = pass.phase \/ (pass.phase = "idle" /\ pass'.phase = "load")
BY DEF RunSync, Passes

LEMMA Frame ==
    ASSUME SessionTypes, [Next]_vars
    PROVE
      /\ (disk'.access = disk.access /\ disk'.refresh = disk.refresh) \/ PersistTokens \/
        LogoutTokens \/ SaveAccess \/ SaveRefresh \/ SessionExpired
      /\ disk'.user = disk.user \/ PersistUser \/ LogoutUser
      /\ app'.user = app.user \/ Boot \/ PersistUser \/ LogoutUser \/ SessionExpired \/ Crash
      /\ (app'.ready <=> app.ready) \/ Boot \/ EvaluateGates \/ EvaluateProbe \/ Crash
      /\ (app'.mounted <=> app.mounted) \/ Mount \/ Unmount \/ Crash
      /\ auth' = auth \/ PersistTokens \/ PersistUser \/ LogoutUser \/ (\E u \in Users :
        LoginViaRelay(u)) \/ LogoutTokens \/ Crash
      /\ renewal' = renewal \/ Renew \/ RenewFails \/ SaveRefresh \/ SessionExpired \/ Unauthorized
        \/ ReadUnauthorized \/ RenewLost \/ Crash
      /\ pass'.todo = pass.todo \/ PassLoad \/ SendRow \/ ResendRow \/ PassEnd \/ Crash
      /\ pass'.row = pass.row \/ SendRow \/ ResendRow \/ RowDone \/ PassEnd \/ Crash
      /\ pass'.got = pass.got \/ RowDone \/ PassWriteback \/ PassEnd \/ Crash
      /\ (pass'.ans = pass.ans \/ pass'.ans = "refused") \/ SendRow \/ ResendRow \/ RowDone \/
        AnswerLost \/ PassEnd \/ Crash
      /\ (pass'.phase = pass.phase \/ (pass.phase = "idle" /\ pass'.phase = "load")) \/ PassLoad \/
        SendRow \/ ResendRow \/ RowDone \/ PassWriteback \/ PassEnd \/ Unauthorized \/
        ReadUnauthorized \/ RenewFails \/ SaveRefresh \/ SessionExpired \/ RenewLost \/ Crash
      /\ read' = read \/ RenewFails \/ SaveRefresh \/ SessionExpired \/ ReadSend \/ Unauthorized \/
        ReadUnauthorized \/ ReadCached \/ ReadStart \/ RenewLost \/ Crash
      /\ rows' = rows \/ PassWriteback \/ (\E r \in Rows : QueueMutation(r)) \/ RemoveMutation \/
        RemoveAllStuck \/ RestoreMutations
      /\ undo' \subseteq undo \/ RemoveMutation \/ RemoveAllStuck
      /\ cache' = cache \/ ReadCached
      /\ office'.ran = office.ran \/ SendRow \/ ResendRow
      /\ office'.pairs = office.pairs \/ (\E u \in Users : LoginViaRelay(u)) \/ Renew \/
        AccessExpires \/ RefreshExpires
      /\ hist'.owner = hist.owner \/ (\E r \in Rows : QueueMutation(r))
      /\ hist'.removed = hist.removed \/ RemoveMutation \/ RemoveAllStuck \/ RestoreMutations
      /\ hist'.fault = hist.fault \/ AnswerLost \/ RenewLost \/ Crash
      /\ hist'.reused = hist.reused \/ Renew
      /\ (timer' = timer \/ ~timer') \/ PassLoad \/ PassEnd
      /\ pass' = pass \/ EvaluateProbe \/ Mount \/ PersistUser \/ RenewFails \/ SaveRefresh \/
        SessionExpired \/ PassLoad \/ SendRow \/ ResendRow \/ Unauthorized \/ RowDone \/
        PassWriteback \/ PassEnd \/ ReadUnauthorized \/ (\E r \in Rows : QueueMutation(r)) \/
        SyncNow \/ TimerFires \/ LinkChanges \/ AnswerLost \/ RenewLost \/ Crash
<1>t. disk \in Disks /\ app \in Apps /\ auth \in Auths /\ renewal \in Renewals /\ pass \in Passes
      /\ read \in Reads /\ hist \in Histories /\ office \in [pairs : Seq(TokenPairs), ran : [Rows -> SUBSET Users]]
  BY DEF SessionTypes, TypeOK
<1>1. CASE Boot
  BY <1>1, <1>t DEF Boot, work, Disks, Apps, Renewals, Passes, Reads, Histories
<1>2. CASE EvaluateGates
  <2>1. app'.user = app.user /\ (app'.mounted <=> app.mounted)
    BY <1>2, <1>t DEF EvaluateGates, Verdict, Apps
  <2> QED
    BY <1>2, <2>1 DEF EvaluateGates, work
<1>3. CASE EvaluateProbe
  <2>1. pass' = RunSync(pass) \/ pass' = pass
    BY <1>3 DEF EvaluateProbe
  <2>2. app'.user = app.user /\ app'.mounted = app.mounted
    BY <1>3, <1>t DEF EvaluateProbe, Verdict, Apps
  <2> QED
    BY <1>3, <2>1, <2>2, <1>t, RunSyncFrame DEF EvaluateProbe, work
<1>4. CASE Mount
  BY <1>4, <1>t DEF Mount, RunSync, work, Disks, Apps, Renewals, Passes, Reads, Histories
<1>5. CASE Unmount
  BY <1>5, <1>t DEF Unmount, Disks, Apps, Renewals, Passes, Reads, Histories
<1>6. CASE Pair
  BY <1>6, <1>t DEF Pair, work, Disks, Apps, Renewals, Passes, Reads, Histories
<1>7. CASE Unpair
  BY <1>7, <1>t DEF Unpair, Spend, work, Disks, Apps, Renewals, Passes, Reads, Histories
<1>8. CASE Retry
  BY <1>8, <1>t DEF Retry, work, Disks, Apps, Renewals, Passes, Reads, Histories
<1>9. CASE PersistTokens
  BY <1>9, <1>t DEF PersistTokens, work, Disks, Apps, Renewals, Passes, Reads, Histories
<1>10. CASE PersistUser
  BY <1>10, <1>t DEF PersistUser, NoAuth, RunSync, work, Disks, Apps, Renewals, Passes, Reads, Histories
<1>11. CASE LogoutUser
  BY <1>11, <1>t DEF LogoutUser, NoAuth, work, Disks, Apps, Renewals, Passes, Reads, Histories
<1>12. CASE Renew
  BY <1>12, <1>t DEF Renew, device, work, Disks, Apps, Renewals, Passes, Reads, Histories
<1>13. CASE RenewFails
  BY <1>13, <1>t DEF RenewFails, NoRead, NoRenewal, PassResumes, ReadResumes, Settle, device, work,
     Disks, Apps, Renewals, Passes, Reads, Histories
<1>14. CASE SaveAccess
  BY <1>14, <1>t DEF SaveAccess, work, Disks, Apps, Renewals, Passes, Reads, Histories
<1>15. CASE SaveRefresh
  BY <1>15, <1>t DEF SaveRefresh, NoRead, NoRenewal, PassResumes, ReadResumes, Settle, work, Disks,
     Apps, Renewals, Passes, Reads, Histories
<1>16. CASE SessionExpired
  BY <1>16, <1>t DEF SessionExpired, NoRead, NoRenewal, PassResumes, ReadResumes, Settle, work, Disks,
     Apps, Renewals, Passes, Reads, Histories
<1>17. CASE PassLoad
  BY <1>17, <1>t DEF PassLoad, device, work, Disks, Apps, Renewals, Passes, Reads, Histories
<1>18. CASE SendRow
  <2>1. pass'.got = pass.got
    BY <1>18, <1>t DEF SendRow, SendOnce, Passes
  <2>2. office'.pairs = office.pairs
    BY <1>18, <1>t DEF SendRow, SendOnce
  <2>3. UNCHANGED <<disk, app, auth, renewal, read, rows, undo, cache, timer, hist>>
    BY <1>18 DEF SendRow, SendOnce, device, work
  <2> QED
    BY <1>18, <2>1, <2>2, <2>3
<1>19. CASE ResendRow
  <2>1. pass'.got = pass.got
    BY <1>19, <1>t DEF ResendRow, SendOnce, Passes
  <2>2. office'.pairs = office.pairs
    BY <1>19, <1>t DEF ResendRow, SendOnce
  <2>3. UNCHANGED <<disk, app, auth, renewal, read, rows, undo, cache, timer, hist>>
    BY <1>19 DEF ResendRow, SendOnce, device, work
  <2> QED
    BY <1>19, <2>1, <2>2, <2>3
<1>20. CASE Unauthorized
  BY <1>20, <1>t DEF Unauthorized, JoinRenewal, NoRead, NoRenewal, PassResumes, ReadResumes, device,
     work, Disks, Apps, Renewals, Passes, Reads, Histories
<1>21. CASE RowDone
  BY <1>21, <1>t DEF RowDone, device, work, Disks, Apps, Renewals, Passes, Reads, Histories
<1>22. CASE PassWriteback
  BY <1>22, <1>t DEF PassWriteback, SavedRow, device, Disks, Apps, Renewals, Passes, Reads, Histories
<1>23. CASE PassEnd
  BY <1>23, <1>t DEF PassEnd, Idle, device, work, Disks, Apps, Renewals, Passes, Reads, Histories
<1>24. CASE ReadSend
  BY <1>24, <1>t DEF ReadSend, NoRead, device, work, Disks, Apps, Renewals, Passes, Reads, Histories
<1>25. CASE ReadUnauthorized
  BY <1>25, <1>t DEF ReadUnauthorized, JoinRenewal, NoRead, NoRenewal, PassResumes, ReadResumes, device,
     work, Disks, Apps, Renewals, Passes, Reads, Histories
<1>26. CASE ReadCached
  BY <1>26, <1>t DEF ReadCached, NoRead, device, Disks, Apps, Renewals, Passes, Reads, Histories
<1>27. CASE (\E u \in Users : LoginViaRelay(u))
  BY <1>27, <1>t DEF LoginViaRelay, Spend, work, Disks, Apps, Renewals, Passes, Reads, Histories
<1>28. CASE LogoutTokens
  BY <1>28, <1>t DEF LogoutTokens, NoAuth, work, Disks, Apps, Renewals, Passes, Reads, Histories
<1>29. CASE (\E r \in Rows : QueueMutation(r))
  <2> PICK r \in Rows : QueueMutation(r)
    BY <1>29
  <2>1. pass' = RunSync(pass) /\ hist' = [hist EXCEPT !.owner = hist'.owner]
    BY <1>t DEF QueueMutation, Histories
  <2>2. hist'.removed = hist.removed /\ hist'.fault = hist.fault /\ hist'.reused = hist.reused
    BY <2>1, <1>t DEF Histories
  <2> QED
    BY <1>29, <2>1, <2>2, <1>t, RunSyncFrame DEF QueueMutation, device
<1>30. CASE SyncNow
  BY <1>30, <1>t DEF SyncNow, RunSync, device, work, Disks, Apps, Renewals, Passes, Reads, Histories
<1>31. CASE TimerFires
  BY <1>31, <1>t DEF TimerFires, RunSync, device, work, Disks, Apps, Renewals, Passes, Reads, Histories
<1>32. CASE ReadStart
  BY <1>32, <1>t DEF ReadStart, NoRead, Spend, device, work, Disks, Apps, Renewals, Passes, Reads,
     Histories
<1>33. CASE RemoveMutation
  BY <1>33, <1>t DEF RemoveMutation, DropRows, device, Disks, Apps, Renewals, Passes, Reads, Histories
<1>34. CASE RemoveAllStuck
  BY <1>34, <1>t DEF RemoveAllStuck, DropRows, device, Disks, Apps, Renewals, Passes, Reads, Histories
<1>35. CASE RestoreMutations
  BY <1>35, <1>t DEF RestoreMutations, device, Disks, Apps, Renewals, Passes, Reads, Histories
<1>36. CASE UndoExpires
  BY <1>36, <1>t DEF UndoExpires, device, Disks, Apps, Renewals, Passes, Reads, Histories
<1>37. CASE AccessExpires
  BY <1>37, <1>t DEF AccessExpires, Spend, device, work, Disks, Apps, Renewals, Passes, Reads, Histories
<1>38. CASE RefreshExpires
  BY <1>38, <1>t DEF RefreshExpires, Spend, device, work, Disks, Apps, Renewals, Passes, Reads,
     Histories
<1>39. CASE LinkChanges
  BY <1>39, <1>t DEF LinkChanges, RunSync, Spend, device, work, Disks, Apps, Renewals, Passes, Reads,
     Histories
<1>40. CASE AnswerLost
  BY <1>40, <1>t DEF AnswerLost, device, work, Disks, Apps, Renewals, Passes, Reads, Histories
<1>41. CASE RenewLost
  BY <1>41, <1>t DEF RenewLost, NoRead, NoRenewal, PassResumes, ReadResumes, Settle, device, work,
     Disks, Apps, Renewals, Passes, Reads, Histories
<1>42. CASE Crash
  BY <1>42, <1>t DEF Crash, Idle, NoAuth, NoRead, NoRenewal, Disks, Apps, Renewals, Passes, Reads,
     Histories
<1>s. CASE UNCHANGED vars
  BY <1>s DEF vars
<1> QED
  BY <1>1, <1>2, <1>3, <1>4, <1>5, <1>6, <1>7, <1>8, <1>9, <1>10, <1>11, <1>12, <1>13, <1>14, <1>15,
    <1>16, <1>17, <1>18, <1>19, <1>20, <1>21, <1>22, <1>23, <1>24, <1>25, <1>26, <1>27, <1>28,
    <1>29, <1>30, <1>31, <1>32, <1>33, <1>34, <1>35, <1>36, <1>37, <1>38, <1>39, <1>40, <1>41,
    <1>42, <1>s DEF Next, EvalStep, PairStep, AuthStep, RenewalStep, PassStep, ReadStep

-----------------------------------------------------------------------------
(* What an action does, field by field *)

LEMMA RenewCases ==
    ASSUME SessionTypes, Renew
    PROVE  /\ renewal.token \in 1..Len(office.pairs) /\ renewal'.token = renewal.token
           /\ Len(office.pairs) \in Nat
           /\ \A k \in 1..Len(office.pairs) : office'.pairs[k].user = office.pairs[k].user
           /\ \/ /\ renewal'.phase = "save" /\ renewal'.pair = Len(office.pairs) + 1 /\ hist' = hist
                 /\ office'.pairs[Len(office.pairs) + 1].user = office.pairs[renewal.token].user
                 /\ ~office'.pairs[Len(office.pairs) + 1].revoked
                 /\ \A k \in 1..Len(office.pairs) \ {renewal.token} : office'.pairs[k].revoked = office.pairs[k].revoked
              \/ /\ renewal'.phase = "clear" /\ renewal'.pair = renewal.pair
                 /\ \/ office.pairs[renewal.token].revoked
                    \/ office' = office /\ hist' = hist
<1> DEFINE n == Len(office.pairs)
           t == office.pairs[renewal.token]
           used == [office.pairs EXCEPT ![renewal.token].revoked = TRUE]
           last == [user |-> t.user, fam |-> t.fam, revoked |-> FALSE, expired |-> FALSE, dead |-> FALSE]
           fresh == Append(used, last)
<1>t. renewal.token \in 1..n /\ t \in TokenPairs /\ office.pairs \in Seq(TokenPairs) /\ n \in Nat
  BY TokenTyped DEF Renew, SessionTypes, Filled, TypeOK, Renewals
<1>1. used = [office.pairs EXCEPT ![renewal.token] = [t EXCEPT !.revoked = TRUE]]
  BY <1>t
<1>2. [t EXCEPT !.revoked = TRUE] \in TokenPairs /\ [t EXCEPT !.revoked = TRUE].user = t.user
  BY <1>t DEF TokenPairs
<1>3. used \in Seq(TokenPairs) /\ Len(used) = n
  BY <1>t, <1>1, <1>2, MarkTyped
<1>4. last \in TokenPairs /\ last.user = t.user /\ ~last.revoked
  BY <1>t DEF TokenPairs
<1>5. \A k \in 1..n : used[k].user = office.pairs[k].user /\ (k # renewal.token => used[k] =
      office.pairs[k])
  BY <1>t, <1>1, <1>2
<1>6. Len(fresh) = n + 1 /\ fresh[n + 1] = last /\ \A k \in 1..n : fresh[k] = used[k]
  BY <1>3, <1>4, <1>t
<1>7. \A k \in 1..n : RevokeFamily(t.fam)[k].user = office.pairs[k].user
  BY <1>t DEF RevokeFamily, TokenPairs
<1>8. \/ /\ office'.pairs = fresh /\ renewal' = [renewal EXCEPT !.phase = "save", !.pair = Len(fresh)] /\ hist' = hist
      \/ /\ office'.pairs = RevokeFamily(t.fam) /\ renewal' = [renewal EXCEPT !.phase = "clear"] /\ t.revoked
      \/ /\ office' = office /\ renewal' = [renewal EXCEPT !.phase = "clear"] /\ hist' = hist
  BY DEF Renew, SessionTypes, TypeOK
<1> HIDE DEF n, t, used, last, fresh
<1>9. CASE office'.pairs = fresh /\ renewal' = [renewal EXCEPT !.phase = "save", !.pair =
      Len(fresh)] /\ hist' = hist
  <2>1. renewal'.phase = "save" /\ renewal'.pair = n + 1 /\ renewal'.token = renewal.token
    BY <1>9, <1>6 DEF SessionTypes, TypeOK, Renewals
  <2>2. \A k \in 1..n : office'.pairs[k].user = office.pairs[k].user
    BY <1>9, <1>6, <1>5
  <2>3. office'.pairs[n + 1].user = t.user /\ ~office'.pairs[n + 1].revoked
    BY <1>9, <1>6, <1>4
  <2>4. \A k \in 1..n \ {renewal.token} : office'.pairs[k].revoked = office.pairs[k].revoked
    BY <1>9, <1>6, <1>5
  <2> QED
    BY <1>t, <1>9, <2>1, <2>2, <2>3, <2>4 DEF n, t
<1>10. CASE office'.pairs = RevokeFamily(t.fam) /\ renewal' = [renewal EXCEPT !.phase = "clear"] /\
      t.revoked
  <2>1. renewal'.phase = "clear" /\ renewal'.pair = renewal.pair /\ renewal'.token = renewal.token
    BY <1>10 DEF SessionTypes, TypeOK, Renewals
  <2> QED
    BY <1>t, <1>7, <1>10, <2>1 DEF n, t
<1>11. CASE office' = office /\ renewal' = [renewal EXCEPT !.phase = "clear"] /\ hist' = hist
  <2>1. renewal'.phase = "clear" /\ renewal'.pair = renewal.pair /\ renewal'.token = renewal.token
    BY <1>11 DEF SessionTypes, TypeOK, Renewals
  <2> QED
    BY <1>t, <1>11, <2>1 DEF n, t
<1> QED
  BY <1>8, <1>9, <1>10, <1>11

LEMMA LoginCases ==
    ASSUME SessionTypes, NEW u \in Users, LoginViaRelay(u)
    PROVE  /\ Len(office.pairs) \in Nat /\ auth' = [op |-> "tokens", user |-> u, pair |-> Len(office.pairs) + 1]
           /\ \A k \in 1..Len(office.pairs) : office'.pairs[k] = office.pairs[k]
           /\ office'.pairs[Len(office.pairs) + 1].user = u /\ ~office'.pairs[Len(office.pairs) + 1].revoked
<1> DEFINE last == [user |-> u, fam |-> NewFamily, revoked |-> FALSE, expired |-> FALSE, dead |-> FALSE]
<1>1. office.pairs \in Seq(TokenPairs) /\ office'.pairs = Append(office.pairs, last)
  BY DEF LoginViaRelay, Issue, SessionTypes, TypeOK
<1>2. last.user = u /\ ~last.revoked
  OBVIOUS
<1> HIDE DEF last
<1> QED
  BY <1>1, <1>2 DEF LoginViaRelay

LEMMA AgingCases ==
    ASSUME SessionTypes, AccessExpires \/ RefreshExpires
    PROVE  \A k \in 1..Len(office.pairs) : /\ office'.pairs[k].user = office.pairs[k].user
                                           /\ office'.pairs[k].revoked = office.pairs[k].revoked
<1>t. office.pairs \in Seq(TokenPairs) /\ \A k \in 1..Len(office.pairs) : office.pairs[k] \in TokenPairs
  BY DEF SessionTypes, TypeOK
<1>1. CASE AccessExpires
  <2>1. office'.pairs = [office.pairs EXCEPT ![disk.access] = [office.pairs[disk.access] EXCEPT
        !.expired = TRUE]]
    BY <1>1 DEF AccessExpires, SessionTypes, TypeOK
  <2> QED
    BY <1>t, <2>1 DEF TokenPairs
<1>2. CASE RefreshExpires
  <2>1. office'.pairs = [office.pairs EXCEPT ![disk.refresh] =
                           [office.pairs[disk.refresh] EXCEPT !.dead = TRUE, !.expired = TRUE]]
    BY <1>2 DEF RefreshExpires, SessionTypes, TypeOK
  <2> QED
    BY <1>t, <2>1 DEF TokenPairs
<1> QED
  BY <1>1, <1>2

LEMMA JoinCases ==
    ASSUME SessionTypes, NEW who \in {"pass", "read"}, JoinRenewal(who)
    PROVE  /\ \/ renewal' = renewal
              \/ /\ renewal.phase = "idle" /\ renewal'.phase = "asked" /\ disk.refresh # 0
                 /\ renewal'.token = disk.refresh /\ renewal'.pair = 0
              \/ /\ renewal.phase # "idle" /\ renewal'.phase = renewal.phase
                 /\ renewal'.token = renewal.token /\ renewal'.pair = renewal.pair
           /\ read' = read \/ read'.phase \in {"idle", "await"}
           /\ pass' = pass \/ pass' = [pass EXCEPT !.phase = "await"]
              \/ pass' = [pass EXCEPT !.phase = "answered", !.ans = "refused"]
<1>t. read \in Reads /\ renewal \in Renewals /\ pass \in Passes
  BY DEF SessionTypes, TypeOK
<1>1. ReadResumes(read, FALSE) = NoRead /\ NoRead.phase = "idle"
  BY DEF ReadResumes, NoRead
<1>2. PassResumes(pass, FALSE) = [pass EXCEPT !.phase = "answered", !.ans = "refused"]
  BY DEF PassResumes
<1>3. [read EXCEPT !.phase = "await"].phase = "await"
  BY <1>t DEF Reads
<1>4. read' = read \/ read'.phase \in {"idle", "await"}
  BY <1>1, <1>3 DEF JoinRenewal
<1>5. [renewal EXCEPT !.waiting = @ \cup {who}].phase = renewal.phase
      /\ [renewal EXCEPT !.waiting = @ \cup {who}].token = renewal.token
      /\ [renewal EXCEPT !.waiting = @ \cup {who}].pair = renewal.pair
  BY <1>t DEF Renewals
<1>6. \A w : /\ [NoRenewal EXCEPT !.phase = "asked", !.token = disk.refresh, !.waiting = {w}].phase
      = "asked"
             /\ [NoRenewal EXCEPT !.phase = "asked", !.token = disk.refresh, !.waiting = {w}].token = disk.refresh
             /\ [NoRenewal EXCEPT !.phase = "asked", !.token = disk.refresh, !.waiting = {w}].pair = 0
  BY DEF NoRenewal
<1>7. CASE renewal.phase = "idle" /\ disk.refresh = 0
  <2>1. renewal' = renewal
    BY <1>7 DEF JoinRenewal
  <2>2. pass' = pass \/ pass' = [pass EXCEPT !.phase = "answered", !.ans = "refused"]
    BY <1>7, <1>2 DEF JoinRenewal
  <2> QED
    BY <1>4, <2>1, <2>2
<1>8. CASE ~(renewal.phase = "idle" /\ disk.refresh = 0)
  <2>1. pass' = pass \/ pass' = [pass EXCEPT !.phase = "await"]
    BY <1>8 DEF JoinRenewal
  <2>2. renewal' = IF renewal.phase = "idle"
                   THEN [NoRenewal EXCEPT !.phase = "asked", !.token = disk.refresh, !.waiting = {who}]
                   ELSE [renewal EXCEPT !.waiting = @ \cup {who}]
    BY <1>8 DEF JoinRenewal
  <2>3. CASE renewal.phase = "idle"
    BY <1>8, <2>2, <2>3, <1>6, <1>4, <2>1
  <2>4. CASE renewal.phase # "idle"
    BY <2>2, <2>4, <1>5, <1>4, <2>1
  <2> QED
    BY <2>3, <2>4
<1> QED
  BY <1>7, <1>8

LEMMA SendCases ==
    ASSUME SessionTypes, SendRow \/ ResendRow
    PROVE  \E r \in pass.todo \cup pass.row :
             /\ pass'.row = {r} /\ pass'.todo = pass.todo \ {r} /\ pass'.phase = "answered" /\ pass'.got = pass.got
             /\ pass'.ans = "ran" => Reply(disk.access) = "ran"
             /\ \/ /\ Reply(disk.access) = "ran" /\ office.ran[r] = {}
                   /\ office'.ran = [office.ran EXCEPT ![r] = {Bearer(disk.access)}]
                \/ /\ Reply(disk.access) = "ran" => office.ran[r] # {}
                   /\ office'.ran = office.ran
<1>1. PICK r \in pass.todo \cup pass.row : SendOnce(r)
  BY DEF SendRow, ResendRow
<1>2. pass'.row = {r} /\ pass'.todo = pass.todo \ {r} /\ pass'.phase = "answered" /\ pass'.got =
      pass.got
      /\ (pass'.ans = "ran" => Reply(disk.access) = "ran")
  BY <1>1 DEF SendOnce, SessionTypes, TypeOK, Passes
<1>3. CASE Reply(disk.access) = "ran" /\ office.ran[r] = {}
  <2>1. office' = [office EXCEPT !.ran = [office.ran EXCEPT ![r] = {Bearer(disk.access)}]]
    BY <1>1, <1>3 DEF SendOnce
  <2> QED
    BY <1>2, <1>3, <2>1 DEF SessionTypes, TypeOK
<1>4. CASE ~(Reply(disk.access) = "ran" /\ office.ran[r] = {})
  BY <1>1, <1>2, <1>4 DEF SendOnce
<1> QED
  BY <1>3, <1>4

LEMMA TokensKept ==
    ASSUME SessionTypes, [Next]_vars, NEW k \in Pairs, k # 0
    PROVE  office'.pairs[k].user = office.pairs[k].user
<1>1. k \in 1..Len(office.pairs)
  BY TokenTyped DEF SessionTypes
<1>2. CASE Renew
  BY <1>1, <1>2, RenewCases
<1>3. CASE \E u \in Users : LoginViaRelay(u)
  BY <1>1, <1>3, LoginCases
<1>4. CASE AccessExpires \/ RefreshExpires
  BY <1>1, <1>4, AgingCases
<1>5. CASE office'.pairs = office.pairs
  BY <1>5
<1> QED
  BY <1>2, <1>3, <1>4, <1>5, Frame

LEMMA SettleCases ==
    ASSUME SessionTypes, NEW ok \in BOOLEAN, Settle(ok)
    PROVE  /\ renewal'.phase = "idle" /\ renewal'.token = 0 /\ renewal'.pair = 0
           /\ read' = read \/ read'.phase \in {"idle", "send"}
           /\ pass'.todo = pass.todo /\ pass'.row = pass.row
           /\ pass' = pass \/ pass'.phase \in {"resend", "answered"}
<1>t. read \in Reads /\ pass \in Passes
  BY DEF SessionTypes, TypeOK
<1>1. renewal'.phase = "idle" /\ renewal'.token = 0 /\ renewal'.pair = 0
  BY DEF Settle, NoRenewal
<1>2. ReadResumes(read, ok).phase \in {"idle", "send"}
  BY <1>t DEF ReadResumes, NoRead, Reads
<1>3. PassResumes(pass, ok).phase \in {"resend", "answered"} /\ PassResumes(pass, ok).todo = pass.todo
      /\ PassResumes(pass, ok).row = pass.row
  BY <1>t DEF PassResumes, Passes
<1> QED
  BY <1>1, <1>2, <1>3 DEF Settle

LEMMA SendAnswer ==
    ASSUME SessionTypes, ReadSend
    PROVE  read'.phase = "answered" => read'.data = Bearer(disk.access) /\ Reply(disk.access) = "ran"
<1>t. read \in Reads
  BY DEF SessionTypes, TypeOK
<1>1. CASE Reply(disk.access) = "ran"
  BY <1>1, <1>t DEF ReadSend, Reads
<1>2. CASE Reply(disk.access) # "ran"
  <2>1. read' = NoRead \/ read' = [read EXCEPT !.phase = "unauth"]
    BY <1>2 DEF ReadSend
  <2> QED
    BY <2>1, <1>t DEF NoRead, Reads
<1> QED
  BY <1>1, <1>2

LEMMA LoginScreen == Screen = "login" => app.user = Nobody /\ app.ready
BY DEF Screen, Blocked

LEMMA NothingToLoad == ASSUME KeptInv, app.user = Nobody PROVE LoadPending = {}
BY DEF KeptInv, OwnerKept, NotYetQueued, LoadPending, MyRows

LEMMA IdleUntilReady ==
    ASSUME SessionTypes, [Next]_vars, Screen # "main", ~app.mounted, ~timer, auth.op = "idle"
    PROVE  \/ pass' = pass
           \/ EvaluateProbe \/ RenewFails \/ SaveRefresh \/ SessionExpired \/ PassLoad \/ SendRow \/ ResendRow
           \/ Unauthorized \/ RowDone \/ PassWriteback \/ PassEnd \/ ReadUnauthorized \/ AnswerLost \/ RenewLost
           \/ Crash
<1>1. ~Mount /\ ~SyncNow /\ ~TimerFires /\ ~PersistUser /\ ~(\E r \in Rows : QueueMutation(r))
  BY DEF Mount, SyncNow, TimerFires, PersistUser, QueueMutation
<1>2. LinkChanges => pass' = pass
  BY DEF LinkChanges
<1> QED
  BY <1>1, <1>2, Frame

-----------------------------------------------------------------------------
(* The steps of the invariants *)

LEMMA FilledStep ==
    ASSUME SessionTypes, TypeOK', [Next]_vars
    PROVE  Filled'
<1>t. /\ disk \in Disks /\ app \in Apps /\ auth \in Auths /\ renewal \in Renewals /\ pass \in Passes
      /\ read \in Reads /\ undo \subseteq Undos /\ hist \in Histories
      /\ rows \in [Rows -> [state : States, owner : Someone]] /\ cache \in [Someone -> SUBSET Users]
      /\ office \in [pairs : Seq(TokenPairs), ran : [Rows -> SUBSET Users]]
  BY DEF SessionTypes, TypeOK
<1>1. CASE PersistTokens
  BY <1>1, <1>t, SessionAssumption DEF PersistTokens, work, Disks, Apps, Auths, Renewals, Passes, Reads,
     Histories, SessionTypes, Filled
<1>2. CASE PersistUser
  BY <1>2, <1>t, SessionAssumption DEF PersistUser, NoAuth, RunSync, work, Disks, Apps, Auths, Renewals,
     Passes, Reads, Histories, SessionTypes, Filled
<1>3. CASE LogoutUser
  BY <1>3, <1>t, SessionAssumption DEF LogoutUser, NoAuth, work, Disks, Apps, Auths, Renewals, Passes,
     Reads, Histories, SessionTypes, Filled
<1>4. CASE Renew
  <2>1. read' = read /\ auth' = auth
    BY <1>4 DEF Renew, device
  <2>2. renewal'.token # 0 /\ (renewal'.phase = "save" => renewal'.pair # 0)
    BY <1>4, RenewCases
  <2> QED
    BY <2>1, <2>2 DEF SessionTypes, Filled
<1>5. CASE RenewFails
  BY <1>5, <1>t, SessionAssumption DEF RenewFails, NoRead, NoRenewal, PassResumes, ReadResumes, Settle,
     device, work, Disks, Apps, Auths, Renewals, Passes, Reads, Histories, SessionTypes, Filled
<1>6. CASE SaveRefresh
  BY <1>6, <1>t, SessionAssumption DEF SaveRefresh, NoRead, NoRenewal, PassResumes, ReadResumes, Settle,
     work, Disks, Apps, Auths, Renewals, Passes, Reads, Histories, SessionTypes, Filled
<1>7. CASE SessionExpired
  BY <1>7, <1>t, SessionAssumption DEF SessionExpired, NoRead, NoRenewal, PassResumes, ReadResumes,
     Settle, work, Disks, Apps, Auths, Renewals, Passes, Reads, Histories, SessionTypes, Filled
<1>8. CASE Unauthorized
  BY <1>8, JoinCases, <1>t DEF SessionTypes, Filled, Unauthorized, device, Renewals
<1>9. CASE ReadSend
  <2>1. disk.access \in Pairs
    BY <1>t DEF Disks
  <2>2. Reply(disk.access) = "ran" => Bearer(disk.access) \in Users
    BY <2>1, BearerTyped DEF Reply, SessionTypes
  <2>3. auth' = auth /\ renewal' = renewal
    BY <1>9 DEF ReadSend, device
  <2>4. read'.phase = "answered" => read'.data = Bearer(disk.access) /\ Reply(disk.access) = "ran"
    BY <1>9, SendAnswer
  <2> QED
    BY <2>2, <2>3, <2>4 DEF SessionTypes, Filled
<1>10. CASE ReadUnauthorized
  BY <1>10, JoinCases, <1>t DEF SessionTypes, Filled, ReadUnauthorized, device, Renewals
<1>11. CASE ReadCached
  BY <1>11, <1>t, SessionAssumption DEF ReadCached, NoRead, device, Disks, Apps, Auths, Renewals,
     Passes, Reads, Histories, SessionTypes, Filled
<1>12. CASE (\E u \in Users : LoginViaRelay(u))
  BY <1>12, <1>t, SessionAssumption DEF LoginViaRelay, Spend, work, Disks, Apps, Auths, Renewals,
     Passes, Reads, Histories, SessionTypes, Filled
<1>13. CASE LogoutTokens
  BY <1>13, <1>t, MainUser, SessionAssumption DEF LogoutTokens, NoAuth, work, Disks, Apps, Auths,
     Renewals, Passes, Reads, Histories, SessionTypes, Filled
<1>14. CASE ReadStart
  BY <1>14, <1>t, MainUser, SessionAssumption DEF ReadStart, NoRead, Spend, device, work, Disks, Apps,
     Auths, Renewals, Passes, Reads, Histories, SessionTypes, Filled
<1>15. CASE RenewLost
  BY <1>15, <1>t, SessionAssumption DEF RenewLost, NoRead, NoRenewal, PassResumes, ReadResumes, Settle,
     device, work, Disks, Apps, Auths, Renewals, Passes, Reads, Histories, SessionTypes, Filled
<1>16. CASE Crash
  BY <1>16, <1>t, SessionAssumption DEF Crash, Idle, NoAuth, NoRead, NoRenewal, Disks, Apps, Auths,
     Renewals, Passes, Reads, Histories, SessionTypes, Filled
<1>o. CASE ~(PersistTokens \/ PersistUser \/ LogoutUser \/ Renew \/ RenewFails \/ SaveRefresh \/
  SessionExpired \/ Unauthorized \/ ReadSend \/ ReadUnauthorized \/ ReadCached \/ (\E u \in Users :
  LoginViaRelay(u)) \/ LogoutTokens \/ ReadStart \/ RenewLost \/ Crash)
  BY <1>o, Frame, <1>t DEF SessionTypes, Filled
<1> QED
  BY <1>1, <1>2, <1>3, <1>4, <1>5, <1>6, <1>7, <1>8, <1>9, <1>10, <1>11, <1>12, <1>13, <1>14, <1>15,
    <1>16, <1>o

LEMMA SessionInit == Init => SessionTypes
<1> SUFFICES ASSUME Init PROVE SessionTypes
  OBVIOUS
<1>1. 0 \in Pairs /\ Nobody \in Someone /\ "none" \in States
  BY DEF Pairs, Someone, States
<1>2. disk \in Disks /\ app \in Apps
  BY <1>1 DEF Init, Disks, Apps
<1>3. auth \in Auths /\ renewal \in Renewals /\ pass \in Passes /\ read \in Reads
  BY NullTypes DEF Init
<1>4. undo \subseteq Undos /\ rows \in [Rows -> [state : States, owner : Someone]]
      /\ cache \in [Someone -> SUBSET Users]
  BY <1>1 DEF Init, Someone
<1>5. office \in [pairs : Seq(TokenPairs), ran : [Rows -> SUBSET Users]]
  <2>1. <<>> \in Seq(TokenPairs)
    OBVIOUS
  <2> QED
    BY <2>1 DEF Init
<1>6. hist \in Histories
  BY <1>1 DEF Init, Histories
<1>7. Filled
  BY DEF Init, Filled, NoRead, NoAuth, NoRenewal
<1> QED
  BY <1>2, <1>3, <1>4, <1>5, <1>6, <1>7, SessionAssumption DEF Init, SessionTypes, TypeOK

LEMMA SessionStep == SessionTypes /\ [Next]_vars => SessionTypes'
BY TypeStep, FilledStep DEF SessionTypes

LEMMA OwnerKeptStep ==
    ASSUME SessionTypes, KeptInv, TypeOK', [Next]_vars
    PROVE  OwnerKept'
<1>t. /\ disk \in Disks /\ app \in Apps /\ auth \in Auths /\ renewal \in Renewals /\ pass \in Passes
      /\ read \in Reads /\ undo \subseteq Undos /\ hist \in Histories
      /\ rows \in [Rows -> [state : States, owner : Someone]] /\ cache \in [Someone -> SUBSET Users]
      /\ office \in [pairs : Seq(TokenPairs), ran : [Rows -> SUBSET Users]]
  BY DEF SessionTypes, TypeOK
<1>1. CASE PassWriteback
  BY <1>1, <1>t, SessionAssumption DEF PassWriteback, SavedRow, device, Disks, Apps, Auths, Renewals,
     Passes, Reads, Histories, KeptInv, OwnerKept, UndoKeeps
<1>2. CASE (\E r \in Rows : QueueMutation(r))
  BY <1>2, <1>t, MainUser, SessionAssumption DEF QueueMutation, RunSync, device, Disks, Apps, Auths,
     Renewals, Passes, Reads, Histories, KeptInv, OwnerKept, UndoKeeps
<1>3. CASE RemoveMutation
  BY <1>3, <1>t, MainUser, SessionAssumption DEF RemoveMutation, DropRows, device, Disks, Apps, Auths,
     Renewals, Passes, Reads, Histories, KeptInv, OwnerKept, UndoKeeps
<1>4. CASE RemoveAllStuck
  BY <1>4, <1>t, MainUser, SessionAssumption DEF RemoveAllStuck, DropRows, device, Disks, Apps, Auths,
     Renewals, Passes, Reads, Histories, KeptInv, OwnerKept, UndoKeeps
<1>5. CASE RestoreMutations
  BY <1>5, <1>t, MainUser, SessionAssumption DEF RestoreMutations, device, Disks, Apps, Auths, Renewals,
     Passes, Reads, Histories, KeptInv, OwnerKept, UndoKeeps
<1>o. CASE ~(PassWriteback \/ (\E r \in Rows : QueueMutation(r)) \/ RemoveMutation \/ RemoveAllStuck
  \/ RestoreMutations)
  BY <1>o, Frame, <1>t DEF KeptInv, OwnerKept, UndoKeeps
<1> QED
  BY <1>1, <1>2, <1>3, <1>4, <1>5, <1>o

LEMMA NotYetQueuedStep ==
    ASSUME SessionTypes, KeptInv, TypeOK', [Next]_vars
    PROVE  NotYetQueued'
<1>t. /\ disk \in Disks /\ app \in Apps /\ auth \in Auths /\ renewal \in Renewals /\ pass \in Passes
      /\ read \in Reads /\ undo \subseteq Undos /\ hist \in Histories
      /\ rows \in [Rows -> [state : States, owner : Someone]] /\ cache \in [Someone -> SUBSET Users]
      /\ office \in [pairs : Seq(TokenPairs), ran : [Rows -> SUBSET Users]]
  BY DEF SessionTypes, TypeOK
<1>1. CASE PassLoad
  <2>1. /\ pass'.todo \subseteq pass.todo \cup LoadPending /\ pass'.row = pass.row /\ pass'.got = pass.got
        /\ rows' = rows /\ hist' = hist /\ office' = office
    BY <1>1, <1>t DEF PassLoad, work, Passes
  <2>2. \A r \in LoadPending : rows[r].state # "none"
    BY DEF LoadPending
  <2> QED
    BY <2>1, <2>2 DEF KeptInv, NotYetQueued
<1>2. CASE SendRow
  <2>1. hist' = hist /\ rows' = rows
    BY <1>2 DEF SendRow, ResendRow, SendOnce, work
  <2>2. PICK r \in pass.todo \cup pass.row :
             /\ pass'.row = {r} /\ pass'.todo = pass.todo \ {r} /\ pass'.got = pass.got
             /\ office'.ran = office.ran \/ office'.ran = [office.ran EXCEPT ![r] = {Bearer(disk.access)}]
    BY <1>2, SendCases
  <2>3. r \in Rows /\ hist.owner[r] # Nobody
    BY <1>t DEF KeptInv, NotYetQueued, Passes
  <2>4. \A q \in Rows : q # r => office'.ran[q] = office.ran[q]
    BY <2>2, <1>t
  <2> QED
    BY <2>1, <2>2, <2>3, <2>4 DEF KeptInv, NotYetQueued
<1>3. CASE ResendRow
  <2>1. hist' = hist /\ rows' = rows
    BY <1>3 DEF SendRow, ResendRow, SendOnce, work
  <2>2. PICK r \in pass.todo \cup pass.row :
             /\ pass'.row = {r} /\ pass'.todo = pass.todo \ {r} /\ pass'.got = pass.got
             /\ office'.ran = office.ran \/ office'.ran = [office.ran EXCEPT ![r] = {Bearer(disk.access)}]
    BY <1>3, SendCases
  <2>3. r \in Rows /\ hist.owner[r] # Nobody
    BY <1>t DEF KeptInv, NotYetQueued, Passes
  <2>4. \A q \in Rows : q # r => office'.ran[q] = office.ran[q]
    BY <2>2, <1>t
  <2> QED
    BY <2>1, <2>2, <2>3, <2>4 DEF KeptInv, NotYetQueued
<1>4. CASE RowDone
  BY <1>4, <1>t, SessionAssumption DEF RowDone, device, work, Disks, Apps, Auths, Renewals, Passes,
     Reads, Histories, KeptInv, OwnerKept, NotYetQueued, UndoKeeps
<1>5. CASE PassWriteback
  BY <1>5, <1>t, SessionAssumption DEF PassWriteback, SavedRow, device, Disks, Apps, Auths, Renewals,
     Passes, Reads, Histories, KeptInv, OwnerKept, NotYetQueued, UndoKeeps
<1>6. CASE PassEnd
  BY <1>6, <1>t, SessionAssumption DEF PassEnd, Idle, device, work, Disks, Apps, Auths, Renewals,
     Passes, Reads, Histories, KeptInv, OwnerKept, NotYetQueued, UndoKeeps
<1>7. CASE (\E r \in Rows : QueueMutation(r))
  BY <1>7, <1>t, MainUser, SessionAssumption DEF QueueMutation, RunSync, device, Disks, Apps, Auths,
     Renewals, Passes, Reads, Histories, KeptInv, OwnerKept, NotYetQueued, UndoKeeps
<1>8. CASE RemoveMutation
  BY <1>8, <1>t, MainUser, SessionAssumption DEF RemoveMutation, DropRows, device, Disks, Apps, Auths,
     Renewals, Passes, Reads, Histories, KeptInv, OwnerKept, NotYetQueued, UndoKeeps
<1>9. CASE RemoveAllStuck
  BY <1>9, <1>t, MainUser, SessionAssumption DEF RemoveAllStuck, DropRows, device, Disks, Apps, Auths,
     Renewals, Passes, Reads, Histories, KeptInv, OwnerKept, NotYetQueued, UndoKeeps
<1>10. CASE RestoreMutations
  BY <1>10, <1>t, MainUser, SessionAssumption DEF RestoreMutations, device, Disks, Apps, Auths,
     Renewals, Passes, Reads, Histories, KeptInv, OwnerKept, NotYetQueued, UndoKeeps
<1>11. CASE Crash
  BY <1>11, <1>t, SessionAssumption DEF Crash, Idle, NoAuth, NoRead, NoRenewal, Disks, Apps, Auths,
     Renewals, Passes, Reads, Histories, KeptInv, OwnerKept, NotYetQueued, UndoKeeps
<1>o. CASE ~(PassLoad \/ SendRow \/ ResendRow \/ RowDone \/ PassWriteback \/ PassEnd \/ (\E r \in
  Rows : QueueMutation(r)) \/ RemoveMutation \/ RemoveAllStuck \/ RestoreMutations \/ Crash)
  BY <1>o, Frame, <1>t DEF KeptInv, OwnerKept, NotYetQueued, UndoKeeps
<1> QED
  BY <1>1, <1>2, <1>3, <1>4, <1>5, <1>6, <1>7, <1>8, <1>9, <1>10, <1>11, <1>o

LEMMA PresentStep ==
    ASSUME SessionTypes, KeptInv, TypeOK', [Next]_vars
    PROVE  Present'
<1>t. /\ disk \in Disks /\ app \in Apps /\ auth \in Auths /\ renewal \in Renewals /\ pass \in Passes
      /\ read \in Reads /\ undo \subseteq Undos /\ hist \in Histories
      /\ rows \in [Rows -> [state : States, owner : Someone]] /\ cache \in [Someone -> SUBSET Users]
      /\ office \in [pairs : Seq(TokenPairs), ran : [Rows -> SUBSET Users]]
  BY DEF SessionTypes, TypeOK
<1>1. CASE PassWriteback
  BY <1>1, <1>t, SessionAssumption DEF PassWriteback, SavedRow, device, Disks, Apps, Auths, Renewals,
     Passes, Reads, Histories, KeptInv, NotYetQueued, Present, UndoKeeps
<1>2. CASE (\E r \in Rows : QueueMutation(r))
  BY <1>2, <1>t, MainUser, SessionAssumption DEF QueueMutation, RunSync, device, Disks, Apps, Auths,
     Renewals, Passes, Reads, Histories, KeptInv, NotYetQueued, Present, UndoKeeps
<1>3. CASE RemoveMutation
  BY <1>3, <1>t, MainUser, SessionAssumption DEF RemoveMutation, DropRows, device, Disks, Apps, Auths,
     Renewals, Passes, Reads, Histories, KeptInv, NotYetQueued, Present, UndoKeeps
<1>4. CASE RemoveAllStuck
  BY <1>4, <1>t, MainUser, SessionAssumption DEF RemoveAllStuck, DropRows, device, Disks, Apps, Auths,
     Renewals, Passes, Reads, Histories, KeptInv, NotYetQueued, Present, UndoKeeps
<1>5. CASE RestoreMutations
  <2>1. hist'.owner = hist.owner /\ hist'.removed = hist.removed \ {e.row : e \in undo}
    BY <1>5, <1>t DEF RestoreMutations, Histories
  <2>2. ASSUME NEW r \in Rows, hist'.owner[r] # Nobody, r \notin hist'.removed
        PROVE  rows'[r].state # "none"
    <3>1. CASE \E e \in undo : e.row = r
      <4>1. PICK e \in undo : e.row = r /\ rows'[r] = e.was
        BY <1>5, <3>1 DEF RestoreMutations
      <4> QED
        BY <4>1 DEF KeptInv, UndoKeeps
    <3>2. CASE ~\E e \in undo : e.row = r
      BY <1>5, <2>1, <2>2, <3>2 DEF RestoreMutations, KeptInv, Present
    <3> QED
      BY <3>1, <3>2
  <2> QED
    BY <2>2 DEF Present
<1>o. CASE ~(PassWriteback \/ (\E r \in Rows : QueueMutation(r)) \/ RemoveMutation \/ RemoveAllStuck
  \/ RestoreMutations)
  BY <1>o, Frame, <1>t DEF KeptInv, NotYetQueued, Present, UndoKeeps
<1> QED
  BY <1>1, <1>2, <1>3, <1>4, <1>5, <1>o

LEMMA SyncedRanStep ==
    ASSUME SessionTypes, KeptInv, TypeOK', [Next]_vars
    PROVE  SyncedRan'
<1>t. /\ disk \in Disks /\ app \in Apps /\ auth \in Auths /\ renewal \in Renewals /\ pass \in Passes
      /\ read \in Reads /\ undo \subseteq Undos /\ hist \in Histories
      /\ rows \in [Rows -> [state : States, owner : Someone]] /\ cache \in [Someone -> SUBSET Users]
      /\ office \in [pairs : Seq(TokenPairs), ran : [Rows -> SUBSET Users]]
  BY DEF SessionTypes, TypeOK
<1>1. CASE SendRow
  <2>1. rows' = rows
    BY <1>1 DEF SendRow, ResendRow, SendOnce, work
  <2>2. PICK r \in pass.todo \cup pass.row :
             /\ pass'.row = {r} /\ pass'.got = pass.got
             /\ pass'.ans = "ran" => Reply(disk.access) = "ran"
             /\ \/ office'.ran = [office.ran EXCEPT ![r] = {Bearer(disk.access)}]
                \/ (Reply(disk.access) = "ran" => office.ran[r] # {}) /\ office'.ran = office.ran
    BY <1>1, SendCases
  <2>3. r \in Rows
    BY <1>t DEF Passes
  <2>4. \A q \in Rows : office.ran[q] # {} => office'.ran[q] # {}
    BY <2>2, <2>3, <1>t
  <2>5. pass'.ans = "ran" => office'.ran[r] # {}
    <3>1. office.ran[r] # {} \/ office'.ran = [office.ran EXCEPT ![r] = {Bearer(disk.access)}]
           \/ pass'.ans # "ran"
      BY <2>2
    <3>2. [office.ran EXCEPT ![r] = {Bearer(disk.access)}][r] = {Bearer(disk.access)}
      BY <2>3, <1>t
    <3> QED
      BY <3>1, <3>2, <2>4, <2>3
  <2> QED
    BY <2>1, <2>2, <2>4, <2>5 DEF KeptInv, SyncedRan
<1>2. CASE ResendRow
  <2>1. rows' = rows
    BY <1>2 DEF SendRow, ResendRow, SendOnce, work
  <2>2. PICK r \in pass.todo \cup pass.row :
             /\ pass'.row = {r} /\ pass'.got = pass.got
             /\ pass'.ans = "ran" => Reply(disk.access) = "ran"
             /\ \/ office'.ran = [office.ran EXCEPT ![r] = {Bearer(disk.access)}]
                \/ (Reply(disk.access) = "ran" => office.ran[r] # {}) /\ office'.ran = office.ran
    BY <1>2, SendCases
  <2>3. r \in Rows
    BY <1>t DEF Passes
  <2>4. \A q \in Rows : office.ran[q] # {} => office'.ran[q] # {}
    BY <2>2, <2>3, <1>t
  <2>5. pass'.ans = "ran" => office'.ran[r] # {}
    <3>1. office.ran[r] # {} \/ office'.ran = [office.ran EXCEPT ![r] = {Bearer(disk.access)}]
           \/ pass'.ans # "ran"
      BY <2>2
    <3>2. [office.ran EXCEPT ![r] = {Bearer(disk.access)}][r] = {Bearer(disk.access)}
      BY <2>3, <1>t
    <3> QED
      BY <3>1, <3>2, <2>4, <2>3
  <2> QED
    BY <2>1, <2>2, <2>4, <2>5 DEF KeptInv, SyncedRan
<1>3. CASE RowDone
  <2>1. /\ pass'.row = {} /\ pass'.ans = "none" /\ rows' = rows /\ office' = office
        /\ pass'.got = [r \in Rows |-> IF r \in pass.row THEN StateFor(pass.ans) ELSE pass.got[r]]
    BY <1>3, <1>t DEF RowDone, work, Passes
  <2>2. StateFor(pass.ans) = "synced" => pass.ans = "ran"
    BY DEF StateFor
  <2> QED
    BY <2>1, <2>2 DEF KeptInv, SyncedRan
<1>4. CASE PassWriteback
  BY <1>4, <1>t, SessionAssumption DEF PassWriteback, SavedRow, device, Disks, Apps, Auths, Renewals,
     Passes, Reads, Histories, KeptInv, SyncedRan, UndoKeeps
<1>5. CASE PassEnd
  BY <1>5, <1>t, SessionAssumption DEF PassEnd, Idle, device, work, Disks, Apps, Auths, Renewals,
     Passes, Reads, Histories, KeptInv, SyncedRan, UndoKeeps
<1>6. CASE (\E r \in Rows : QueueMutation(r))
  BY <1>6, <1>t, MainUser, SessionAssumption DEF QueueMutation, RunSync, device, Disks, Apps, Auths,
     Renewals, Passes, Reads, Histories, KeptInv, SyncedRan, UndoKeeps
<1>7. CASE RemoveMutation
  BY <1>7, <1>t, MainUser, SessionAssumption DEF RemoveMutation, DropRows, device, Disks, Apps, Auths,
     Renewals, Passes, Reads, Histories, KeptInv, SyncedRan, UndoKeeps
<1>8. CASE RemoveAllStuck
  BY <1>8, <1>t, MainUser, SessionAssumption DEF RemoveAllStuck, DropRows, device, Disks, Apps, Auths,
     Renewals, Passes, Reads, Histories, KeptInv, SyncedRan, UndoKeeps
<1>9. CASE RestoreMutations
  BY <1>9, <1>t, MainUser, SessionAssumption DEF RestoreMutations, device, Disks, Apps, Auths, Renewals,
     Passes, Reads, Histories, KeptInv, SyncedRan, UndoKeeps
<1>10. CASE AnswerLost
  BY <1>10, <1>t, SessionAssumption DEF AnswerLost, device, work, Disks, Apps, Auths, Renewals, Passes,
     Reads, Histories, KeptInv, SyncedRan, UndoKeeps
<1>11. CASE Crash
  BY <1>11, <1>t, SessionAssumption DEF Crash, Idle, NoAuth, NoRead, NoRenewal, Disks, Apps, Auths,
     Renewals, Passes, Reads, Histories, KeptInv, SyncedRan, UndoKeeps
<1>o. CASE ~(SendRow \/ ResendRow \/ RowDone \/ PassWriteback \/ PassEnd \/ (\E r \in Rows :
  QueueMutation(r)) \/ RemoveMutation \/ RemoveAllStuck \/ RestoreMutations \/ AnswerLost \/ Crash)
  BY <1>o, Frame, <1>t DEF KeptInv, SyncedRan, UndoKeeps
<1> QED
  BY <1>1, <1>2, <1>3, <1>4, <1>5, <1>6, <1>7, <1>8, <1>9, <1>10, <1>11, <1>o

LEMMA UndoKeepsStep ==
    ASSUME SessionTypes, KeptInv, TypeOK', [Next]_vars
    PROVE  UndoKeeps'
<1>t. /\ disk \in Disks /\ app \in Apps /\ auth \in Auths /\ renewal \in Renewals /\ pass \in Passes
      /\ read \in Reads /\ undo \subseteq Undos /\ hist \in Histories
      /\ rows \in [Rows -> [state : States, owner : Someone]] /\ cache \in [Someone -> SUBSET Users]
      /\ office \in [pairs : Seq(TokenPairs), ran : [Rows -> SUBSET Users]]
  BY DEF SessionTypes, TypeOK
<1>1. CASE (\E r \in Rows : QueueMutation(r))
  BY <1>1, <1>t, MainUser, SessionAssumption DEF QueueMutation, RunSync, device, Disks, Apps, Auths,
     Renewals, Passes, Reads, Histories, KeptInv, OwnerKept, NotYetQueued, UndoKeeps
<1>2. CASE RemoveMutation
  <2>1. PICK gone \in SUBSET LoadPending : DropRows(gone)
    BY <1>2 DEF RemoveMutation
  <2>2. app.user # Nobody /\ hist'.owner = hist.owner
    BY <2>1, MainUser, <1>t DEF DropRows, Histories
  <2>3. ASSUME NEW r \in gone
        PROVE  /\ hist.owner[r] # Nobody /\ rows[r].owner = hist.owner[r]
               /\ rows[r].state \in {"pending", "failed"}
    BY <2>2 DEF LoadPending, MyRows, KeptInv, OwnerKept, NotYetQueued
  <2>4. undo' = {[row |-> r, was |-> rows[r]] : r \in gone}
    BY <2>1 DEF DropRows
  <2> QED
    BY <2>2, <2>3, <2>4 DEF UndoKeeps
<1>3. CASE RemoveAllStuck
  <2>1. PICK gone \in SUBSET LoadPending : DropRows(gone)
    BY <1>3 DEF RemoveAllStuck
  <2>2. app.user # Nobody /\ hist'.owner = hist.owner
    BY <2>1, MainUser, <1>t DEF DropRows, Histories
  <2>3. ASSUME NEW r \in gone
        PROVE  /\ hist.owner[r] # Nobody /\ rows[r].owner = hist.owner[r]
               /\ rows[r].state \in {"pending", "failed"}
    BY <2>2 DEF LoadPending, MyRows, KeptInv, OwnerKept, NotYetQueued
  <2>4. undo' = {[row |-> r, was |-> rows[r]] : r \in gone}
    BY <2>1 DEF DropRows
  <2> QED
    BY <2>2, <2>3, <2>4 DEF UndoKeeps
<1>o. CASE ~((\E r \in Rows : QueueMutation(r)) \/ RemoveMutation \/ RemoveAllStuck)
  BY <1>o, Frame, <1>t DEF KeptInv, OwnerKept, NotYetQueued, UndoKeeps
<1> QED
  BY <1>1, <1>2, <1>3, <1>o

LEMMA RanAsOwnerStep ==
    ASSUME SessionTypes, KeptInv, ApartInv, TypeOK', [Next]_vars
    PROVE  RanAsOwner'
<1>t. /\ disk \in Disks /\ app \in Apps /\ auth \in Auths /\ renewal \in Renewals /\ pass \in Passes
      /\ read \in Reads /\ undo \subseteq Undos /\ hist \in Histories
      /\ rows \in [Rows -> [state : States, owner : Someone]] /\ cache \in [Someone -> SUBSET Users]
      /\ office \in [pairs : Seq(TokenPairs), ran : [Rows -> SUBSET Users]]
  BY DEF SessionTypes, TypeOK
<1>1. CASE SendRow
  <2>1. hist' = hist
    BY <1>1 DEF SendRow, ResendRow, SendOnce
  <2>2. PICK r \in pass.todo \cup pass.row :
             \/ office'.ran = office.ran
             \/ /\ Reply(disk.access) = "ran"
                /\ office'.ran = [office.ran EXCEPT ![r] = {Bearer(disk.access)}]
    BY <1>1, SendCases
  <2>3. r \in Rows /\ disk.access \in Pairs
    BY <1>t DEF Passes, Disks
  <2>4. Reply(disk.access) = "ran" => Bearer(disk.access) = hist.owner[r]
    <3>1. TokensOf(hist.owner[r])
      BY DEF ApartInv, PassOwned
    <3>2. Reply(disk.access) = "ran" => disk.access # 0 /\ Bearer(disk.access) =
          office.pairs[disk.access].user
      BY <2>3, BearerTyped DEF SessionTypes, Reply
    <3> QED
      BY <3>1, <3>2 DEF TokensOf, Belongs
  <2>5. \A q \in Rows : office'.ran[q] = office.ran[q] \/ office'.ran[q] = {hist.owner[q]}
    BY <2>2, <2>3, <2>4, <1>t
  <2> QED
    BY <2>1, <2>5 DEF ApartInv, RanAsOwner
<1>2. CASE ResendRow
  <2>1. hist' = hist
    BY <1>2 DEF SendRow, ResendRow, SendOnce
  <2>2. PICK r \in pass.todo \cup pass.row :
             \/ office'.ran = office.ran
             \/ /\ Reply(disk.access) = "ran"
                /\ office'.ran = [office.ran EXCEPT ![r] = {Bearer(disk.access)}]
    BY <1>2, SendCases
  <2>3. r \in Rows /\ disk.access \in Pairs
    BY <1>t DEF Passes, Disks
  <2>4. Reply(disk.access) = "ran" => Bearer(disk.access) = hist.owner[r]
    <3>1. TokensOf(hist.owner[r])
      BY DEF ApartInv, PassOwned
    <3>2. Reply(disk.access) = "ran" => disk.access # 0 /\ Bearer(disk.access) =
          office.pairs[disk.access].user
      BY <2>3, BearerTyped DEF SessionTypes, Reply
    <3> QED
      BY <3>1, <3>2 DEF TokensOf, Belongs
  <2>5. \A q \in Rows : office'.ran[q] = office.ran[q] \/ office'.ran[q] = {hist.owner[q]}
    BY <2>2, <2>3, <2>4, <1>t
  <2> QED
    BY <2>1, <2>5 DEF ApartInv, RanAsOwner
<1>3. CASE (\E r \in Rows : QueueMutation(r))
  BY <1>3, <1>t, MainUser, SessionAssumption DEF QueueMutation, RunSync, device, Disks, Apps, Auths,
     Renewals, Passes, Reads, Histories, KeptInv, NotYetQueued, ApartInv, RanAsOwner
<1>o. CASE ~(SendRow \/ ResendRow \/ (\E r \in Rows : QueueMutation(r)))
  BY <1>o, Frame, <1>t DEF KeptInv, NotYetQueued, ApartInv, RanAsOwner
<1> QED
  BY <1>1, <1>2, <1>3, <1>o

LEMMA CachedAsOwnerStep ==
    ASSUME SessionTypes, ApartInv, TypeOK', [Next]_vars
    PROVE  CachedAsOwner'
<1>t. /\ disk \in Disks /\ app \in Apps /\ auth \in Auths /\ renewal \in Renewals /\ pass \in Passes
      /\ read \in Reads /\ undo \subseteq Undos /\ hist \in Histories
      /\ rows \in [Rows -> [state : States, owner : Someone]] /\ cache \in [Someone -> SUBSET Users]
      /\ office \in [pairs : Seq(TokenPairs), ran : [Rows -> SUBSET Users]]
  BY DEF SessionTypes, TypeOK
<1>1. CASE Boot
  BY <1>1, <1>t, SessionAssumption DEF Boot, work, Disks, Apps, Auths, Renewals, Passes, Reads,
     Histories, ApartInv, CachedAsOwner, SigningIn, Starting
<1>2. CASE PersistUser
  BY <1>2, <1>t, SessionAssumption DEF PersistUser, NoAuth, RunSync, work, Disks, Apps, Auths, Renewals,
     Passes, Reads, Histories, ApartInv, CachedAsOwner, SigningIn, Starting
<1>3. CASE LogoutUser
  BY <1>3, <1>t, SessionAssumption DEF LogoutUser, NoAuth, work, Disks, Apps, Auths, Renewals, Passes,
     Reads, Histories, ApartInv, CachedAsOwner, SigningIn, Starting
<1>4. CASE RenewFails
  BY <1>4, <1>t, SessionAssumption DEF RenewFails, NoRead, NoRenewal, PassResumes, ReadResumes, Settle,
     device, work, Disks, Apps, Auths, Renewals, Passes, Reads, Histories, ApartInv, CachedAsOwner,
     SigningIn, Starting
<1>5. CASE SaveRefresh
  BY <1>5, <1>t, SessionAssumption DEF SaveRefresh, NoRead, NoRenewal, PassResumes, ReadResumes, Settle,
     work, Disks, Apps, Auths, Renewals, Passes, Reads, Histories, ApartInv, CachedAsOwner, SigningIn,
     Starting
<1>6. CASE SessionExpired
  BY <1>6, <1>t, SessionAssumption DEF SessionExpired, NoRead, NoRenewal, PassResumes, ReadResumes,
     Settle, work, Disks, Apps, Auths, Renewals, Passes, Reads, Histories, ApartInv, CachedAsOwner,
     SigningIn, Starting
<1>7. CASE Unauthorized
  BY <1>7, <1>t, SessionAssumption DEF Unauthorized, JoinRenewal, NoRead, NoRenewal, PassResumes,
     ReadResumes, device, work, Disks, Apps, Auths, Renewals, Passes, Reads, Histories, ApartInv,
     CachedAsOwner, SigningIn, Starting
<1>8. CASE ReadSend
  <2>1. cache' = cache /\ app' = app
    BY <1>8 DEF ReadSend, work, device
  <2>2. read'.phase = "answered" => read'.data = Bearer(disk.access) /\ Reply(disk.access) = "ran"
    BY <1>8, SendAnswer
  <2>3. disk.access \in Pairs
    BY <1>t DEF Disks
  <2>4. Reply(disk.access) = "ran" => disk.access # 0 /\ Bearer(disk.access) =
        office.pairs[disk.access].user
    BY <2>3, BearerTyped DEF SessionTypes, Reply
  <2>5. app.user # Nobody /\ disk.access # 0 => office.pairs[disk.access].user = app.user
    BY DEF ApartInv, SessionOwned, TokensOf, Belongs
  <2> QED
    BY <2>1, <2>2, <2>4, <2>5 DEF ApartInv, CachedAsOwner
<1>9. CASE ReadUnauthorized
  BY <1>9, <1>t, SessionAssumption DEF ReadUnauthorized, JoinRenewal, NoRead, NoRenewal, PassResumes,
     ReadResumes, device, work, Disks, Apps, Auths, Renewals, Passes, Reads, Histories, ApartInv,
     CachedAsOwner, SigningIn, Starting
<1>10. CASE ReadCached
  <2>1. read'.phase = "idle" /\ app' = app
    BY <1>10 DEF ReadCached, NoRead, device
  <2>2. \A u \in Users : cache'[u] = IF u = app.user THEN cache[u] \cup {read.data} ELSE cache[u]
    BY <1>10, <1>t DEF ReadCached, CacheScope, Someone
  <2>3. \A u \in Users : u = app.user => read.data = u
    BY <1>10, SessionAssumption DEF ReadCached, ApartInv, CachedAsOwner
  <2> QED
    BY <2>1, <2>2, <2>3 DEF ApartInv, CachedAsOwner
<1>11. CASE ReadStart
  BY <1>11, <1>t, MainUser, SessionAssumption DEF ReadStart, NoRead, Spend, device, work, Disks, Apps,
     Auths, Renewals, Passes, Reads, Histories, ApartInv, CachedAsOwner, SigningIn, Starting
<1>12. CASE RenewLost
  BY <1>12, <1>t, SessionAssumption DEF RenewLost, NoRead, NoRenewal, PassResumes, ReadResumes, Settle,
     device, work, Disks, Apps, Auths, Renewals, Passes, Reads, Histories, ApartInv, CachedAsOwner,
     SigningIn, Starting
<1>13. CASE Crash
  BY <1>13, <1>t, SessionAssumption DEF Crash, Idle, NoAuth, NoRead, NoRenewal, Disks, Apps, Auths,
     Renewals, Passes, Reads, Histories, ApartInv, CachedAsOwner, SigningIn, Starting
<1>o. CASE ~(Boot \/ PersistUser \/ LogoutUser \/ RenewFails \/ SaveRefresh \/ SessionExpired \/
  Unauthorized \/ ReadSend \/ ReadUnauthorized \/ ReadCached \/ ReadStart \/ RenewLost \/ Crash)
  BY <1>o, Frame, <1>t DEF ApartInv, CachedAsOwner, SigningIn, Starting
<1> QED
  BY <1>1, <1>2, <1>3, <1>4, <1>5, <1>6, <1>7, <1>8, <1>9, <1>10, <1>11, <1>12, <1>13, <1>o

LEMMA SessionOwnedStep ==
    ASSUME Windows = {}, SessionTypes, ApartInv, TypeOK', [Next]_vars
    PROVE  SessionOwned'
<1>t. /\ disk \in Disks /\ app \in Apps /\ auth \in Auths /\ renewal \in Renewals /\ pass \in Passes
      /\ read \in Reads /\ undo \subseteq Undos /\ hist \in Histories
      /\ rows \in [Rows -> [state : States, owner : Someone]] /\ cache \in [Someone -> SUBSET Users]
      /\ office \in [pairs : Seq(TokenPairs), ran : [Rows -> SUBSET Users]]
  BY DEF SessionTypes, TypeOK
<1>k. \A k \in Pairs : k # 0 => office'.pairs[k].user = office.pairs[k].user
  BY TokensKept
<1>g. /\ disk.access \in Pairs /\ disk.refresh \in Pairs /\ renewal.token \in Pairs /\ renewal.pair \in Pairs
      /\ auth.pair \in Pairs
  BY <1>t DEF Disks, Renewals, Auths
<1>f. Filled
  BY DEF SessionTypes
<1>1. CASE Boot
  <2>1. disk' = disk /\ renewal' = renewal /\ office' = office /\ app'.user = disk.user
    BY <1>1, <1>t DEF Boot, Apps
  <2>2. Coherent /\ renewal.token = 0 /\ renewal.pair = 0
    BY <1>1 DEF Boot, ApartInv, Starting, Resting
  <2>3. disk.user # Nobody => Belongs(disk.access, disk.user) /\ Belongs(disk.refresh, disk.user)
    BY <2>2 DEF Coherent, Belongs
  <2> QED
    BY <2>1, <2>2, <2>3 DEF SessionOwned, TokensOf, Belongs
<1>2. CASE PersistTokens
  BY <1>2, <1>t, SessionAssumption DEF PersistTokens, work, Disks, Apps, Auths, Renewals, Passes, Reads,
     Histories, ApartInv, SessionOwned, SigningIn, Starting, Resting, TokensOf, Belongs, Pairs
<1>3. CASE PersistUser
  BY <1>3, <1>t, SessionAssumption DEF PersistUser, NoAuth, RunSync, work, Disks, Apps, Auths, Renewals,
     Passes, Reads, Histories, ApartInv, SessionOwned, SigningIn, Starting, Resting, TokensOf, Belongs,
     Pairs
<1>4. CASE LogoutUser
  BY <1>4, <1>t, SessionAssumption DEF LogoutUser, NoAuth, work, Disks, Apps, Auths, Renewals, Passes,
     Reads, Histories, ApartInv, SessionOwned, SigningIn, Starting, Resting, TokensOf, Belongs, Pairs
<1>5. CASE Renew
  <2>1. disk' = disk /\ app' = app /\ pass' = pass /\ auth' = auth
    BY <1>5 DEF Renew, device
  <2>2. renewal.token \in Pairs /\ renewal.token # 0
    BY <1>5, RenewCases, <1>g
  <2>3. /\ renewal'.token = renewal.token
        /\ \/ renewal'.pair = renewal.pair
           \/ renewal'.pair # 0 /\ office'.pairs[renewal'.pair].user = office.pairs[renewal.token].user
    BY <1>5, RenewCases
  <2>4. ASSUME NEW u, TokensOf(u) PROVE TokensOf(u)'
    BY <2>1, <2>2, <2>3, <2>4, <1>k, <1>g DEF TokensOf, Belongs
  <2> QED
    BY <2>1, <2>4 DEF ApartInv, SessionOwned
<1>6. CASE RenewFails
  BY <1>6, <1>t, SessionAssumption DEF RenewFails, NoRead, NoRenewal, PassResumes, ReadResumes, Settle,
     device, work, Disks, Apps, Auths, Renewals, Passes, Reads, Histories, ApartInv, SessionOwned,
     SigningIn, Starting, Resting, TokensOf, Belongs, Pairs
<1>7. CASE SaveAccess
  BY <1>7, <1>t, SessionAssumption DEF SaveAccess, work, Disks, Apps, Auths, Renewals, Passes, Reads,
     Histories, ApartInv, SessionOwned, SigningIn, Starting, Resting, TokensOf, Belongs, Pairs
<1>8. CASE SaveRefresh
  BY <1>8, <1>t, SessionAssumption DEF SaveRefresh, NoRead, NoRenewal, PassResumes, ReadResumes, Settle,
     work, Disks, Apps, Auths, Renewals, Passes, Reads, Histories, ApartInv, SessionOwned, SigningIn,
     Starting, Resting, TokensOf, Belongs, Pairs
<1>9. CASE SessionExpired
  BY <1>9, <1>t, SessionAssumption DEF SessionExpired, NoRead, NoRenewal, PassResumes, ReadResumes,
     Settle, work, Disks, Apps, Auths, Renewals, Passes, Reads, Histories, ApartInv, SessionOwned,
     SigningIn, Starting, Resting, TokensOf, Belongs, Pairs
<1>10. CASE Unauthorized
  <2>1. disk' = disk /\ app' = app /\ auth' = auth /\ hist' = hist /\ office' = office
    BY <1>10 DEF Unauthorized, device
  <2>2. JoinRenewal("pass")
    BY <1>10 DEF Unauthorized
  <2> QED
    BY <2>1, <2>2, JoinCases, <1>f DEF ApartInv, SessionOwned, SigningIn, Resting, TokensOf, Belongs
<1>11. CASE ReadUnauthorized
  <2>1. disk' = disk /\ app' = app /\ auth' = auth /\ hist' = hist /\ office' = office
    BY <1>11 DEF ReadUnauthorized, device
  <2>2. JoinRenewal("read")
    BY <1>11 DEF ReadUnauthorized
  <2> QED
    BY <2>1, <2>2, JoinCases, <1>f DEF ApartInv, SessionOwned, SigningIn, Resting, TokensOf, Belongs
<1>12. CASE LogoutTokens
  BY <1>12, <1>t, MainUser, SessionAssumption DEF LogoutTokens, NoAuth, work, Disks, Apps, Auths,
     Renewals, Passes, Reads, Histories, ApartInv, SessionOwned, SigningIn, Starting, Resting, TokensOf,
     Belongs, Pairs
<1>13. CASE RenewLost
  BY <1>13, <1>t, SessionAssumption DEF RenewLost, NoRead, NoRenewal, PassResumes, ReadResumes, Settle,
     device, work, Disks, Apps, Auths, Renewals, Passes, Reads, Histories, ApartInv, SessionOwned,
     SigningIn, Starting, Resting, TokensOf, Belongs, Pairs
<1>14. CASE Crash
  BY <1>14, <1>t, SessionAssumption DEF Crash, Idle, NoAuth, NoRead, NoRenewal, Disks, Apps, Auths,
     Renewals, Passes, Reads, Histories, ApartInv, SessionOwned, SigningIn, Starting, Resting, TokensOf,
     Belongs, Pairs
<1>o. CASE ~(Boot \/ PersistTokens \/ PersistUser \/ LogoutUser \/ Renew \/ RenewFails \/ SaveAccess
  \/ SaveRefresh \/ SessionExpired \/ Unauthorized \/ ReadUnauthorized \/ LogoutTokens \/ RenewLost
  \/ Crash)
  <2>1. /\ app'.user = app.user /\ disk'.access = disk.access /\ disk'.refresh = disk.refresh
        /\ renewal' = renewal
    BY <1>o, Frame
  <2> QED
    BY <2>1, <1>k, <1>g DEF ApartInv, SessionOwned, TokensOf, Belongs
<1> QED
  BY <1>1, <1>2, <1>3, <1>4, <1>5, <1>6, <1>7, <1>8, <1>9, <1>10, <1>11, <1>12, <1>13, <1>14, <1>o

LEMMA PassOwnedStep ==
    ASSUME SessionTypes, KeptInv, ApartInv, TypeOK', [Next]_vars
    PROVE  PassOwned'
<1>t. /\ disk \in Disks /\ app \in Apps /\ auth \in Auths /\ renewal \in Renewals /\ pass \in Passes
      /\ read \in Reads /\ undo \subseteq Undos /\ hist \in Histories
      /\ rows \in [Rows -> [state : States, owner : Someone]] /\ cache \in [Someone -> SUBSET Users]
      /\ office \in [pairs : Seq(TokenPairs), ran : [Rows -> SUBSET Users]]
  BY DEF SessionTypes, TypeOK
<1>k. \A k \in Pairs : k # 0 => office'.pairs[k].user = office.pairs[k].user
  BY TokensKept
<1>g. /\ disk.access \in Pairs /\ disk.refresh \in Pairs /\ renewal.token \in Pairs /\ renewal.pair \in Pairs
      /\ auth.pair \in Pairs
  BY <1>t DEF Disks, Renewals, Auths
<1>f. Filled
  BY DEF SessionTypes
<1>1. CASE PersistTokens
  BY <1>1, <1>t, SessionAssumption DEF PersistTokens, work, Disks, Apps, Auths, Renewals, Passes, Reads,
     Histories, ApartInv, PassOwned, SigningIn, SessionOwned, Resting, TokensOf, Belongs, KeptInv,
     NotYetQueued, Pairs
<1>2. CASE Renew
  <2>0. hist'.owner = hist.owner
    BY <1>2, <1>t DEF Renew, Histories
  <2>1. disk' = disk /\ app' = app /\ pass' = pass /\ auth' = auth
    BY <1>2 DEF Renew, device
  <2>2. renewal.token \in Pairs /\ renewal.token # 0
    BY <1>2, RenewCases, <1>g
  <2>3. /\ renewal'.token = renewal.token
        /\ \/ renewal'.pair = renewal.pair
           \/ renewal'.pair # 0 /\ office'.pairs[renewal'.pair].user = office.pairs[renewal.token].user
    BY <1>2, RenewCases
  <2>4. ASSUME NEW u, TokensOf(u) PROVE TokensOf(u)'
    BY <2>1, <2>2, <2>3, <2>4, <1>k, <1>g DEF TokensOf, Belongs
  <2> QED
    BY <2>0, <2>1, <2>4 DEF ApartInv, PassOwned
<1>3. CASE RenewFails
  BY <1>3, <1>t, SessionAssumption DEF RenewFails, NoRead, NoRenewal, PassResumes, ReadResumes, Settle,
     device, work, Disks, Apps, Auths, Renewals, Passes, Reads, Histories, ApartInv, PassOwned,
     SigningIn, SessionOwned, Resting, TokensOf, Belongs, KeptInv, NotYetQueued, Pairs
<1>4. CASE SaveAccess
  BY <1>4, <1>t, SessionAssumption DEF SaveAccess, work, Disks, Apps, Auths, Renewals, Passes, Reads,
     Histories, ApartInv, PassOwned, SigningIn, SessionOwned, Resting, TokensOf, Belongs, KeptInv,
     NotYetQueued, Pairs
<1>5. CASE SaveRefresh
  BY <1>5, <1>t, SessionAssumption DEF SaveRefresh, NoRead, NoRenewal, PassResumes, ReadResumes, Settle,
     work, Disks, Apps, Auths, Renewals, Passes, Reads, Histories, ApartInv, PassOwned, SigningIn,
     SessionOwned, Resting, TokensOf, Belongs, KeptInv, NotYetQueued, Pairs
<1>6. CASE SessionExpired
  BY <1>6, <1>t, SessionAssumption DEF SessionExpired, NoRead, NoRenewal, PassResumes, ReadResumes,
     Settle, work, Disks, Apps, Auths, Renewals, Passes, Reads, Histories, ApartInv, PassOwned,
     SigningIn, SessionOwned, Resting, TokensOf, Belongs, KeptInv, NotYetQueued, Pairs
<1>7. CASE PassLoad
  <2>1. /\ pass'.todo \subseteq pass.todo \cup LoadPending /\ pass'.row = pass.row
        /\ disk' = disk /\ renewal' = renewal /\ office' = office /\ hist' = hist
    BY <1>7, <1>t DEF PassLoad, device, Passes
  <2>2. \A r \in LoadPending : hist.owner[r] = app.user /\ app.user # Nobody
    BY DEF LoadPending, MyRows, KeptInv, OwnerKept, NotYetQueued
  <2>3. \A r \in pass.todo \cup pass.row \cup LoadPending : TokensOf(hist.owner[r])
    BY <2>2 DEF ApartInv, PassOwned, SessionOwned
  <2> QED
    BY <2>1, <2>3 DEF PassOwned, TokensOf, Belongs
<1>8. CASE SendRow
  BY <1>8, <1>t, SessionAssumption DEF SendRow, SendOnce, device, work, Disks, Apps, Auths, Renewals,
     Passes, Reads, Histories, ApartInv, PassOwned, SigningIn, SessionOwned, Resting, TokensOf, Belongs,
     KeptInv, NotYetQueued, Pairs
<1>9. CASE ResendRow
  BY <1>9, <1>t, SessionAssumption DEF ResendRow, SendOnce, device, work, Disks, Apps, Auths, Renewals,
     Passes, Reads, Histories, ApartInv, PassOwned, SigningIn, SessionOwned, Resting, TokensOf, Belongs,
     KeptInv, NotYetQueued, Pairs
<1>10. CASE Unauthorized
  <2>1. disk' = disk /\ office' = office /\ hist' = hist /\ pass'.todo = pass.todo /\ pass'.row =
        pass.row
    BY <1>10, JoinCases, <1>t DEF Unauthorized, device, Passes
  <2>2. JoinRenewal("pass")
    BY <1>10 DEF Unauthorized
  <2>3. ASSUME NEW u, TokensOf(u) PROVE TokensOf(u)'
    BY <2>1, <2>2, <2>3, JoinCases DEF TokensOf, Belongs
  <2> QED
    BY <2>1, <2>3 DEF ApartInv, PassOwned
<1>11. CASE RowDone
  BY <1>11, <1>t, SessionAssumption DEF RowDone, device, work, Disks, Apps, Auths, Renewals, Passes,
     Reads, Histories, ApartInv, PassOwned, SigningIn, SessionOwned, Resting, TokensOf, Belongs,
     KeptInv, NotYetQueued, Pairs
<1>12. CASE PassEnd
  BY <1>12, <1>t, SessionAssumption DEF PassEnd, Idle, device, work, Disks, Apps, Auths, Renewals,
     Passes, Reads, Histories, ApartInv, PassOwned, SigningIn, SessionOwned, Resting, TokensOf, Belongs,
     KeptInv, NotYetQueued, Pairs
<1>13. CASE ReadUnauthorized
  <2>1. disk' = disk /\ office' = office /\ hist' = hist /\ pass'.todo = pass.todo /\ pass'.row =
        pass.row
    BY <1>13, JoinCases, <1>t DEF ReadUnauthorized, device, Passes
  <2>2. JoinRenewal("read")
    BY <1>13 DEF ReadUnauthorized
  <2>3. ASSUME NEW u, TokensOf(u) PROVE TokensOf(u)'
    BY <2>1, <2>2, <2>3, JoinCases DEF TokensOf, Belongs
  <2> QED
    BY <2>1, <2>3 DEF ApartInv, PassOwned
<1>14. CASE LogoutTokens
  BY <1>14, <1>t, MainUser, SessionAssumption DEF LogoutTokens, NoAuth, work, Disks, Apps, Auths,
     Renewals, Passes, Reads, Histories, ApartInv, PassOwned, SigningIn, SessionOwned, Resting,
     TokensOf, Belongs, KeptInv, NotYetQueued, Pairs
<1>15. CASE (\E r \in Rows : QueueMutation(r))
  BY <1>15, <1>t, MainUser, SessionAssumption DEF QueueMutation, RunSync, device, Disks, Apps, Auths,
     Renewals, Passes, Reads, Histories, ApartInv, PassOwned, SigningIn, SessionOwned, Resting,
     TokensOf, Belongs, KeptInv, NotYetQueued, Pairs
<1>16. CASE RenewLost
  BY <1>16, <1>t, SessionAssumption DEF RenewLost, NoRead, NoRenewal, PassResumes, ReadResumes, Settle,
     device, work, Disks, Apps, Auths, Renewals, Passes, Reads, Histories, ApartInv, PassOwned,
     SigningIn, SessionOwned, Resting, TokensOf, Belongs, KeptInv, NotYetQueued, Pairs
<1>17. CASE Crash
  BY <1>17, <1>t, SessionAssumption DEF Crash, Idle, NoAuth, NoRead, NoRenewal, Disks, Apps, Auths,
     Renewals, Passes, Reads, Histories, ApartInv, PassOwned, SigningIn, SessionOwned, Resting,
     TokensOf, Belongs, KeptInv, NotYetQueued, Pairs
<1>o. CASE ~(PersistTokens \/ Renew \/ RenewFails \/ SaveAccess \/ SaveRefresh \/ SessionExpired \/
  PassLoad \/ SendRow \/ ResendRow \/ Unauthorized \/ RowDone \/ PassEnd \/ ReadUnauthorized \/
  LogoutTokens \/ (\E r \in Rows : QueueMutation(r)) \/ RenewLost \/ Crash)
  <2>1. /\ pass'.todo = pass.todo /\ pass'.row = pass.row /\ hist'.owner = hist.owner /\ renewal' = renewal
        /\ disk'.access = disk.access /\ disk'.refresh = disk.refresh
    BY <1>o, Frame
  <2> QED
    BY <2>1, <1>k, <1>g DEF ApartInv, PassOwned, TokensOf, Belongs
<1> QED
  BY <1>1, <1>2, <1>3, <1>4, <1>5, <1>6, <1>7, <1>8, <1>9, <1>10, <1>11, <1>12, <1>13, <1>14, <1>15,
    <1>16, <1>17, <1>o

LEMMA RestingStep ==
    ASSUME SessionTypes, ApartInv, TypeOK', [Next]_vars
    PROVE  Resting'
<1>t. /\ disk \in Disks /\ app \in Apps /\ auth \in Auths /\ renewal \in Renewals /\ pass \in Passes
      /\ read \in Reads /\ undo \subseteq Undos /\ hist \in Histories
      /\ rows \in [Rows -> [state : States, owner : Someone]] /\ cache \in [Someone -> SUBSET Users]
      /\ office \in [pairs : Seq(TokenPairs), ran : [Rows -> SUBSET Users]]
  BY DEF SessionTypes, TypeOK
<1>1. CASE Renew
  <2>1. pass' = pass
    BY <1>1 DEF Renew, work, device
  <2>2. renewal'.phase # "idle"
    BY <1>1, <1>t DEF Renew, Renewals
  <2> QED
    BY <2>1, <2>2 DEF ApartInv, Resting
<1>2. CASE RenewFails
  BY <1>2, <1>t, SessionAssumption DEF RenewFails, NoRead, NoRenewal, PassResumes, ReadResumes, Settle,
     device, work, Disks, Apps, Auths, Renewals, Passes, Reads, Histories, ApartInv, Resting
<1>3. CASE SaveRefresh
  BY <1>3, <1>t, SessionAssumption DEF SaveRefresh, NoRead, NoRenewal, PassResumes, ReadResumes, Settle,
     work, Disks, Apps, Auths, Renewals, Passes, Reads, Histories, ApartInv, Resting
<1>4. CASE SessionExpired
  BY <1>4, <1>t, SessionAssumption DEF SessionExpired, NoRead, NoRenewal, PassResumes, ReadResumes,
     Settle, work, Disks, Apps, Auths, Renewals, Passes, Reads, Histories, ApartInv, Resting
<1>5. CASE PassLoad
  <2>1. renewal' = renewal /\ pass'.phase \in {"end", "send"}
    BY <1>5, <1>t DEF PassLoad, Passes
  <2> QED
    BY <2>1 DEF ApartInv, Resting
<1>6. CASE SendRow
  BY <1>6, <1>t, SessionAssumption DEF SendRow, SendOnce, device, work, Disks, Apps, Auths, Renewals,
     Passes, Reads, Histories, ApartInv, Resting
<1>7. CASE ResendRow
  BY <1>7, <1>t, SessionAssumption DEF ResendRow, SendOnce, device, work, Disks, Apps, Auths, Renewals,
     Passes, Reads, Histories, ApartInv, Resting
<1>8. CASE Unauthorized
  <2>1. /\ pass'.todo = pass.todo /\ pass'.row = pass.row
        /\ pass'.phase \in {"idle", "load"} => pass'.phase = pass.phase
    BY <1>8, JoinCases, <1>t DEF Unauthorized, Passes
  <2>2. renewal'.phase = "idle" => renewal' = renewal
    BY <1>8, JoinCases DEF Unauthorized
  <2> QED
    BY <2>1, <2>2 DEF ApartInv, Resting
<1>9. CASE RowDone
  BY <1>9, <1>t, SessionAssumption DEF RowDone, device, work, Disks, Apps, Auths, Renewals, Passes,
     Reads, Histories, ApartInv, Resting
<1>10. CASE PassWriteback
  BY <1>10, <1>t, SessionAssumption DEF PassWriteback, SavedRow, device, Disks, Apps, Auths, Renewals,
     Passes, Reads, Histories, ApartInv, Resting
<1>11. CASE PassEnd
  BY <1>11, <1>t, SessionAssumption DEF PassEnd, Idle, device, work, Disks, Apps, Auths, Renewals,
     Passes, Reads, Histories, ApartInv, Resting
<1>12. CASE ReadUnauthorized
  <2>1. /\ pass'.todo = pass.todo /\ pass'.row = pass.row
        /\ pass'.phase \in {"idle", "load"} => pass'.phase = pass.phase
    BY <1>12, JoinCases, <1>t DEF ReadUnauthorized, Passes
  <2>2. renewal'.phase = "idle" => renewal' = renewal
    BY <1>12, JoinCases DEF ReadUnauthorized
  <2> QED
    BY <2>1, <2>2 DEF ApartInv, Resting
<1>13. CASE RenewLost
  BY <1>13, <1>t, SessionAssumption DEF RenewLost, NoRead, NoRenewal, PassResumes, ReadResumes, Settle,
     device, work, Disks, Apps, Auths, Renewals, Passes, Reads, Histories, ApartInv, Resting
<1>14. CASE Crash
  BY <1>14, <1>t, SessionAssumption DEF Crash, Idle, NoAuth, NoRead, NoRenewal, Disks, Apps, Auths,
     Renewals, Passes, Reads, Histories, ApartInv, Resting
<1>o. CASE ~(Renew \/ RenewFails \/ SaveRefresh \/ SessionExpired \/ PassLoad \/ SendRow \/
  ResendRow \/ Unauthorized \/ RowDone \/ PassWriteback \/ PassEnd \/ ReadUnauthorized \/ RenewLost
  \/ Crash)
  BY <1>o, Frame, <1>t DEF ApartInv, Resting
<1> QED
  BY <1>1, <1>2, <1>3, <1>4, <1>5, <1>6, <1>7, <1>8, <1>9, <1>10, <1>11, <1>12, <1>13, <1>14, <1>o

LEMMA SigningInStep ==
    ASSUME Windows = {}, SessionTypes, KeptInv, ApartInv, TypeOK', [Next]_vars
    PROVE  SigningIn'
<1>t. /\ disk \in Disks /\ app \in Apps /\ auth \in Auths /\ renewal \in Renewals /\ pass \in Passes
      /\ read \in Reads /\ undo \subseteq Undos /\ hist \in Histories
      /\ rows \in [Rows -> [state : States, owner : Someone]] /\ cache \in [Someone -> SUBSET Users]
      /\ office \in [pairs : Seq(TokenPairs), ran : [Rows -> SUBSET Users]]
  BY DEF SessionTypes, TypeOK
<1>k. \A k \in Pairs : k # 0 => office'.pairs[k].user = office.pairs[k].user
  BY TokensKept
<1>g. /\ disk.access \in Pairs /\ disk.refresh \in Pairs /\ renewal.token \in Pairs /\ renewal.pair \in Pairs
      /\ auth.pair \in Pairs
  BY <1>t DEF Disks, Renewals, Auths
<1>f. Filled
  BY DEF SessionTypes
<1>1. CASE Boot
  BY <1>1, <1>t, SessionAssumption DEF Boot, work, Disks, Apps, Auths, Renewals, Passes, Reads,
     Histories, ApartInv, SigningIn, Starting, Resting, KeptInv, NotYetQueued, OwnerKept, Pairs
<1>2. CASE PersistTokens
  BY <1>2, <1>t, SessionAssumption DEF PersistTokens, work, Disks, Apps, Auths, Renewals, Passes, Reads,
     Histories, ApartInv, SigningIn, Starting, Resting, KeptInv, NotYetQueued, OwnerKept, Pairs
<1>3. CASE PersistUser
  BY <1>3, <1>t, SessionAssumption DEF PersistUser, NoAuth, RunSync, work, Disks, Apps, Auths, Renewals,
     Passes, Reads, Histories, ApartInv, SigningIn, Starting, Resting, KeptInv, NotYetQueued, OwnerKept,
     Pairs
<1>4. CASE LogoutUser
  BY <1>4, <1>t, SessionAssumption DEF LogoutUser, NoAuth, work, Disks, Apps, Auths, Renewals, Passes,
     Reads, Histories, ApartInv, SigningIn, Starting, Resting, KeptInv, NotYetQueued, OwnerKept, Pairs
<1>5. CASE Renew
  BY <1>5, <1>t, SessionAssumption DEF Renew, device, work, Disks, Apps, Auths, Renewals, Passes, Reads,
     Histories, ApartInv, SigningIn, Starting, Resting, KeptInv, NotYetQueued, OwnerKept, Pairs
<1>6. CASE RenewFails
  BY <1>6, <1>t, SessionAssumption DEF RenewFails, NoRead, NoRenewal, PassResumes, ReadResumes, Settle,
     device, work, Disks, Apps, Auths, Renewals, Passes, Reads, Histories, ApartInv, SigningIn,
     Starting, Resting, KeptInv, NotYetQueued, OwnerKept, Pairs
<1>7. CASE SaveAccess
  BY <1>7, <1>t, SessionAssumption DEF SaveAccess, work, Disks, Apps, Auths, Renewals, Passes, Reads,
     Histories, ApartInv, SigningIn, Starting, Resting, KeptInv, NotYetQueued, OwnerKept, Pairs
<1>8. CASE SaveRefresh
  BY <1>8, <1>t, SessionAssumption DEF SaveRefresh, NoRead, NoRenewal, PassResumes, ReadResumes, Settle,
     work, Disks, Apps, Auths, Renewals, Passes, Reads, Histories, ApartInv, SigningIn, Starting,
     Resting, KeptInv, NotYetQueued, OwnerKept, Pairs
<1>9. CASE SessionExpired
  BY <1>9, <1>t, SessionAssumption DEF SessionExpired, NoRead, NoRenewal, PassResumes, ReadResumes,
     Settle, work, Disks, Apps, Auths, Renewals, Passes, Reads, Histories, ApartInv, SigningIn,
     Starting, Resting, KeptInv, NotYetQueued, OwnerKept, Pairs
<1>10. CASE PassLoad
  <2>1. /\ pass'.todo = pass.todo \/ pass'.todo = LoadPending
        /\ pass'.row = pass.row /\ pass'.phase \in {"send", "end"} /\ app' = app /\ disk' = disk /\ auth' = auth
        /\ office' = office /\ read' = read /\ renewal' = renewal
    BY <1>10, <1>t DEF PassLoad, device, Passes
  <2> QED
    BY <2>1, NothingToLoad DEF ApartInv, SigningIn
<1>11. CASE SendRow
  BY <1>11, <1>t, SessionAssumption DEF SendRow, SendOnce, device, work, Disks, Apps, Auths, Renewals,
     Passes, Reads, Histories, ApartInv, SigningIn, Starting, Resting, KeptInv, NotYetQueued, OwnerKept,
     Pairs
<1>12. CASE ResendRow
  BY <1>12, <1>t, SessionAssumption DEF ResendRow, SendOnce, device, work, Disks, Apps, Auths, Renewals,
     Passes, Reads, Histories, ApartInv, SigningIn, Starting, Resting, KeptInv, NotYetQueued, OwnerKept,
     Pairs
<1>13. CASE Unauthorized
  BY <1>13, <1>t, SessionAssumption DEF Unauthorized, JoinRenewal, NoRead, NoRenewal, PassResumes,
     ReadResumes, device, work, Disks, Apps, Auths, Renewals, Passes, Reads, Histories, ApartInv,
     SigningIn, Starting, Resting, KeptInv, NotYetQueued, OwnerKept, Pairs
<1>14. CASE RowDone
  BY <1>14, <1>t, SessionAssumption DEF RowDone, device, work, Disks, Apps, Auths, Renewals, Passes,
     Reads, Histories, ApartInv, SigningIn, Starting, Resting, KeptInv, NotYetQueued, OwnerKept, Pairs
<1>15. CASE PassWriteback
  BY <1>15, <1>t, SessionAssumption DEF PassWriteback, SavedRow, device, Disks, Apps, Auths, Renewals,
     Passes, Reads, Histories, ApartInv, SigningIn, Starting, Resting, KeptInv, NotYetQueued, OwnerKept,
     Pairs
<1>16. CASE PassEnd
  BY <1>16, <1>t, SessionAssumption DEF PassEnd, Idle, device, work, Disks, Apps, Auths, Renewals,
     Passes, Reads, Histories, ApartInv, SigningIn, Starting, Resting, KeptInv, NotYetQueued, OwnerKept,
     Pairs
<1>17. CASE ReadSend
  BY <1>17, <1>t, SessionAssumption DEF ReadSend, NoRead, device, work, Disks, Apps, Auths, Renewals,
     Passes, Reads, Histories, ApartInv, SigningIn, Starting, Resting, KeptInv, NotYetQueued, OwnerKept,
     Pairs
<1>18. CASE ReadUnauthorized
  BY <1>18, <1>t, SessionAssumption DEF ReadUnauthorized, JoinRenewal, NoRead, NoRenewal, PassResumes,
     ReadResumes, device, work, Disks, Apps, Auths, Renewals, Passes, Reads, Histories, ApartInv,
     SigningIn, Starting, Resting, KeptInv, NotYetQueued, OwnerKept, Pairs
<1>19. CASE ReadCached
  BY <1>19, <1>t, SessionAssumption DEF ReadCached, NoRead, device, Disks, Apps, Auths, Renewals,
     Passes, Reads, Histories, ApartInv, SigningIn, Starting, Resting, KeptInv, NotYetQueued, OwnerKept,
     Pairs
<1>20. CASE (\E u \in Users : LoginViaRelay(u))
  <2> PICK u \in Users : LoginViaRelay(u)
    BY <1>20
  <2>1. Quiet /\ app.user = Nobody /\ disk' = disk /\ app' = app /\ pass' = pass /\ read' = read /\
        renewal' = renewal
    BY LoginScreen DEF LoginViaRelay
  <2>2. auth'.op = "tokens" /\ auth'.user = u /\ office'.pairs[auth'.pair].user = u
    BY LoginCases
  <2> QED
    BY <2>1, <2>2 DEF Quiet, ApartInv, Resting, SigningIn
<1>21. CASE LogoutTokens
  BY <1>21, <1>t, MainUser, SessionAssumption DEF LogoutTokens, NoAuth, work, Disks, Apps, Auths,
     Renewals, Passes, Reads, Histories, ApartInv, SigningIn, Starting, Resting, KeptInv, NotYetQueued,
     OwnerKept, Pairs
<1>22. CASE ReadStart
  BY <1>22, <1>t, MainUser, SessionAssumption DEF ReadStart, NoRead, Spend, device, work, Disks, Apps,
     Auths, Renewals, Passes, Reads, Histories, ApartInv, SigningIn, Starting, Resting, KeptInv,
     NotYetQueued, OwnerKept, Pairs
<1>23. CASE RenewLost
  BY <1>23, <1>t, SessionAssumption DEF RenewLost, NoRead, NoRenewal, PassResumes, ReadResumes, Settle,
     device, work, Disks, Apps, Auths, Renewals, Passes, Reads, Histories, ApartInv, SigningIn,
     Starting, Resting, KeptInv, NotYetQueued, OwnerKept, Pairs
<1>24. CASE Crash
  BY <1>24, <1>t, SessionAssumption DEF Crash, Idle, NoAuth, NoRead, NoRenewal, Disks, Apps, Auths,
     Renewals, Passes, Reads, Histories, ApartInv, SigningIn, Starting, Resting, KeptInv, NotYetQueued,
     OwnerKept, Pairs
<1>o. CASE ~(Boot \/ PersistTokens \/ PersistUser \/ LogoutUser \/ Renew \/ RenewFails \/ SaveAccess
  \/ SaveRefresh \/ SessionExpired \/ PassLoad \/ SendRow \/ ResendRow \/ Unauthorized \/ RowDone \/
  PassWriteback \/ PassEnd \/ ReadSend \/ ReadUnauthorized \/ ReadCached \/ (\E u \in Users :
  LoginViaRelay(u)) \/ LogoutTokens \/ ReadStart \/ RenewLost \/ Crash)
  <2>1. /\ app'.user = app.user /\ disk'.access = disk.access /\ disk'.refresh = disk.refresh
        /\ renewal' = renewal /\ auth' = auth /\ read' = read
        /\ pass'.todo = pass.todo /\ pass'.row = pass.row
        /\ pass'.phase = pass.phase \/ pass'.phase = "load"
    BY <1>o, Frame
  <2> QED
    BY <2>1, <1>k, <1>g, <1>f DEF ApartInv, SigningIn, Filled
<1> QED
  BY <1>1, <1>2, <1>3, <1>4, <1>5, <1>6, <1>7, <1>8, <1>9, <1>10, <1>11, <1>12, <1>13, <1>14, <1>15,
    <1>16, <1>17, <1>18, <1>19, <1>20, <1>21, <1>22, <1>23, <1>24, <1>o

LEMMA StartingStep ==
    ASSUME Windows = {}, SessionTypes, ApartInv, TypeOK', [Next]_vars
    PROVE  Starting'
<1>t. /\ disk \in Disks /\ app \in Apps /\ auth \in Auths /\ renewal \in Renewals /\ pass \in Passes
      /\ read \in Reads /\ undo \subseteq Undos /\ hist \in Histories
      /\ rows \in [Rows -> [state : States, owner : Someone]] /\ cache \in [Someone -> SUBSET Users]
      /\ office \in [pairs : Seq(TokenPairs), ran : [Rows -> SUBSET Users]]
  BY DEF SessionTypes, TypeOK
<1>k. \A k \in Pairs : k # 0 => office'.pairs[k].user = office.pairs[k].user
  BY TokensKept
<1>g. /\ disk.access \in Pairs /\ disk.refresh \in Pairs /\ renewal.token \in Pairs /\ renewal.pair \in Pairs
      /\ auth.pair \in Pairs
  BY <1>t DEF Disks, Renewals, Auths
<1>f. Filled
  BY DEF SessionTypes
<1>1. CASE Boot
  BY <1>1, <1>t, SessionAssumption DEF Boot, work, Disks, Apps, Auths, Renewals, Passes, Reads,
     Histories, ApartInv, Starting, Coherent
<1>2. CASE EvaluateGates
  <2>1. disk' = disk /\ auth' = auth /\ pass' = pass /\ read' = read /\ renewal' = renewal /\
        office' = office /\ timer' = timer
    BY <1>2 DEF EvaluateGates
  <2>2. app'.mounted = app.mounted /\ (app'.ready \/ app'.ready = app.ready)
    BY <1>2, <1>t DEF EvaluateGates, Verdict, Apps
  <2> QED
    BY <2>1, <2>2 DEF ApartInv, Starting, Coherent
<1>3. CASE EvaluateProbe
  BY <1>3, <1>t, SessionAssumption DEF EvaluateProbe, RunSync, Verdict, work, Disks, Apps, Auths,
     Renewals, Passes, Reads, Histories, ApartInv, Starting, Coherent
<1>4. CASE Mount
  BY <1>4, <1>t, MainUser, SessionAssumption DEF Mount, RunSync, work, Disks, Apps, Auths, Renewals,
     Passes, Reads, Histories, ApartInv, Starting, Coherent
<1>5. CASE Unmount
  BY <1>5, <1>t, SessionAssumption DEF Unmount, Disks, Apps, Auths, Renewals, Passes, Reads, Histories,
     ApartInv, Starting, Coherent
<1>6. CASE PersistTokens
  BY <1>6, <1>t, SessionAssumption DEF PersistTokens, work, Disks, Apps, Auths, Renewals, Passes, Reads,
     Histories, ApartInv, Starting, Coherent
<1>7. CASE PersistUser
  BY <1>7, <1>t, SessionAssumption DEF PersistUser, NoAuth, RunSync, work, Disks, Apps, Auths, Renewals,
     Passes, Reads, Histories, ApartInv, Starting, Coherent
<1>8. CASE LogoutUser
  BY <1>8, <1>t, SessionAssumption DEF LogoutUser, NoAuth, work, Disks, Apps, Auths, Renewals, Passes,
     Reads, Histories, ApartInv, Starting, Coherent
<1>9. CASE Renew
  BY <1>9, <1>t, SessionAssumption DEF Renew, device, work, Disks, Apps, Auths, Renewals, Passes, Reads,
     Histories, ApartInv, Starting, Coherent
<1>10. CASE RenewFails
  BY <1>10, <1>t, SessionAssumption DEF RenewFails, NoRead, NoRenewal, PassResumes, ReadResumes, Settle,
     device, work, Disks, Apps, Auths, Renewals, Passes, Reads, Histories, ApartInv, Starting, Coherent
<1>11. CASE SaveAccess
  BY <1>11, <1>t, SessionAssumption DEF SaveAccess, work, Disks, Apps, Auths, Renewals, Passes, Reads,
     Histories, ApartInv, Starting, Coherent
<1>12. CASE SaveRefresh
  BY <1>12, <1>t, SessionAssumption DEF SaveRefresh, NoRead, NoRenewal, PassResumes, ReadResumes,
     Settle, work, Disks, Apps, Auths, Renewals, Passes, Reads, Histories, ApartInv, Starting, Coherent
<1>13. CASE SessionExpired
  BY <1>13, <1>t, SessionAssumption DEF SessionExpired, NoRead, NoRenewal, PassResumes, ReadResumes,
     Settle, work, Disks, Apps, Auths, Renewals, Passes, Reads, Histories, ApartInv, Starting, Coherent
<1>14. CASE PassLoad
  BY <1>14, <1>t, SessionAssumption DEF PassLoad, device, work, Disks, Apps, Auths, Renewals, Passes,
     Reads, Histories, ApartInv, Starting, Coherent
<1>15. CASE SendRow
  BY <1>15, <1>t, SessionAssumption DEF SendRow, SendOnce, device, work, Disks, Apps, Auths, Renewals,
     Passes, Reads, Histories, ApartInv, Starting, Coherent
<1>16. CASE ResendRow
  BY <1>16, <1>t, SessionAssumption DEF ResendRow, SendOnce, device, work, Disks, Apps, Auths, Renewals,
     Passes, Reads, Histories, ApartInv, Starting, Coherent
<1>17. CASE Unauthorized
  BY <1>17, <1>t, SessionAssumption DEF Unauthorized, JoinRenewal, NoRead, NoRenewal, PassResumes,
     ReadResumes, device, work, Disks, Apps, Auths, Renewals, Passes, Reads, Histories, ApartInv,
     Starting, Coherent
<1>18. CASE RowDone
  BY <1>18, <1>t, SessionAssumption DEF RowDone, device, work, Disks, Apps, Auths, Renewals, Passes,
     Reads, Histories, ApartInv, Starting, Coherent
<1>19. CASE PassWriteback
  BY <1>19, <1>t, SessionAssumption DEF PassWriteback, SavedRow, device, Disks, Apps, Auths, Renewals,
     Passes, Reads, Histories, ApartInv, Starting, Coherent
<1>20. CASE PassEnd
  BY <1>20, <1>t, SessionAssumption DEF PassEnd, Idle, device, work, Disks, Apps, Auths, Renewals,
     Passes, Reads, Histories, ApartInv, Starting, Coherent
<1>21. CASE ReadSend
  BY <1>21, <1>t, SessionAssumption DEF ReadSend, NoRead, device, work, Disks, Apps, Auths, Renewals,
     Passes, Reads, Histories, ApartInv, Starting, Coherent
<1>22. CASE ReadUnauthorized
  BY <1>22, <1>t, SessionAssumption DEF ReadUnauthorized, JoinRenewal, NoRead, NoRenewal, PassResumes,
     ReadResumes, device, work, Disks, Apps, Auths, Renewals, Passes, Reads, Histories, ApartInv,
     Starting, Coherent
<1>23. CASE ReadCached
  BY <1>23, <1>t, SessionAssumption DEF ReadCached, NoRead, device, Disks, Apps, Auths, Renewals,
     Passes, Reads, Histories, ApartInv, Starting, Coherent
<1>24. CASE (\E u \in Users : LoginViaRelay(u))
  BY <1>24, LoginScreen DEF LoginViaRelay, Starting
<1>25. CASE LogoutTokens
  BY <1>25, <1>t, MainUser, SessionAssumption DEF LogoutTokens, NoAuth, work, Disks, Apps, Auths,
     Renewals, Passes, Reads, Histories, ApartInv, Starting, Coherent
<1>26. CASE ReadStart
  BY <1>26, <1>t, MainUser, SessionAssumption DEF ReadStart, NoRead, Spend, device, work, Disks, Apps,
     Auths, Renewals, Passes, Reads, Histories, ApartInv, Starting, Coherent
<1>27. CASE RenewLost
  BY <1>27, <1>t, SessionAssumption DEF RenewLost, NoRead, NoRenewal, PassResumes, ReadResumes, Settle,
     device, work, Disks, Apps, Auths, Renewals, Passes, Reads, Histories, ApartInv, Starting, Coherent
<1>28. CASE Crash
  BY <1>28, <1>t, SessionAssumption DEF Crash, Idle, NoAuth, NoRead, NoRenewal, Disks, Apps, Auths,
     Renewals, Passes, Reads, Histories, ApartInv, Starting, Coherent
<1>o. CASE ~(Boot \/ EvaluateGates \/ EvaluateProbe \/ Mount \/ Unmount \/ PersistTokens \/
  PersistUser \/ LogoutUser \/ Renew \/ RenewFails \/ SaveAccess \/ SaveRefresh \/ SessionExpired \/
  PassLoad \/ SendRow \/ ResendRow \/ Unauthorized \/ RowDone \/ PassWriteback \/ PassEnd \/
  ReadSend \/ ReadUnauthorized \/ ReadCached \/ (\E u \in Users : LoginViaRelay(u)) \/ LogoutTokens
  \/ ReadStart \/ RenewLost \/ Crash)
  <2>0. (app'.ready <=> app.ready) /\ (app'.mounted <=> app.mounted)
    BY <1>o, Frame
  <2>1. /\ timer' = timer \/ ~timer'
        /\ disk'.access = disk.access /\ disk'.refresh = disk.refresh /\ disk'.user = disk.user
        /\ renewal' = renewal /\ auth' = auth /\ read' = read
    BY <1>o, Frame
  <2> SUFFICES ASSUME ~app'.ready
               PROVE  /\ ~app'.mounted /\ ~timer' /\ auth'.op = "idle"
                      /\ pass'.phase = "idle" /\ read'.phase = "idle" /\ renewal'.phase = "idle"
                      /\ Coherent'
    BY DEF Starting
  <2>2. ~app.ready
    BY <2>0
  <2>3. /\ ~app.mounted /\ ~timer /\ auth.op = "idle" /\ pass.phase = "idle" /\ read.phase = "idle"
        /\ renewal.phase = "idle" /\ Coherent
    BY <2>2 DEF ApartInv, Starting
  <2>4. pass'.phase = pass.phase
    <3>1. CASE AnswerLost
      BY <3>1, <2>3 DEF AnswerLost
    <3>2. CASE ~AnswerLost
      BY <3>2, <2>2, <2>3, <1>o, IdleUntilReady, MainUser
    <3> QED
      BY <3>1, <3>2
  <2>5. Coherent'
    BY <2>1, <2>3, <1>k, <1>g DEF Coherent
  <2>6. ~app'.mounted
    BY <2>0, <2>3
  <2>7. ~timer'
    BY <2>1, <2>3
  <2> QED
    BY <2>1, <2>3, <2>4, <2>5, <2>6, <2>7
<1> QED
  BY <1>1, <1>2, <1>3, <1>4, <1>5, <1>6, <1>7, <1>8, <1>9, <1>10, <1>11, <1>12, <1>13, <1>14, <1>15,
    <1>16, <1>17, <1>18, <1>19, <1>20, <1>21, <1>22, <1>23, <1>24, <1>25, <1>26, <1>27, <1>28, <1>o

LEMMA HasSessionStep ==
    ASSUME Windows = {}, SessionTypes, ApartInv, HasSession, TypeOK', [Next]_vars
    PROVE  HasSession'
<1>t. /\ disk \in Disks /\ app \in Apps /\ auth \in Auths /\ renewal \in Renewals /\ pass \in Passes
      /\ read \in Reads /\ undo \subseteq Undos /\ hist \in Histories
      /\ rows \in [Rows -> [state : States, owner : Someone]] /\ cache \in [Someone -> SUBSET Users]
      /\ office \in [pairs : Seq(TokenPairs), ran : [Rows -> SUBSET Users]]
  BY DEF SessionTypes, TypeOK
<1>k. \A k \in Pairs : k # 0 => office'.pairs[k].user = office.pairs[k].user
  BY TokensKept
<1>g. /\ disk.access \in Pairs /\ disk.refresh \in Pairs /\ renewal.token \in Pairs /\ renewal.pair \in Pairs
      /\ auth.pair \in Pairs
  BY <1>t DEF Disks, Renewals, Auths
<1>f. Filled
  BY DEF SessionTypes
<1>1. CASE Boot
  BY <1>1, <1>t, SessionAssumption DEF Boot, work, Disks, Apps, Auths, Renewals, Passes, Reads,
     Histories, HasSession, ApartInv, SigningIn, Starting, Coherent, Filled
<1>2. CASE PersistTokens
  BY <1>2, <1>t, SessionAssumption DEF PersistTokens, work, Disks, Apps, Auths, Renewals, Passes, Reads,
     Histories, HasSession, ApartInv, SigningIn, Starting, Coherent, Filled
<1>3. CASE PersistUser
  <2>1. disk'.refresh = disk.refresh
    BY <1>3, <1>t DEF PersistUser, Disks
  <2> QED
    BY <1>3, <2>1, <1>f DEF PersistUser, ApartInv, SigningIn, Filled, HasSession
<1>4. CASE LogoutUser
  BY <1>4, <1>t, SessionAssumption DEF LogoutUser, NoAuth, work, Disks, Apps, Auths, Renewals, Passes,
     Reads, Histories, HasSession, ApartInv, SigningIn, Starting, Coherent, Filled
<1>5. CASE Renew
  BY <1>5, <1>t, SessionAssumption DEF Renew, device, work, Disks, Apps, Auths, Renewals, Passes, Reads,
     Histories, HasSession, ApartInv, SigningIn, Starting, Coherent, Filled
<1>6. CASE RenewFails
  BY <1>6, <1>t, SessionAssumption DEF RenewFails, NoRead, NoRenewal, PassResumes, ReadResumes, Settle,
     device, work, Disks, Apps, Auths, Renewals, Passes, Reads, Histories, HasSession, ApartInv,
     SigningIn, Starting, Coherent, Filled
<1>7. CASE SaveAccess
  BY <1>7, <1>t, SessionAssumption DEF SaveAccess, work, Disks, Apps, Auths, Renewals, Passes, Reads,
     Histories, HasSession, ApartInv, SigningIn, Starting, Coherent, Filled
<1>8. CASE SaveRefresh
  <2>1. disk'.refresh = renewal.pair
    BY <1>8, <1>t DEF SaveRefresh, Disks
  <2> QED
    BY <1>8, <2>1, <1>f DEF SaveRefresh, Filled, HasSession
<1>9. CASE SessionExpired
  BY <1>9, <1>t, SessionAssumption DEF SessionExpired, NoRead, NoRenewal, PassResumes, ReadResumes,
     Settle, work, Disks, Apps, Auths, Renewals, Passes, Reads, Histories, HasSession, ApartInv,
     SigningIn, Starting, Coherent, Filled
<1>10. CASE Unauthorized
  BY <1>10, <1>t, SessionAssumption DEF Unauthorized, JoinRenewal, NoRead, NoRenewal, PassResumes,
     ReadResumes, device, work, Disks, Apps, Auths, Renewals, Passes, Reads, Histories, HasSession,
     ApartInv, SigningIn, Starting, Coherent, Filled
<1>11. CASE ReadUnauthorized
  BY <1>11, <1>t, SessionAssumption DEF ReadUnauthorized, JoinRenewal, NoRead, NoRenewal, PassResumes,
     ReadResumes, device, work, Disks, Apps, Auths, Renewals, Passes, Reads, Histories, HasSession,
     ApartInv, SigningIn, Starting, Coherent, Filled
<1>12. CASE (\E u \in Users : LoginViaRelay(u))
  BY <1>12, <1>t, SessionAssumption DEF LoginViaRelay, Spend, work, Disks, Apps, Auths, Renewals,
     Passes, Reads, Histories, HasSession, ApartInv, SigningIn, Starting, Coherent, Filled
<1>13. CASE LogoutTokens
  BY <1>13, <1>t, MainUser, SessionAssumption DEF LogoutTokens, NoAuth, work, Disks, Apps, Auths,
     Renewals, Passes, Reads, Histories, HasSession, ApartInv, SigningIn, Starting, Coherent, Filled
<1>14. CASE RenewLost
  BY <1>14, <1>t, SessionAssumption DEF RenewLost, NoRead, NoRenewal, PassResumes, ReadResumes, Settle,
     device, work, Disks, Apps, Auths, Renewals, Passes, Reads, Histories, HasSession, ApartInv,
     SigningIn, Starting, Coherent, Filled
<1>15. CASE Crash
  BY <1>15, <1>t, SessionAssumption DEF Crash, Idle, NoAuth, NoRead, NoRenewal, Disks, Apps, Auths,
     Renewals, Passes, Reads, Histories, HasSession, ApartInv, SigningIn, Starting, Coherent, Filled
<1>o. CASE ~(Boot \/ PersistTokens \/ PersistUser \/ LogoutUser \/ Renew \/ RenewFails \/ SaveAccess
  \/ SaveRefresh \/ SessionExpired \/ Unauthorized \/ ReadUnauthorized \/ (\E u \in Users :
  LoginViaRelay(u)) \/ LogoutTokens \/ RenewLost \/ Crash)
  BY <1>o, Frame, <1>t DEF HasSession, ApartInv, SigningIn, Starting, Coherent, Filled
<1> QED
  BY <1>1, <1>2, <1>3, <1>4, <1>5, <1>6, <1>7, <1>8, <1>9, <1>10, <1>11, <1>12, <1>13, <1>14, <1>15,
    <1>o

LEMMA ReuseStep ==
    ASSUME SessionTypes, ReuseInv, TypeOK', [Next]_vars
    PROVE  ReuseInv'
<1>t. /\ disk \in Disks /\ app \in Apps /\ auth \in Auths /\ renewal \in Renewals /\ pass \in Passes
      /\ read \in Reads /\ undo \subseteq Undos /\ hist \in Histories
      /\ rows \in [Rows -> [state : States, owner : Someone]] /\ cache \in [Someone -> SUBSET Users]
      /\ office \in [pairs : Seq(TokenPairs), ran : [Rows -> SUBSET Users]]
  BY DEF SessionTypes, TypeOK
<1>k. \A k \in Pairs : k # 0 => office'.pairs[k].user = office.pairs[k].user
  BY TokensKept
<1>g. /\ disk.access \in Pairs /\ disk.refresh \in Pairs /\ renewal.token \in Pairs /\ renewal.pair \in Pairs
      /\ auth.pair \in Pairs
  BY <1>t DEF Disks, Renewals, Auths
<1>f. Filled
  BY DEF SessionTypes
<1>z. \A k \in Pairs : k # 0 => k \in 1..Len(office.pairs)
  BY TokenTyped DEF SessionTypes
<1>1. CASE PersistTokens
  BY <1>1, <1>t, SessionAssumption DEF PersistTokens, work, Disks, Apps, Auths, Renewals, Passes, Reads,
     Histories, ReuseInv, Unshown, Filled, Pairs
<1>2. CASE PersistUser
  BY <1>2, <1>t, SessionAssumption DEF PersistUser, NoAuth, RunSync, work, Disks, Apps, Auths, Renewals,
     Passes, Reads, Histories, ReuseInv, Unshown, Filled, Pairs
<1>3. CASE LogoutUser
  BY <1>3, <1>t, SessionAssumption DEF LogoutUser, NoAuth, work, Disks, Apps, Auths, Renewals, Passes,
     Reads, Histories, ReuseInv, Unshown, Filled, Pairs
<1>4. CASE Renew
  <2>1. disk' = disk /\ auth' = auth
    BY <1>4 DEF Renew, device
  <2>2. renewal.phase = "asked"
    BY <1>4 DEF Renew
  <2>3. CASE hist.fault
    BY <1>4, <2>3, <1>t DEF Renew, Histories, ReuseInv
  <2>4. CASE ~hist.fault
    <3>1. ~office.pairs[renewal.token].revoked
      BY <2>2, <2>4 DEF ReuseInv, Unshown
    <3>2. CASE office' = office /\ hist' = hist /\ renewal'.phase = "clear"
      BY <1>4, <2>1, <2>2, <3>2, RenewCases DEF ReuseInv, Unshown
    <3>3. CASE /\ renewal'.phase = "save" /\ renewal'.pair = Len(office.pairs) + 1 /\ hist' = hist
               /\ ~office'.pairs[Len(office.pairs) + 1].revoked
               /\ \A k \in 1..Len(office.pairs) \ {renewal.token} : office'.pairs[k].revoked = office.pairs[k].revoked
      <4>1. renewal'.token = renewal.token /\ renewal.token \in 1..Len(office.pairs) /\
            Len(office.pairs) \in Nat
        BY <1>4, RenewCases
      <4>2. disk.refresh # 0 /\ disk.refresh # renewal.token => ~office'.pairs[disk.refresh].revoked
        BY <1>g, <1>z, <2>2, <2>4, <3>3 DEF ReuseInv, Unshown
      <4>3. auth.op = "tokens" => auth.pair \in 1..Len(office.pairs) /\
            ~office'.pairs[auth.pair].revoked
                                 /\ auth.pair \notin {disk.refresh, renewal.token}
        BY <1>g, <1>z, <1>f, <2>4, <3>3 DEF ReuseInv, Unshown, Filled
      <4>4. renewal'.pair \notin 1..Len(office.pairs)
        BY <3>3, <4>1
      <4> QED
        BY <2>1, <2>4, <3>3, <4>1, <4>2, <4>3, <4>4 DEF ReuseInv, Unshown
    <3> QED
      BY <1>4, <3>1, <3>2, <3>3, RenewCases
  <2> QED
    BY <2>3, <2>4
<1>5. CASE RenewFails
  <2>1. /\ auth' = auth /\ office' = office /\ renewal.phase # "save"
        /\ hist'.fault = hist.fault /\ hist'.reused = hist.reused
        /\ renewal'.phase = "idle" /\ renewal'.token = 0 /\ renewal'.pair = 0
        /\ disk'.refresh \in {disk.refresh, 0}
    BY <1>5, SettleCases, <1>t DEF RenewFails, device, Histories, Disks
  <2> QED
    BY <2>1, <1>f DEF ReuseInv, Unshown, Filled
<1>6. CASE SaveAccess
  BY <1>6, <1>t, SessionAssumption DEF SaveAccess, work, Disks, Apps, Auths, Renewals, Passes, Reads,
     Histories, ReuseInv, Unshown, Filled, Pairs
<1>7. CASE SaveRefresh
  <2>1. /\ auth' = auth /\ office' = office /\ hist' = hist /\ renewal.phase = "save"
        /\ renewal'.phase = "idle" /\ renewal'.token = 0 /\ renewal'.pair = 0
        /\ disk'.refresh = renewal.pair
    BY <1>7, SettleCases, <1>t DEF SaveRefresh, Disks
  <2> QED
    BY <2>1, <1>f DEF ReuseInv, Unshown, Filled
<1>8. CASE SessionExpired
  <2>1. /\ auth' = auth /\ office' = office /\ renewal.phase # "save"
        /\ hist'.fault = hist.fault /\ hist'.reused = hist.reused
        /\ renewal'.phase = "idle" /\ renewal'.token = 0 /\ renewal'.pair = 0
        /\ disk'.refresh \in {disk.refresh, 0}
    BY <1>8, SettleCases, <1>t DEF SessionExpired, Histories, Disks
  <2> QED
    BY <2>1, <1>f DEF ReuseInv, Unshown, Filled
<1>9. CASE Unauthorized
  <2>1. disk' = disk /\ app' = app /\ auth' = auth /\ hist' = hist /\ office' = office
    BY <1>9 DEF Unauthorized, device
  <2>2. JoinRenewal("pass")
    BY <1>9 DEF Unauthorized
  <2> QED
    BY <2>1, <2>2, JoinCases, <1>f DEF ReuseInv, Unshown, Filled
<1>10. CASE ReadUnauthorized
  <2>1. disk' = disk /\ app' = app /\ auth' = auth /\ hist' = hist /\ office' = office
    BY <1>10 DEF ReadUnauthorized, device
  <2>2. JoinRenewal("read")
    BY <1>10 DEF ReadUnauthorized
  <2> QED
    BY <2>1, <2>2, JoinCases, <1>f DEF ReuseInv, Unshown, Filled
<1>11. CASE (\E u \in Users : LoginViaRelay(u))
  <2> PICK u \in Users : LoginViaRelay(u)
    BY <1>11
  <2>1. disk' = disk /\ renewal' = renewal /\ hist'.fault = hist.fault /\ hist'.reused = hist.reused
    BY <1>t DEF LoginViaRelay, Spend, Histories
  <2>2. auth'.op = "tokens" /\ auth'.pair = Len(office.pairs) + 1 /\ Len(office.pairs) \in Nat
        /\ ~office'.pairs[Len(office.pairs) + 1].revoked
    BY LoginCases
  <2>3. \A k \in Pairs : k # 0 => office'.pairs[k].revoked = office.pairs[k].revoked
    BY <1>z, LoginCases
  <2>4. \A k \in Pairs : k # Len(office.pairs) + 1
    BY <2>2 DEF Pairs
  <2> QED
    BY <2>1, <2>2, <2>3, <2>4, <1>g, <1>f DEF ReuseInv, Unshown, Filled
<1>12. CASE LogoutTokens
  BY <1>12, <1>t, MainUser, SessionAssumption DEF LogoutTokens, NoAuth, work, Disks, Apps, Auths,
     Renewals, Passes, Reads, Histories, ReuseInv, Unshown, Filled, Pairs
<1>13. CASE AnswerLost
  BY <1>13, <1>t, SessionAssumption DEF AnswerLost, device, work, Disks, Apps, Auths, Renewals, Passes,
     Reads, Histories, ReuseInv, Unshown, Filled, Pairs
<1>14. CASE RenewLost
  BY <1>14, <1>t, SessionAssumption DEF RenewLost, NoRead, NoRenewal, PassResumes, ReadResumes, Settle,
     device, work, Disks, Apps, Auths, Renewals, Passes, Reads, Histories, ReuseInv, Unshown, Filled,
     Pairs
<1>15. CASE Crash
  BY <1>15, <1>t, SessionAssumption DEF Crash, Idle, NoAuth, NoRead, NoRenewal, Disks, Apps, Auths,
     Renewals, Passes, Reads, Histories, ReuseInv, Unshown, Filled, Pairs
<1>o. CASE ~(PersistTokens \/ PersistUser \/ LogoutUser \/ Renew \/ RenewFails \/ SaveAccess \/
  SaveRefresh \/ SessionExpired \/ Unauthorized \/ ReadUnauthorized \/ (\E u \in Users :
  LoginViaRelay(u)) \/ LogoutTokens \/ AnswerLost \/ RenewLost \/ Crash)
  <2>1. /\ hist'.fault = hist.fault /\ hist'.reused = hist.reused /\ renewal' = renewal /\ auth' = auth
        /\ disk'.access = disk.access /\ disk'.refresh = disk.refresh
    BY <1>o, Frame
  <2>2. \A k \in Pairs : k # 0 => office'.pairs[k].revoked = office.pairs[k].revoked
    BY <1>o, <1>z, Frame, AgingCases
  <2> QED
    BY <2>1, <2>2, <1>g, <1>f DEF ReuseInv, Unshown, Filled
<1> QED
  BY <1>1, <1>2, <1>3, <1>4, <1>5, <1>6, <1>7, <1>8, <1>9, <1>10, <1>11, <1>12, <1>13, <1>14, <1>15,
    <1>o

-----------------------------------------------------------------------------
(* Theorems *)

(* The session keeps values of its types, and every token it stores was issued by Office. *)
THEOREM TypeCorrect == Spec => []TypeOK
<1>1. Spec => []SessionTypes
  BY SessionInit, SessionStep, PTL DEF Spec
<1>2. SessionTypes => TypeOK
  BY DEF SessionTypes
<1> QED
  BY <1>1, <1>2, PTL

LEMMA Sessions == Spec => []SessionTypes
BY SessionInit, SessionStep, PTL DEF Spec

LEMMA KeptAlways == Spec => []KeptInv
<1>1. Init => KeptInv
  BY DEF Init, KeptInv, OwnerKept, NotYetQueued, Present, SyncedRan, UndoKeeps, Idle
<1>2. SessionTypes /\ KeptInv /\ [Next]_vars => KeptInv'
  <2> SUFFICES ASSUME SessionTypes, KeptInv, [Next]_vars PROVE KeptInv'
    OBVIOUS
  <2>1. TypeOK'
    BY TypeStep
  <2> QED
    BY <2>1, OwnerKeptStep, NotYetQueuedStep, PresentStep, SyncedRanStep, UndoKeepsStep DEF KeptInv
<1> QED
  BY <1>1, <1>2, Sessions, PTL DEF Spec

(* "Pending offline work is never dropped", whatever races, crashes, sign-outs, unpairings and
   lost answers there are: the queue of a rep holds every row he did not remove, in his own
   scope, and a row counts as synced only when Office ran it. *)
THEOREM WorkIsKept == Spec => []WorkKept
<1>1. KeptInv => WorkKept
  BY DEF KeptInv, OwnerKept, Present, SyncedRan, WorkKept
<1> QED
  BY <1>1, KeptAlways, PTL

LEMMA ApartAlways == ASSUME Windows = {} PROVE Spec => []ApartInv
<1>1. Init => ApartInv
  BY SessionAssumption DEF Init, ApartInv, RanAsOwner, CachedAsOwner, SessionOwned, PassOwned, Resting,
     SigningIn, Starting, Coherent, NoRead, NoAuth, NoRenewal, Idle
<1>2. SessionTypes /\ KeptInv /\ ApartInv /\ [Next]_vars => ApartInv'
  <2> SUFFICES ASSUME SessionTypes, KeptInv, ApartInv, [Next]_vars PROVE ApartInv'
    OBVIOUS
  <2>1. TypeOK'
    BY TypeStep
  <2> QED
    BY <2>1, RanAsOwnerStep, CachedAsOwnerStep, SessionOwnedStep, PassOwnedStep, RestingStep,
       SigningInStep, StartingStep DEF ApartInv
<1> QED
  BY <1>1, <1>2, Sessions, KeptAlways, PTL DEF Spec

(* Data isolation between the reps of one device (scope.js, storage.js), as long as nobody signs
   in while a pass, a read or a renewal of the rep before still runs, and the app is not killed
   while USER_KEY and the tokens disagree: Office runs a row as the rep who queued it, and a
   rep's cache holds only what was read as that rep. *)
THEOREM RepsStayApart == ASSUME Windows = {} PROVE Spec => []RepsKeptApart
<1>1. ApartInv => RepsKeptApart
  BY DEF ApartInv, RanAsOwner, CachedAsOwner, RepsKeptApart
<1> QED
  BY <1>1, ApartAlways, PTL

(* A rep who is shown the field screens has a refresh token, under the same condition: an app that
   lost its tokens returns to sign-in (auth.js, the session-expired handler). *)
THEOREM SignedInCanRenew == ASSUME Windows = {} PROVE Spec => []SignedInHasSession
<1>1. Init => HasSession
  BY DEF Init, HasSession
<1>2. SessionTypes /\ ApartInv /\ HasSession /\ [Next]_vars => HasSession'
  <2> SUFFICES ASSUME SessionTypes, ApartInv, HasSession, [Next]_vars PROVE HasSession'
    OBVIOUS
  <2>1. TypeOK'
    BY TypeStep
  <2> QED
    BY <2>1, HasSessionStep
<1>3. HasSession => SignedInHasSession
  BY MainUser DEF HasSession, SignedInHasSession
<1> QED
  BY <1>1, <1>2, <1>3, Sessions, ApartAlways, PTL DEF Spec

(* The shared refresh promise (api.js) does what it is for, races included: unless an answer was
   lost or the app was killed, no call ever shows Office a rotated refresh token, so Office's
   reuse detection never revokes the session of a device on which nothing was lost. *)
THEOREM ReuseMeansFault == Spec => []NoFalseReuse
<1>1. Init => ReuseInv
  BY DEF Init, ReuseInv, NoAuth, NoRenewal
<1>2. SessionTypes /\ ReuseInv /\ [Next]_vars => ReuseInv'
  <2> SUFFICES ASSUME SessionTypes, ReuseInv, [Next]_vars PROVE ReuseInv'
    OBVIOUS
  <2>1. TypeOK'
    BY TypeStep
  <2> QED
    BY <2>1, ReuseStep
<1>3. ReuseInv => NoFalseReuse
  BY DEF ReuseInv, NoFalseReuse
<1> QED
  BY <1>1, <1>2, <1>3, Sessions, PTL DEF Spec

=============================================================================
