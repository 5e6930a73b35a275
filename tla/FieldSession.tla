---------------------------- MODULE FieldSession ----------------------------
(***************************************************************************)
(* The session of the RoofSpan Field app: pairing with an installation,    *)
(* the connection verdict that decides which screen is shown, sign-in and  *)
(* sign-out, silent renewal of the access token, and the offline queue and *)
(* the read-through cache that every signed-in rep of the device has in a  *)
(* scope of his own.                                                       *)
(*                                                                         *)
(* A token pair is the number of its issue at Office; pairs[k] says whose  *)
(* it is, its refresh family, and what became of the two tokens.  A row is *)
(* one queued mutation; its content does not matter here, only whose it    *)
(* is, its state, and as whom Office ran it.                               *)
(***************************************************************************)
EXTENDS Naturals, Sequences, FiniteSets

CONSTANTS
    Users,          \* the reps who share the device
    Nobody,         \* no user signed in
    Rows,           \* mutations the reps may queue
    MaxReads,       \* bound on screen loads
    MaxEvents,      \* bound on sign-ins, expiries, faults, link changes, removals, unpairings
    Links,          \* the conditions the connection may be in
    Windows         \* races let in: "switch" (sign-in while older calls still run),
                    \* "restart" (the app killed while USER_KEY and the tokens disagree)

AllLinks == {"ok", "offline", "down", "inactive", "revoked", "outdated"}

ASSUME SessionAssumption ==
    /\ Nobody \notin Users /\ IsFiniteSet(Users) /\ IsFiniteSet(Rows)
    /\ {MaxReads, MaxEvents} \subseteq Nat
    /\ "ok" \in Links /\ Links \subseteq AllLinks /\ Windows \subseteq {"switch", "restart"}

VARIABLES
    disk,       \* SecureStore: the pairing, the two tokens, USER_KEY
    app,        \* React state: providers ready, pairing, conn, user; MainApp mounted
    eval,       \* evaluate(): where the one running evaluation stands
    auth,       \* the login or logout in progress
    renewal,    \* _refreshPromise: the shared refresh, who awaits it
    pass,       \* runSync
    read,       \* a read-through of a screen
    rows,       \* pending_mutations
    undo,       \* More: rows removed and still restorable
    cache,      \* per scope, whose data was stored there
    office,     \* token pairs issued, and as whom each row was run
    link,       \* what the network, the relay and the Control Plane answer now
    timer,      \* _retryTimer
    hist        \* budgets, and what the properties remember

device == <<disk, app, eval, auth>>
work == <<rows, undo, cache>>
vars == <<disk, app, eval, auth, renewal, pass, read, rows, undo, cache, office, link, timer, hist>>

-----------------------------------------------------------------------------
(* Office: routers/auth.py and the bearer check of every other route *)

Issue(u, fam) == Append(office.pairs, [user |-> u, fam |-> fam, revoked |-> FALSE,
                                           expired |-> FALSE, dead |-> FALSE])
NewFamily == Len(office.pairs) + 1

(* Whom a request with access token k is run as; Nobody means 401. *)
Bearer(k) == IF k = 0 \/ office.pairs[k].expired THEN Nobody ELSE office.pairs[k].user

RevokeFamily(f) ==
    [k \in DOMAIN office.pairs |->
        [office.pairs[k] EXCEPT !.revoked = @ \/ office.pairs[k].fam = f]]

-----------------------------------------------------------------------------
(* Which screen Root shows, and what it offers *)

Blocked == {"update_required", "subscription_inactive", "device_revoked"}

Screen ==
    CASE ~app.ready -> "spinner"
      [] app.ready /\ ~app.paired -> "pairing"
      [] app.ready /\ app.paired /\ app.conn \in Blocked -> app.conn
      [] app.ready /\ app.paired /\ app.conn \notin Blocked /\ app.user # Nobody -> "main"
      [] OTHER -> IF app.conn = "connecting" THEN "spinner"
                  ELSE IF app.conn \in {"server_unavailable", "offline"} THEN "unavailable"
                  ELSE "login"

mapRelayError(code) ==
    CASE code = "inactive" -> "subscription_inactive"
      [] code = "revoked" -> "device_revoked"
      [] OTHER -> "server_unavailable"

-----------------------------------------------------------------------------
(* The queue of the active scope *)

MyRows == {r \in Rows : rows[r].owner = app.user /\ rows[r].state # "none"}

Idle == [phase |-> "idle", todo |-> {}, row |-> {}, ans |-> "none",
         got |-> [r \in Rows |-> "none"], rerun |-> FALSE]
NoRead == [phase |-> "idle", data |-> Nobody, again |-> FALSE]
NoAuth == [op |-> "idle", user |-> Nobody, pair |-> 0]
NoRenewal == [phase |-> "idle", token |-> 0, pair |-> 0, waiting |-> {}]

(* runSync: a second caller only leaves a note. *)
RunSync(p) == IF p.phase = "idle" THEN [p EXCEPT !.phase = "load"] ELSE [p EXCEPT !.rerun = TRUE]

Spend(f) == hist' = [hist EXCEPT ![f] = @ + 1]

Init ==
    /\ disk = [pairing |-> FALSE, access |-> 0, refresh |-> 0, user |-> Nobody]
    /\ app = [ready |-> FALSE, paired |-> FALSE, user |-> Nobody, conn |-> "connecting",
              mounted |-> FALSE]
    /\ eval = "idle"
    /\ auth = NoAuth
    /\ renewal = NoRenewal
    /\ pass = Idle
    /\ read = NoRead
    /\ rows = [r \in Rows |-> [state |-> "none", owner |-> Nobody]]
    /\ undo = {}
    /\ cache = [u \in Users \cup {Nobody} |-> {}]
    /\ office = [pairs |-> <<>>, ran |-> [r \in Rows |-> {}]]
    /\ link = "ok"
    /\ timer = FALSE
    /\ hist = [events |-> 0, reads |-> 0, fault |-> FALSE,
               reused |-> FALSE, hiccup |-> FALSE, removed |-> {}, restored |-> FALSE,
               owner |-> [r \in Rows |-> Nobody]]

-----------------------------------------------------------------------------
(* Start of the app, pairing and the connection verdict (App.js, pairingContext.js) *)

(* Both providers load; PairingProvider becomes ready only after its evaluation. *)
Boot ==
    /\ ~app.ready /\ eval = "idle"
    /\ app' = [app EXCEPT !.user = disk.user, !.paired = disk.pairing, !.ready = ~disk.pairing]
    /\ eval' = IF disk.pairing THEN "version" ELSE "idle"
    /\ UNCHANGED <<disk, auth, renewal, pass, read, work, office, link, timer, hist>>

(* What a scanned code may be: some text, or a payload with its protocol and age. *)
Payloads == [shape : {"text", "payload"}, protocol : {"1", "2"}, expired : BOOLEAN]
parseQrPayload(q) ==
    IF q.shape = "text" THEN "invalid"
    ELSE IF q.protocol # "1" THEN "protocol" ELSE IF q.expired THEN "expired" ELSE "ok"

(* The Control Plane's answer to a code that was accepted locally. *)
resolvePairing(q) == IF link = "offline" THEN "unreachable"
                     ELSE IF link = "revoked" THEN "not_found" ELSE "resolved"

(* pair: resolvePairing, savePairing, then the first evaluation.  The credential and the
   binding are two items, and loadPairing needs both: they are one here. *)
Pair ==
    /\ Screen = "pairing"
    /\ \E q \in Payloads : parseQrPayload(q) = "ok" /\ resolvePairing(q) = "resolved"
    /\ disk' = [disk EXCEPT !.pairing = TRUE]
    /\ app' = [app EXCEPT !.paired = TRUE]
    /\ eval' = "version"
    /\ UNCHANGED <<auth, renewal, pass, read, work, office, link, timer, hist>>

(* unpair, offered by More and by the device-revoked screen.  Tokens and user stay. *)
Unpair ==
    /\ Screen \in {"main", "device_revoked"} /\ eval = "idle" /\ auth.op = "idle"
    /\ hist.events < MaxEvents
    /\ Spend("events")
    /\ disk' = [disk EXCEPT !.pairing = FALSE]
    /\ app' = [app EXCEPT !.paired = FALSE, !.conn = "connecting"]
    /\ UNCHANGED <<eval, auth, renewal, pass, read, work, office, link, timer>>

Retry ==
    /\ Screen \in {"unavailable", "subscription_inactive"} /\ eval = "idle"
    /\ eval' = "version"
    /\ UNCHANGED <<disk, app, auth, renewal, pass, read, work, office, link, timer, hist>>

(* The end of one evaluation: at start-up it also ends the wait of the provider. *)
Verdict(c) == app' = [app EXCEPT !.conn = c, !.ready = TRUE] /\ eval' = "idle"

(* checkVersion, then NetInfo. *)
EvaluateGates ==
    /\ eval = "version"
    /\ \/ link = "outdated" /\ Verdict("update_required")
       \/ link = "offline" /\ Verdict("offline")
       \/ /\ link \notin {"outdated", "offline"}
          /\ eval' = "probe" /\ app' = [app EXCEPT !.conn = "connecting"]
    /\ UNCHANGED <<disk, auth, renewal, pass, read, work, office, link, timer, hist>>

(* openSession has an answer for every case: ready, an error frame, a closed socket or
   its own 12 s timer. *)
ProbeAnswer == IF link \in {"ok", "outdated"} THEN {"connected"} ELSE {mapRelayError(link)}

EvaluateProbe ==
    /\ eval = "probe"
    /\ \E c \in ProbeAnswer :
         /\ Verdict(c)
         /\ pass' = IF c = "connected" THEN RunSync(pass) ELSE pass
    /\ UNCHANGED <<disk, auth, renewal, read, work, office, link, timer, hist>>

(* MainApp mounts: startAutoSync runs a pass; unmounting clears the retry timer, and
   More forgets what could be undone. *)
Mount ==
    /\ Screen = "main" /\ ~app.mounted
    /\ app' = [app EXCEPT !.mounted = TRUE]
    /\ pass' = RunSync(pass)
    /\ UNCHANGED <<disk, eval, auth, renewal, read, work, office, link, timer, hist>>

Unmount ==
    /\ Screen # "main" /\ app.mounted
    /\ app' = [app EXCEPT !.mounted = FALSE]
    /\ timer' = FALSE /\ undo' = {}
    /\ UNCHANGED <<disk, eval, auth, renewal, pass, read, rows, cache, office, link, hist>>

-----------------------------------------------------------------------------
(* Sign-in and sign-out (auth.js) *)

Quiet == pass.phase = "idle" /\ read.phase = "idle" /\ renewal.phase = "idle"

(* The sign-in request through the relay is answered, or fails within its timers. *)
SignInThroughRelay == link = "ok" /\ app.paired

LoginViaRelay(u) ==
    /\ Screen = "login" /\ auth.op = "idle" /\ SignInThroughRelay
    /\ "switch" \in Windows \/ Quiet
    /\ hist.events < MaxEvents
    /\ office' = [office EXCEPT !.pairs = Issue(u, NewFamily)]
    /\ auth' = [op |-> "tokens", user |-> u, pair |-> Len(office.pairs) + 1]
    /\ Spend("events")
    /\ UNCHANGED <<disk, app, eval, renewal, pass, read, work, link, timer>>

(* _persist: the tokens, then USER_KEY with the scope, the user and a sync. *)
PersistTokens ==
    /\ auth.op = "tokens"
    /\ disk' = [disk EXCEPT !.access = auth.pair, !.refresh = auth.pair]
    /\ auth' = [auth EXCEPT !.op = "user"]
    /\ UNCHANGED <<app, eval, renewal, pass, read, work, office, link, timer, hist>>

PersistUser ==
    /\ auth.op = "user"
    /\ disk' = [disk EXCEPT !.user = auth.user]
    /\ app' = [app EXCEPT !.user = auth.user]
    /\ auth' = NoAuth
    /\ pass' = RunSync(pass) /\ timer' = FALSE
    /\ UNCHANGED <<eval, renewal, read, work, office, link, hist>>

(* logout: clearTokens, then USER_KEY, the scope and the user. *)
LogoutTokens ==
    /\ Screen = "main" /\ auth.op = "idle"
    /\ disk' = [disk EXCEPT !.access = 0, !.refresh = 0]
    /\ auth' = [NoAuth EXCEPT !.op = "logout"]
    /\ UNCHANGED <<app, eval, renewal, pass, read, work, office, link, timer, hist>>

LogoutUser ==
    /\ auth.op = "logout"
    /\ disk' = [disk EXCEPT !.user = Nobody]
    /\ app' = [app EXCEPT !.user = Nobody]
    /\ auth' = NoAuth
    /\ UNCHANGED <<eval, renewal, pass, read, work, office, link, timer, hist>>


-----------------------------------------------------------------------------
(* Silent renewal, shared by every call that met a 401 (api.js) *)

(* The answer of Office to one request: whom it ran as, "unauth" for a 401, "none" for no
   answer.  Without a pairing the direct transport asks the Control Plane, which knows
   neither the route nor the token. *)
Reply(k) == IF ~app.paired THEN "missing" ELSE IF link # "ok" THEN "none"
            ELSE IF Bearer(k) = Nobody THEN "unauth" ELSE "ran"

(* What a caller does when the renewal it waited for settled. *)
PassResumes(p, ok) == IF ok THEN [p EXCEPT !.phase = "resend"]
                      ELSE [p EXCEPT !.phase = "answered", !.ans = "refused"]
ReadResumes(d, ok) == IF ok THEN [d EXCEPT !.phase = "send", !.again = TRUE] ELSE NoRead

(* refreshAccessToken: join the running refresh or start one; without a refresh token the
   answer is false at once. *)
JoinRenewal(who) ==
    \/ /\ renewal.phase = "idle" /\ disk.refresh = 0
       /\ pass' = IF who = "pass" THEN PassResumes(pass, FALSE) ELSE pass
       /\ read' = IF who = "read" THEN ReadResumes(read, FALSE) ELSE read
       /\ UNCHANGED renewal
    \/ /\ renewal.phase # "idle" \/ disk.refresh # 0
       /\ renewal' = IF renewal.phase = "idle"
                     THEN [NoRenewal EXCEPT !.phase = "asked", !.token = disk.refresh,
                                            !.waiting = {who}]
                     ELSE [renewal EXCEPT !.waiting = @ \cup {who}]
       /\ pass' = IF who = "pass" THEN [pass EXCEPT !.phase = "await"] ELSE pass
       /\ read' = IF who = "read" THEN [read EXCEPT !.phase = "await"] ELSE read

Settle(ok) ==
    /\ renewal' = NoRenewal
    /\ pass' = IF "pass" \in renewal.waiting THEN PassResumes(pass, ok) ELSE pass
    /\ read' = IF "read" \in renewal.waiting THEN ReadResumes(read, ok) ELSE read

(* /auth/refresh: rotation within the family; a rotated token shown again revokes the
   family; an expired one is refused. *)
Renew ==
    /\ renewal.phase = "asked" /\ app.paired /\ link = "ok"
    /\ LET t == office.pairs[renewal.token]
           fresh == Append([office.pairs EXCEPT ![renewal.token].revoked = TRUE],
                           [user |-> t.user, fam |-> t.fam, revoked |-> FALSE,
                            expired |-> FALSE, dead |-> FALSE])
       IN \/ /\ ~t.revoked /\ ~t.dead
             /\ office' = [office EXCEPT !.pairs = fresh]
             /\ renewal' = [renewal EXCEPT !.phase = "save", !.pair = Len(fresh)]
             /\ UNCHANGED hist
          \/ /\ t.revoked
             /\ office' = [office EXCEPT !.pairs = RevokeFamily(t.fam)]
             /\ renewal' = [renewal EXCEPT !.phase = "clear"]
             /\ hist' = [hist EXCEPT !.reused = TRUE]
          \/ /\ ~t.revoked /\ t.dead
             /\ renewal' = [renewal EXCEPT !.phase = "clear"]
             /\ UNCHANGED <<office, hist>>
    /\ UNCHANGED <<device, pass, read, work, link, timer>>

(* The request cannot be made: "leave tokens as-is and retry later". *)
RenewFails ==
    /\ renewal.phase = "asked" /\ (~app.paired \/ link # "ok")
    /\ Settle(FALSE)
    /\ hist' = [hist EXCEPT !.hiccup = TRUE]
    /\ UNCHANGED <<device, work, office, link, timer>>

(* Office rotated the token, the answer is lost on the way back. *)
RenewLost ==
    /\ renewal.phase = "save" /\ disk.access # renewal.pair /\ hist.events < MaxEvents
    /\ Settle(FALSE)
    /\ hist' = [hist EXCEPT !.events = @ + 1, !.fault = TRUE, !.hiccup = TRUE]
    /\ UNCHANGED <<device, work, office, link, timer>>

(* saveTokens: two writes. *)
SaveAccess ==
    /\ renewal.phase = "save" /\ disk.access # renewal.pair
    /\ disk' = [disk EXCEPT !.access = renewal.pair]
    /\ UNCHANGED <<app, eval, auth, renewal, pass, read, work, office, link, timer, hist>>

SaveRefresh ==
    /\ renewal.phase = "save" /\ disk.access = renewal.pair
    /\ disk' = [disk EXCEPT !.refresh = renewal.pair]
    /\ Settle(TRUE)
    /\ UNCHANGED <<app, eval, auth, work, office, link, timer, hist>>

(* clearTokens, then the session-expired handler of AuthProvider: USER_KEY stays. *)
SessionExpired ==
    /\ renewal.phase = "clear"
    /\ disk' = [disk EXCEPT !.access = 0, !.refresh = 0]
    /\ app' = [app EXCEPT !.user = Nobody]
    /\ Settle(FALSE)
    /\ UNCHANGED <<eval, auth, work, office, link, timer, hist>>

-----------------------------------------------------------------------------
(* The sync pass (sync.js runSync, queue.js processQueue, api.js send) *)

(* loadPending: every unsynced row of the active scope. *)
LoadPending_AllScopes == {r \in Rows : rows[r].state \in {"pending", "failed"}}
LoadPending == {r \in MyRows : rows[r].state \in {"pending", "failed"}}

(* NetInfo, then the rows to send; offline work waits for the timer. *)
PassLoad ==
    /\ pass.phase = "load"
    /\ \/ /\ link = "offline"
          /\ timer' = (timer \/ LoadPending # {})
          /\ pass' = [pass EXCEPT !.phase = "end"]
       \/ /\ link # "offline"
          /\ pass' = [pass EXCEPT !.todo = LoadPending, !.phase = "send"]
          /\ UNCHANGED timer
    /\ UNCHANGED <<device, renewal, read, work, office, link, hist>>

(* _sendOnce, with the token that is stored now; Office runs a row once per key. *)
SendOnce(r) ==
    LET a == Reply(disk.access) IN
    /\ pass' = [pass EXCEPT !.phase = "answered", !.row = {r}, !.todo = @ \ {r},
                            !.ans = IF a = "unauth" /\ pass.phase = "resend" THEN "refused" ELSE a]
    /\ office' = IF a = "ran" /\ office.ran[r] = {}
                 THEN [office EXCEPT !.ran[r] = {Bearer(disk.access)}] ELSE office
    /\ UNCHANGED <<device, renewal, read, work, link, timer, hist>>

SendRow == pass.phase = "send" /\ \E r \in pass.todo : SendOnce(r)
ResendRow == pass.phase = "resend" /\ \E r \in pass.row : SendOnce(r)

(* send: on 401 renew and try once more. *)
Unauthorized_NoRetry ==
    /\ pass.phase = "answered" /\ pass.ans = "unauth"
    /\ pass' = [pass EXCEPT !.ans = "refused"]
    /\ UNCHANGED <<renewal, read>>
    /\ UNCHANGED <<device, work, office, link, timer, hist>>
Unauthorized ==
    /\ pass.phase = "answered" /\ pass.ans = "unauth"
    /\ JoinRenewal("pass")
    /\ UNCHANGED <<device, work, office, link, timer, hist>>

(* processMutation: 2xx is synced, a 4xx failed, no answer leaves the row pending. *)
StateFor(a) == CASE a = "ran" -> "synced" [] a = "none" -> "pending" [] OTHER -> "failed"

RowDone ==
    /\ pass.phase = "answered" /\ pass.ans # "unauth"
    /\ pass' = [pass EXCEPT !.phase = "send", !.row = {}, !.ans = "none",
                            !.got = [r \in Rows |-> IF r \in pass.row THEN StateFor(pass.ans) ELSE @[r]]]
    /\ UNCHANGED <<device, renewal, read, work, office, link, timer, hist>>

(* The answer is lost: Office may have run the row. *)
AnswerLost ==
    /\ pass.phase = "answered" /\ pass.ans # "none" /\ hist.events < MaxEvents
    /\ pass' = [pass EXCEPT !.ans = "none"]
    /\ hist' = [hist EXCEPT !.events = @ + 1, !.fault = TRUE]
    /\ UNCHANGED <<device, renewal, read, work, office, link, timer>>

(* saveMutationIfCurrent for every row sent; a row removed meanwhile stays removed, and
   the row keeps the scope it was queued in. *)
SavedRow_ActiveScope(r) == [state |-> pass.got[r], owner |-> app.user]
SavedRow(r) == [state |-> pass.got[r], owner |-> rows[r].owner]

PassWriteback ==
    /\ pass.phase = "send" /\ pass.todo = {}
    /\ rows' = [r \in Rows |-> IF pass.got[r] # "none" /\ rows[r].state # "none"
                               THEN SavedRow(r) ELSE rows[r]]
    /\ pass' = [pass EXCEPT !.phase = "finish", !.got = [r \in Rows |-> "none"]]
    /\ UNCHANGED <<device, renewal, read, undo, cache, office, link, timer, hist>>

(* Whether to retry is decided from the rows of the scope that is active now. *)
PassEnd ==
    /\ pass.phase \in {"finish", "end"}
    /\ timer' = IF pass.phase = "finish" THEN \E r \in MyRows : rows[r].state = "pending" ELSE timer
    /\ pass' = IF pass.rerun THEN [Idle EXCEPT !.phase = "load"] ELSE Idle
    /\ UNCHANGED <<device, renewal, read, work, office, link, hist>>

TimerFires ==
    /\ timer /\ timer' = FALSE
    /\ pass' = RunSync(pass)
    /\ UNCHANGED <<device, renewal, read, work, office, link, hist>>

-----------------------------------------------------------------------------
(* A read-through of a screen (cache.js readThrough, api.js _authedRequest) *)

ReadStart ==
    /\ Screen = "main" /\ read.phase = "idle" /\ hist.reads < MaxReads
    /\ read' = [NoRead EXCEPT !.phase = "send"]
    /\ Spend("reads")
    /\ UNCHANGED <<device, renewal, pass, work, office, link, timer>>

ReadSend ==
    /\ read.phase = "send"
    /\ LET a == Reply(disk.access) IN
       \/ /\ a = "ran"
          /\ read' = [read EXCEPT !.phase = "answered", !.data = Bearer(disk.access)]
       \/ /\ a = "unauth" /\ ~read.again
          /\ read' = [read EXCEPT !.phase = "unauth"]
       \/ /\ a \in {"none", "missing"} \/ (a = "unauth" /\ read.again)
          /\ read' = NoRead
    /\ UNCHANGED <<device, renewal, pass, work, office, link, timer, hist>>

ReadUnauthorized ==
    /\ read.phase = "unauth"
    /\ JoinRenewal("read")
    /\ UNCHANGED <<device, work, office, link, timer, hist>>

(* putCache stores under the scope that is active when the answer is there. *)
CacheScope == {app.user}

ReadCached ==
    /\ read.phase = "answered"
    /\ cache' = [u \in DOMAIN cache |-> IF u \in CacheScope THEN cache[u] \cup {read.data} ELSE cache[u]]
    /\ read' = NoRead
    /\ UNCHANGED <<device, renewal, pass, rows, undo, office, link, timer, hist>>

-----------------------------------------------------------------------------
(* The rep's work and the Sync Center (sync.js queueMutation, More.js) *)

QueueMutation(r) ==
    /\ Screen = "main" /\ auth.op = "idle" /\ hist.owner[r] = Nobody
    /\ rows' = [rows EXCEPT ![r] = [state |-> "pending", owner |-> app.user]]
    /\ hist' = [hist EXCEPT !.owner[r] = app.user]
    /\ pass' = RunSync(pass) /\ timer' = FALSE
    /\ UNCHANGED <<device, renewal, read, undo, cache, office, link>>

SyncNow ==
    /\ Screen = "main" /\ pass.phase = "idle"
    /\ pass' = RunSync(pass) /\ timer' = FALSE
    /\ UNCHANGED <<device, renewal, read, work, office, link, hist>>

DropRows(gone) ==
    /\ Screen = "main" /\ auth.op = "idle" /\ gone # {} /\ hist.events < MaxEvents
    /\ undo' = {[row |-> r, was |-> rows[r]] : r \in gone}
    /\ rows' = [r \in Rows |-> IF r \in gone THEN [rows[r] EXCEPT !.state = "none"] ELSE rows[r]]
    /\ hist' = [hist EXCEPT !.events = @ + 1, !.removed = @ \cup gone]
    /\ UNCHANGED <<device, renewal, pass, read, cache, office, link, timer>>

RemoveMutation == \E r \in LoadPending : DropRows({r})
RemoveAllStuck == DropRows(LoadPending)

(* Undo within 6 s writes the rows back exactly as they were; no sync is started. *)
RestoreMutations ==
    /\ Screen = "main" /\ undo # {}
    /\ rows' = [r \in Rows |-> IF \E e \in undo : e.row = r
                               THEN (CHOOSE e \in undo : e.row = r).was ELSE rows[r]]
    /\ hist' = [hist EXCEPT !.removed = @ \ {e.row : e \in undo}, !.restored = TRUE]
    /\ undo' = {}
    /\ UNCHANGED <<device, renewal, pass, read, cache, office, link, timer>>

UndoExpires ==
    /\ undo # {} /\ undo' = {}
    /\ UNCHANGED <<device, renewal, pass, read, rows, cache, office, link, timer, hist>>

-----------------------------------------------------------------------------
(* The world *)

(* Tokens live for minutes (access) or weeks (refresh): never while the pair is being
   renewed or the renewed pair is used for the first time. *)
Aged(k) == k # 0 /\ renewal.phase = "idle" /\ pass.phase # "resend" /\ ~read.again

AccessExpires ==
    /\ hist.events < MaxEvents /\ Aged(disk.access) /\ ~office.pairs[disk.access].expired
    /\ office' = [office EXCEPT !.pairs[disk.access].expired = TRUE]
    /\ Spend("events")
    /\ UNCHANGED <<device, renewal, pass, read, work, link, timer>>

RefreshExpires ==
    /\ hist.events < MaxEvents /\ Aged(disk.refresh) /\ ~office.pairs[disk.refresh].dead
    /\ office' = [office EXCEPT !.pairs[disk.refresh].dead = TRUE, !.pairs[disk.refresh].expired = TRUE]
    /\ Spend("events")
    /\ UNCHANGED <<device, renewal, pass, read, work, link, timer>>

(* When the device is online again the NetInfo listener of startAutoSync syncs. *)
LinkChanges ==
    /\ hist.events < MaxEvents
    /\ link' \in IF link = "ok" THEN Links \ {"ok"} ELSE {"ok"}
    /\ pass' = IF app.mounted /\ link = "offline" THEN RunSync(pass) ELSE pass
    /\ timer' = (timer /\ ~(app.mounted /\ link = "offline"))
    /\ Spend("events")
    /\ UNCHANGED <<device, renewal, read, work, office>>

(* The stored user and the stored tokens belong together: not so from the deletion of the
   tokens (by a sign-out or a session expiry, which leaves USER_KEY) to the next sign-in. *)
Coherent ==
    disk.user # Nobody =>
        /\ disk.refresh # 0
        /\ \A k \in {disk.access, disk.refresh} \ {0} : office.pairs[k].user = disk.user

Crash ==
    /\ app.ready /\ hist.events < MaxEvents
    /\ "restart" \in Windows \/ Coherent
    /\ app' = [ready |-> FALSE, paired |-> FALSE, user |-> Nobody, conn |-> "connecting",
               mounted |-> FALSE]
    /\ eval' = "idle" /\ auth' = NoAuth
    /\ renewal' = NoRenewal /\ pass' = Idle /\ read' = NoRead
    /\ undo' = {} /\ timer' = FALSE
    /\ hist' = [hist EXCEPT !.events = @ + 1, !.fault = TRUE]
    /\ UNCHANGED <<disk, rows, cache, office, link>>

-----------------------------------------------------------------------------
EvalStep == Boot \/ EvaluateGates \/ EvaluateProbe \/ Mount \/ Unmount
PairStep == Pair \/ Unpair \/ Retry
AuthStep == PersistTokens \/ PersistUser \/ LogoutUser
RenewalStep == Renew \/ RenewFails \/ SaveAccess \/ SaveRefresh \/ SessionExpired
PassStep ==
    \/ PassLoad \/ SendRow \/ ResendRow \/ Unauthorized \/ RowDone
    \/ PassWriteback \/ PassEnd
ReadStep == ReadSend \/ ReadUnauthorized \/ ReadCached

Next ==
    \/ EvalStep \/ PairStep \/ AuthStep \/ RenewalStep \/ PassStep \/ ReadStep
    \/ (\E u \in Users : LoginViaRelay(u)) \/ LogoutTokens
    \/ (\E r \in Rows : QueueMutation(r)) \/ SyncNow \/ TimerFires \/ ReadStart
    \/ RemoveMutation \/ RemoveAllStuck \/ RestoreMutations \/ UndoExpires
    \/ AccessExpires \/ RefreshExpires \/ LinkChanges
    \/ AnswerLost \/ RenewLost \/ Crash

Spec == Init /\ [][Next]_vars

(* JavaScript runs every started chain of awaits on; requests and probes have timers. *)
FairSpec ==
    Spec /\ WF_vars(EvalStep) /\ WF_vars(AuthStep) /\ WF_vars(RenewalStep) /\ WF_vars(PassStep)
         /\ WF_vars(ReadStep) /\ WF_vars(TimerFires)

-----------------------------------------------------------------------------
(* Properties *)

Pairs == 0..Len(office.pairs)
Someone == Users \cup {Nobody}
States == {"none", "pending", "failed", "synced"}

TokenPairs == [user : Users, fam : Nat, revoked : BOOLEAN, expired : BOOLEAN, dead : BOOLEAN]

Disks == [pairing : BOOLEAN, access : Pairs, refresh : Pairs, user : Someone]
Apps == [ready : BOOLEAN, paired : BOOLEAN, user : Someone, mounted : BOOLEAN,
         conn : Blocked \cup {"connecting", "connected", "server_unavailable", "offline"}]
Auths == [op : {"idle", "tokens", "user", "logout"}, user : Someone, pair : Pairs]
Renewals == [phase : {"idle", "asked", "save", "clear"}, token : Pairs, pair : Pairs,
             waiting : SUBSET {"pass", "read"}]
Passes == [phase : {"idle", "load", "send", "resend", "answered", "await", "finish", "end"},
           todo : SUBSET Rows, row : SUBSET Rows, got : [Rows -> States], rerun : BOOLEAN,
           ans : {"none", "ran", "unauth", "refused", "missing"}]
Reads == [phase : {"idle", "send", "unauth", "await", "answered"}, data : Someone, again : BOOLEAN]
Undos == [row : Rows, was : [state : States, owner : Users]]
Histories == [events : Nat, reads : Nat, fault : BOOLEAN, reused : BOOLEAN, hiccup : BOOLEAN,
              removed : SUBSET Rows, restored : BOOLEAN, owner : [Rows -> Someone]]

(* Values the session's variables range over; every stored token was issued by Office. *)
TypeOK ==
    /\ disk \in Disks /\ app \in Apps /\ auth \in Auths /\ renewal \in Renewals
    /\ pass \in Passes /\ read \in Reads /\ undo \subseteq Undos /\ hist \in Histories
    /\ rows \in [Rows -> [state : States, owner : Someone]]
    /\ cache \in [Someone -> SUBSET Users]
    /\ office \in [pairs : Seq(TokenPairs), ran : [Rows -> SUBSET Users]]
    /\ eval \in {"idle", "version", "probe"} /\ link \in Links /\ timer \in BOOLEAN

(* "Pending offline work is never dropped": through sign-outs, expiries, unpairing, crashes
   and passes that end in another session, a queued row stays in its owner's scope until
   the rep removes it, and it counts as synced only when Office ran it. *)
WorkKept ==
    \A r \in Rows : hist.owner[r] # Nobody =>
        /\ r \notin hist.removed => rows[r].state # "none" /\ rows[r].owner = hist.owner[r]
        /\ rows[r].state = "synced" => office.ran[r] # {}

(* Data isolation: Office runs a rep's queued row as that rep, and what is cached in a
   rep's scope was read as that rep (scope.js:3, storage.js:1). *)
RepsKeptApart ==
    /\ \A r \in Rows : office.ran[r] \subseteq {hist.owner[r]}
    /\ \A u \in Users : cache[u] \subseteq {u}

(* Office's reuse detection never revokes the session of a device on which nothing was
   lost: two calls that meet a 401 at once do not show the same refresh token twice. *)
NoFalseReuse == hist.reused => hist.fault

(* A rep who is shown the field screens has a session to renew: an app that lost its
   tokens returns to sign-in. *)
SignedInHasSession ==
    (Screen = "main" /\ auth.op = "idle" /\ renewal.phase # "clear")
        => disk.refresh # 0

(* With the app on its field screens and the link up, queued work is delivered: an expired
   access token is renewed on the way, and no trigger is lost between passes.  (Exceptions:
   a renewal that could not be asked for leaves the row failed with no timer, and Undo in
   the Sync Center starts no sync.) *)
WorkDelivered ==
    \A r \in Rows :
        rows[r].state \in {"pending", "failed"} ~>
            \/ rows[r].state \in {"synced", "none"}
            \/ rows[r].owner # app.user \/ Screen # "main" \/ link # "ok"
            \/ hist.hiccup \/ hist.restored
=============================================================================
