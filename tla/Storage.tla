------------------------------- MODULE Storage -------------------------------
(***************************************************************************)
(* The storage of one Project and the quota policies that limit it:        *)
(* policies created by administrators for intervals of time, uploads that  *)
(* reserve capacity, and Assets that use it.  An initialization or a retry *)
(* takes the time, waits for a staging file, and is admitted afterwards by *)
(* the policies in force at the time it took.  The bytes of an upload and  *)
(* the failures of its completion are modelled elsewhere; the Project      *)
(* stays active, and the owner is the one user.                            *)
(***************************************************************************)
EXTENDS Integers, FiniteSets, FiniteSetsExt

CONSTANTS
  Keys,         \* idempotency keys of initializations
  SizeOf,       \* the declared size of the request each key is used for
  Calls,        \* requests that may be under way at once
  Candidates,   \* policies that administrators may create
  Baseline,     \* limits of the environment
  NoLimit,      \* of a key that a policy does not name
  NoKey,
  MaxAssets,    \* bound: Assets
  MaxNow        \* bound: the clock

Limits == {"asset", "project"}

ASSUME StorageAssumption ==
  /\ \A key \in Keys : SizeOf[key] \in Nat \ {0}
  /\ \A limit \in Limits : Baseline[limit] \in Nat
  /\ NoKey \notin Keys /\ MaxAssets \in Nat /\ MaxNow \in Nat
  /\ \A p \in Candidates :
       /\ p.scope \in {"system", "user"}
       /\ p.from \in Nat /\ p.until \in Nat /\ p.from < p.until
       /\ \A limit \in Limits : p[limit] # NoLimit => p[limit] \in Nat

VARIABLES
  now,
  policies,   \* rows of quota_policies, which are append-only
  asset,      \* Assets with their uploads and reservations
  record,     \* what each completed key has made, 0 before
  call,       \* the requests under way
  highest     \* history: the highest limit that was in force up to now

vars == <<now, policies, asset, record, call, highest>>

-----------------------------------------------------------------------------
Assets == 1..MaxAssets

NoAsset == [key |-> NoKey, size |-> 0, ingestion |-> "none", deleted |-> FALSE,
            bytes |-> 0, upload |-> "none", reserved |-> FALSE]
Idle == [op |-> "none", key |-> NoKey, asset |-> 0, at |-> 0, fresh |-> FALSE]

Exists(a) == asset[a].ingestion # "none"

-----------------------------------------------------------------------------
(* DatabaseQuotaPolicyResolver *)

InForce(rows, scope, at) ==
  {p \in rows : p.scope = scope /\ p.from <= at /\ at < p.until}

Latest(rows) == CHOOSE p \in rows : \A q \in rows : q.from <= p.from
Names(rows, limit) == rows # {} /\ Latest(rows)[limit] # NoLimit

Resolved(rows, limit, at) ==
  LET user == InForce(rows, "user", at)
      system == InForce(rows, "system", at)
  IN IF Names(user, limit) THEN Latest(user)[limit]
     ELSE IF Names(system, limit) THEN Latest(system)[limit]
     ELSE Baseline[limit]

Rises ==
  highest' = Max({highest}
                 \cup {Resolved(policies', "project", t) : t \in 0..now'})

(* QuotaPolicyService.create, and the trigger that guards the table; its    *)
(* scope_id is NULL for the system.                                         *)
SameScopeAsEqual(p, q) == p.scope = q.scope /\ p.scope # "system"
SameScope(p, q) == p.scope = q.scope

Overlaps(p, q) == SameScope(p, q) /\ p.until > q.from /\ q.until > p.from

CreatePolicy(row) ==
  /\ \A p \in policies : ~Overlaps(p, row)
  /\ policies' = policies \cup {row}
  /\ UNCHANGED <<now, asset, record, call>>
  /\ Rises

-----------------------------------------------------------------------------
(* What the storage limit is compared with: Assets in the trash count, for  *)
(* they may be restored, and a retried Asset counts with its old bytes too. *)

CountedOnScreen ==
  MapThenSumSet(LAMBDA a : (IF asset[a].deleted THEN 0 ELSE asset[a].bytes)
                           + (IF asset[a].reserved THEN asset[a].size ELSE 0),
                Assets)
Counted ==
  MapThenSumSet(LAMBDA a : asset[a].bytes
                           + (IF asset[a].reserved THEN asset[a].size ELSE 0),
                Assets)

SizeFits(size, at) == size <= Resolved(policies, "asset", at)
Fits(size, at) == Counted + size <= Resolved(policies, "project", at)

(* A new version of an Asset's row; calls that expect another one are late. *)
Changes(a, next) ==
  /\ asset' = [asset EXCEPT ![a] = next]
  /\ call' = [c \in Calls |->
                IF call[c].asset = a THEN [call[c] EXCEPT !.fresh = FALSE]
                ELSE call[c]]

-----------------------------------------------------------------------------
(* initializeUpload and retryIngestion, up to the staging file *)

Initialize(c, key) ==
  /\ call[c].op = "none" /\ record[key] = 0
  /\ call' = [call EXCEPT ![c] = [Idle EXCEPT !.op = "initialize",
                                              !.key = key, !.at = now]]
  /\ UNCHANGED <<now, policies, asset, record, highest>>

Failed(a) == asset[a].ingestion = "failed" /\ ~asset[a].deleted

(* A retry of an Asset that has not failed is refused at its version.       *)
Retry(c, a) ==
  /\ call[c].op = "none" /\ Failed(a)
  /\ call' = [call EXCEPT ![c] = [Idle EXCEPT !.op = "retry", !.asset = a,
                                              !.at = now, !.fresh = TRUE]]
  /\ UNCHANGED <<now, policies, asset, record, highest>>

Opened(size, from) ==
  [from EXCEPT !.size = size, !.ingestion = "pending", !.upload = "open",
               !.reserved = TRUE]

BegunBefore(key) == TRUE
Begun(key) == record[key] = 0

(* The transaction.  The answer of a repeated request is the first one.     *)
AdmitInitialize(c) ==
  /\ call[c].op = "initialize"
  /\ LET key == call[c].key
         size == SizeOf[key]
         free == {a \in Assets : ~Exists(a)}
     IN IF Begun(key) /\ SizeFits(size, call[c].at) /\ Fits(size, call[c].at)
        THEN /\ free # {}
             /\ asset' = [asset EXCEPT ![Min(free)] =
                            Opened(size, [NoAsset EXCEPT !.key = key])]
             /\ record' = [record EXCEPT ![key] = Min(free)]
        ELSE UNCHANGED <<asset, record>>
  /\ call' = [call EXCEPT ![c] = Idle]
  /\ UNCHANGED <<now, policies, highest>>

Retryable(c) == call[c].fresh /\ Failed(call[c].asset)

AdmitRetry(c) ==
  /\ call[c].op = "retry"
  /\ LET a == call[c].asset
         size == asset[a].size
     IN IF /\ Retryable(c)
           /\ SizeFits(size, call[c].at) /\ Fits(size, call[c].at)
        THEN /\ asset' = [asset EXCEPT ![a] = Opened(size, asset[a])]
             /\ call' = [d \in Calls |->
                           IF d = c THEN Idle
                           ELSE [call[d] EXCEPT
                                   !.fresh = @ /\ call[d].asset # a]]
        ELSE /\ call' = [call EXCEPT ![c] = Idle]
             /\ UNCHANGED asset
  /\ UNCHANGED <<now, policies, record, highest>>

(* The staging file cannot be created, or the process ends. *)
GiveUp(c) ==
  /\ call[c].op # "none"
  /\ call' = [call EXCEPT ![c] = Idle]
  /\ UNCHANGED <<now, policies, asset, record, highest>>

-----------------------------------------------------------------------------
(* The life of an upload and its Asset *)

Fixed == UNCHANGED <<now, policies, record, highest>>

Verify(a) ==
  /\ asset[a].upload = "open"
  /\ asset' = [asset EXCEPT ![a].upload = "verifying"]
  /\ Fixed /\ UNCHANGED call

Reopen(a) ==
  /\ asset[a].upload = "verifying"
  /\ asset' = [asset EXCEPT ![a].upload = "open"]
  /\ Fixed /\ UNCHANGED call

CommitUpload(a) ==
  /\ asset[a].upload = "verifying" /\ asset[a].reserved
  /\ asset[a].ingestion = "pending" /\ ~asset[a].deleted
  /\ Changes(a, [asset[a] EXCEPT !.upload = "completed",
                                 !.ingestion = "processing",
                                 !.bytes = asset[a].size,
                                 !.reserved = FALSE])
  /\ Fixed

RejectUpload(a) ==
  /\ asset[a].upload \in {"open", "verifying"}
  /\ Changes(a, [asset[a] EXCEPT !.upload = "rejected", !.ingestion = "failed",
                                 !.reserved = FALSE])
  /\ Fixed

(* An upload that is verifying goes on without its reservation, and cannot  *)
(* be committed.                                                            *)
AbortUpload(a) ==
  /\ asset[a].upload \notin {"none", "completed"}
  /\ asset' = [asset EXCEPT
                 ![a].upload = IF @ = "open" THEN "aborted" ELSE @,
                 ![a].reserved = FALSE]
  /\ Fixed /\ UNCHANGED call

Expire(a) ==
  /\ asset[a].upload = "open"
  /\ asset' = [asset EXCEPT ![a].upload = "expired", ![a].reserved = FALSE]
  /\ Fixed /\ UNCHANGED call

Ingested(a) ==
  /\ asset[a].ingestion = "processing" /\ ~asset[a].deleted
  /\ \E result \in {"ready", "failed"} :
       Changes(a, [asset[a] EXCEPT !.ingestion = result])
  /\ Fixed

SoftDelete(a) ==
  /\ Exists(a) /\ ~asset[a].deleted
  /\ Changes(a, [asset[a] EXCEPT !.deleted = TRUE])
  /\ Fixed

Restore(a) ==
  /\ asset[a].deleted
  /\ Changes(a, [asset[a] EXCEPT !.deleted = FALSE])
  /\ Fixed

Tick ==
  /\ now < MaxNow
  /\ now' = now + 1
  /\ UNCHANGED <<policies, asset, record, call>>
  /\ Rises

-----------------------------------------------------------------------------
Init ==
  /\ now = 0 /\ policies = {}
  /\ asset = [a \in Assets |-> NoAsset]
  /\ record = [key \in Keys |-> 0]
  /\ call = [c \in Calls |-> Idle]
  /\ highest = Baseline["project"]

Handle(c) ==
  \/ \E key \in Keys : Initialize(c, key)
  \/ \E a \in Assets : Retry(c, a)
  \/ AdmitInitialize(c) \/ AdmitRetry(c) \/ GiveUp(c)

Live(a) ==
  \/ Verify(a) \/ Reopen(a) \/ CommitUpload(a) \/ RejectUpload(a)
  \/ AbortUpload(a) \/ Expire(a) \/ Ingested(a)
  \/ SoftDelete(a) \/ Restore(a)

Next ==
  \/ Tick
  \/ \E row \in Candidates : CreatePolicy(row)
  \/ \E c \in Calls : Handle(c)
  \/ \E a \in Assets : Live(a)

Spec == Init /\ [][Next]_vars

-----------------------------------------------------------------------------
(* Properties *)

(* Whatever is deleted, restored, failed and uploaded again, and however    *)
(* old the time by which a request is admitted: the bytes of a Project and  *)
(* those it has promised room for never exceed the highest limit that was   *)
(* in force for it so far.                                                  *)
StorageWithinLimits == Counted <= highest

(* At any time at most one policy of each scope is in force, so that no     *)
(* policy is shadowed: a half-open interval may begin where another ends,   *)
(* and no two policies of the system overlap, whose scope has no id.        *)
OnePolicyInForce ==
  \A scope \in {"system", "user"}, t \in 0..MaxNow :
    Cardinality(InForce(policies, scope, t)) <= 1

(* Requests that repeat one initialization reserve capacity once, also when *)
(* both have looked for the record before either made it.                   *)
OneUploadPerKey ==
  \A a, b \in Assets : Exists(a) /\ asset[a].key = asset[b].key => a = b
=============================================================================
