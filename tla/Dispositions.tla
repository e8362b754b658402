---------------------------- MODULE Dispositions ----------------------------
(***************************************************************************)
(* The triage feedback loop: analyst verdicts are counted per rule in time *)
(* buckets over a rolling window (rsigma-runtime/src/dispositions and      *)
(* rsigma-cli/src/daemon/dispositions.rs).                                 *)
(*                                                                         *)
(* Verdicts arrive through the API, from a polled source whose whole       *)
(* content is read again on every refresh, and from a source that pushes   *)
(* one record per message; a pruner rolls the window.  The two sources     *)
(* hand their payloads over in one watch channel, which keeps the last     *)
(* one.  A crash falls back to the last snapshot saved.                    *)
(*                                                                         *)
(* The ratio is a function of the counts; the gauges that publish it and   *)
(* the capture spool are left out.  A benign true positive counts like a   *)
(* true positive (`fp_only`).                                              *)
(***************************************************************************)
EXTENDS Integers, Sequences, FiniteSetsExt

CONSTANTS
  Rules,
  Records,       (* the verdicts analysts may give, as on the wire           *)
  FileRecords,   (* those the polled source comes to return, in order        *)
  PushRecords,   (* those the other source pushes, in order                  *)
  None,
  Window,        (* the rolling window, in ticks                             *)
  Bucket,        (* the bucket width                                         *)
  MaxSeen,       (* max_seen_ids                                             *)
  MaxCount,      (* bound: a counter of the model stops there                *)
  MaxTime,       (* bound: ticks                                             *)
  MaxSaves,      (* bound: snapshots saved                                   *)
  MaxRestarts    (* bound: crashes                                           *)

Verdict == {"fp", "tp"}

(* Disposition::from_raw: a record without rule is an incident's, and then  *)
(* has the incident's id; one without time gets the time of ingestion.      *)
ASSUME ConstantsAssumption ==
  /\ FileRecords \in Seq(Records) /\ PushRecords \in Seq(Records)
  /\ \A r \in Records :
       /\ DOMAIN r = {"rule", "id", "verdict", "ts"}
       /\ r.rule \in Rules \cup {None} /\ r.verdict \in Verdict /\ r.ts \in Nat \cup {None}
       /\ r.rule = None => r.id # None
  /\ {Window, Bucket, MaxSeen, MaxCount} \subseteq Nat \ {0}
  /\ {MaxTime, MaxSaves, MaxRestarts} \subseteq Nat

VARIABLES
  now,
  buckets,       (* per tracked rule and retained bucket, its verdicts       *)
  seen,          (* seen_order, oldest arrival first; its keys are the set   *)
  file,          (* what the polled source returns, oldest first             *)
  cached,        (* what its last fetch returned, or None                    *)
  pushed,        (* messages of the other source that were forwarded         *)
  published,     (* the payload in the watch channel, or None                *)
  worker,        (* an ingestion under way in the API and in the source task *)
  saved,         (* the store at the last save                               *)
  accepted,      (* history: the dispositions counted                        *)
  saves,
  restarts

source == <<file, cached, pushed>>
vars == <<now, buckets, seen, source, published, worker, saved, accepted, saves, restarts>>

-----------------------------------------------------------------------------
BucketOf(ts) == ts \div Bucket

(* The oldest bucket that is retained: the window may begin inside it. *)
Cutoff(at) == BucketOf(at - Window)

Stale(ts, at) == ts < at - Window

DedupKey(d) ==
  IF d.id # None THEN <<"id", d.id, d.verdict, d.rule>> ELSE <<"rt", d.rule, d.ts>>

Counts(r, bs) == IF r \in DOMAIN bs THEN bs[r] ELSE <<>>

(* The counts of a rule after one more of a verdict; without old buckets. *)
Counted(old, d, at) ==
  LET idx == BucketOf(d.ts)
      had(b, v) == IF b \in DOMAIN old THEN old[b][v] ELSE 0
      more(n) == IF n < MaxCount THEN n + 1 ELSE n
  IN  [b \in {k \in DOMAIN old \cup {idx} : k >= Cutoff(at)} |->
         [v \in Verdict |-> IF b = idx /\ v = d.verdict THEN more(had(b, v)) ELSE had(b, v)]]

(* How many entries prune_seen takes off the front: it stops at the first   *)
(* that is neither stale nor one too many.                                  *)
Popped(queue, at) ==
  Min({n \in 0..Len(queue) :
         \/ n = Len(queue)
         \/ ~Stale(queue[n + 1].ts, at) /\ Len(queue) - n <= MaxSeen})

PruneSeen(queue, at) == SubSeq(queue, Popped(queue, at) + 1, Len(queue))

(* The buckets of one rule, and of all, without the old ones. *)
Retained(counts, at) == [b \in {k \in DOMAIN counts : k >= Cutoff(at)} |-> counts[b]]

Pruned(bs, at) ==
  [r \in {q \in DOMAIN bs : \E b \in DOMAIN bs[q] : b >= Cutoff(at)} |-> Retained(bs[r], at)]

(* What s has at some places, in order. *)
At(s, places) ==
  {[n \in DOMAIN f |-> s[f[n]]] :
     f \in {g \in Surjection(1..Cardinality(places), places) :
              \A m, n \in DOMAIN g : m < n => g[m] < g[n]}}

-----------------------------------------------------------------------------
(* INGESTION.  A worker takes the time once per payload, goes through its   *)
(* records and takes the lock of the store for each disposition.            *)

Idle == [at |-> 0, todo |-> <<>>]

Busy(w) == worker[w].todo # <<>>

Ingestion(at, todo) == IF todo = <<>> THEN Idle ELSE [at |-> at, todo |-> todo]

Set(w, new) == worker' = [worker EXCEPT ![w] = new]

(* What a record may become.  An incident's becomes one disposition per     *)
(* contributing rule: any rules, and none if the incident is not open.      *)
Expand(r) ==
  LET of(rules) == {[rule |-> q, id |-> r.id, verdict |-> r.verdict,
                     ts |-> IF r.ts = None THEN now ELSE r.ts] : q \in rules}
  IN  IF r.rule = None THEN {of(rules) : rules \in SUBSET Rules} ELSE {of({r.rule})}

Begin(w, payload) ==
  \E todo \in {t \in [DOMAIN payload -> UNION {Expand(r) : r \in Range(payload)}] :
                \A i \in DOMAIN payload : t[i] \in Expand(payload[i])} :
    \E rest \in At(todo, {i \in DOMAIN todo : todo[i] # {}}) : Set(w, Ingestion(now, rest))

(* POST /api/v1/dispositions, with one record; its time is not ahead. *)
Post(r) ==
  /\ ~Busy("api")
  /\ r.ts # None => r.ts <= now
  /\ Begin("api", <<r>>)
  /\ UNCHANGED <<now, buckets, seen, source, published, saved, accepted, saves,
                 restarts>>

(* The source task: borrow_and_update, then ingest. *)
Take ==
  /\ ~Busy("source")
  /\ published # None
  /\ published' = None
  /\ Begin("source", published)
  /\ UNCHANGED <<now, buckets, seen, source, saved, accepted, saves, restarts>>

(* The dispositions left, once d is done. *)
Without(todo, d) ==
  IF Head(todo) = {d} THEN Tail(todo) ELSE [todo EXCEPT ![1] = Head(todo) \ {d}]

Remembered(d) == \E i \in DOMAIN seen : seen[i].key = DedupKey(d)

(* apply of the store, in an order of the targets that is not fixed. *)
Apply(w, d) ==
  LET at == worker[w].at
      queue == Append(seen, [key |-> DedupKey(d), ts |-> d.ts])
  IN  /\ Busy(w) /\ d \in Head(worker[w].todo)
      /\ Set(w, Ingestion(at, Without(worker[w].todo, d)))
      /\ IF Remembered(d)
         THEN UNCHANGED <<buckets, seen, accepted>>
         ELSE /\ buckets' = [q \in DOMAIN buckets \cup {d.rule} |->
                               IF q = d.rule THEN Counted(Counts(q, buckets), d, at)
                               ELSE buckets[q]]
              /\ seen' = PruneSeen(queue, at)
              /\ accepted' = accepted \cup {d}
      /\ UNCHANGED <<now, source, published, saved, saves, restarts>>

Worker(w) ==
  \E d \in UNION Range(worker[w].todo) : Apply(w, d)

-----------------------------------------------------------------------------
(* Mutant: a refresh that fetches nothing new is not passed on. *)
RefreshMutant ==
  /\ published' = IF file = cached THEN published ELSE file
  /\ cached' = file
  /\ UNCHANGED <<now, buckets, seen, file, pushed, worker, saved, accepted, saves, restarts>>

(* The scheduler polls the source and puts what it returns in the cache and *)
(* in the channel, over a payload that was not taken.                       *)
Refresh ==
  /\ published' = file
  /\ cached' = file
  /\ UNCHANGED <<now, buckets, seen, file, pushed, worker, saved, accepted, saves, restarts>>

(* The fetch fails: the cache answers (`use_cached`, the default); nothing  *)
(* is passed on while it is empty, or under `fail`.                         *)
RefreshFails ==
  /\ cached # None
  /\ published' = cached
  /\ UNCHANGED <<now, buckets, seen, source, worker, saved, accepted, saves, restarts>>

(* A message is pushed: it goes past the cache into the same channel.       *)
Push ==
  /\ pushed < Len(PushRecords)
  /\ LET r == PushRecords[pushed + 1]
     IN  /\ r.ts # None => r.ts <= now
         /\ published' = <<r>>
  /\ pushed' = pushed + 1
  /\ UNCHANGED <<now, buckets, seen, file, cached, worker, saved, accepted, saves, restarts>>

(* The next case is closed with a verdict; the source returns it after. *)
Close ==
  /\ Len(file) < Len(FileRecords)
  /\ LET r == FileRecords[Len(file) + 1]
     IN  /\ r.ts # None => r.ts <= now
         /\ file' = Append(file, r)
  /\ UNCHANGED <<now, buckets, seen, cached, pushed, published, worker, saved, accepted,
                 saves, restarts>>

Tick ==
  /\ now < MaxTime
  /\ now' = now + 1
  /\ UNCHANGED <<buckets, seen, source, published, worker, saved, accepted, saves,
                 restarts>>

-----------------------------------------------------------------------------
(* The pruner rolls the window of every rule. *)
Prune ==
  /\ buckets' = Pruned(buckets, now)
  /\ seen' = PruneSeen(seen, now)
  /\ UNCHANGED <<now, source, published, worker, saved, accepted, saves, restarts>>

-----------------------------------------------------------------------------
Empty == [buckets |-> <<>>, seen |-> <<>>, accepted |-> {}]

(* capture of the savers: the snapshot is taken under the read lock. *)
Save ==
  /\ saved' = [buckets |-> buckets, seen |-> seen, accepted |-> accepted]
  /\ saves < MaxSaves
  /\ saves' = saves + 1
  /\ UNCHANGED <<now, buckets, seen, source, published, worker, accepted, restarts>>

(* Mutant: the keys seen are not restored. *)
RestorableMutant(queue) == {}

(* The entries of the snapshot a restore keeps, by their places. *)
Restorable(queue) == {i \in DOMAIN queue : ~Stale(queue[i].ts, now)}

(* The process stops anywhere; the next restores the snapshot and polls the *)
(* source afresh.                                                           *)
Restart ==
  /\ restarts < MaxRestarts
  /\ restarts' = restarts + 1
  /\ buckets' = Pruned(saved.buckets, now)
  /\ \E kept \in At(saved.seen, Restorable(saved.seen)) : seen' = PruneSeen(kept, now)
  /\ accepted' = saved.accepted
  /\ worker' = [w \in DOMAIN worker |-> Idle]
  /\ published' = None
  /\ cached' = None
  /\ UNCHANGED <<now, file, pushed, saved, saves>>

Init ==
  /\ now = 0
  /\ buckets = <<>> /\ seen = <<>>
  /\ file = <<>> /\ cached = None /\ pushed = 0
  /\ published = None
  /\ worker = [w \in {"api", "source"} |-> Idle]
  /\ saved = Empty
  /\ accepted = {}
  /\ saves = 0 /\ restarts = 0

Next ==
  \/ \E r \in Records : Post(r)
  \/ Take
  \/ \E w \in DOMAIN worker : Worker(w)
  \/ Refresh \/ RefreshFails
  \/ Push
  \/ Close
  \/ Tick
  \/ Prune
  \/ Save \/ Restart

Spec == Init /\ [][Next]_vars

(* A timer keeps the refresh going; the source task runs. *)
FairSpec ==
  /\ Spec
  /\ WF_vars(Refresh) /\ WF_vars(Take)
  /\ WF_vars(Worker("source"))

-----------------------------------------------------------------------------
(* PROPERTIES *)

Ids == {r.id : r \in Records}

Disposition == [rule : Rules, id : Ids, verdict : Verdict, ts : Nat]

Key == ({"id"} \X Ids \X Verdict \X Rules) \cup ({"rt"} \X Rules \X Nat)

IsBuckets(bs) ==
  /\ DOMAIN bs \subseteq Rules
  /\ \A r \in DOMAIN bs :
       /\ DOMAIN bs[r] \subseteq Int
       /\ \A b \in DOMAIN bs[r] : bs[r][b] \in [Verdict -> 0..MaxCount]

IsQueue(queue) == queue \in Seq([key : Key, ts : Nat]) /\ Len(queue) <= MaxSeen

(* Counts for known rules only, never more keys seen than max_seen_ids, in  *)
(* the store and in what was saved of it, and no ingestion dated ahead.     *)
TypeOK ==
  /\ now \in 0..MaxTime
  /\ IsBuckets(buckets) /\ IsBuckets(saved.buckets)
  /\ IsQueue(seen) /\ IsQueue(saved.seen)
  /\ accepted \subseteq Disposition /\ saved.accepted \subseteq Disposition
  /\ file \in Seq(Records) /\ pushed \in 0..Len(PushRecords)
  /\ {cached, published} \subseteq Seq(Records) \cup {None}
  /\ worker \in [{"api", "source"} -> [at : 0..now, todo : Seq(SUBSET Disposition)]]
  /\ saves \in 0..MaxSaves /\ restarts \in 0..MaxRestarts

(* The limits leave room: for the key of a verdict about to be counted, and *)
(* in each count of a bucket inside the window.                             *)
RoomLeft ==
  /\ \A w \in DOMAIN worker : \A d \in UNION Range(worker[w].todo) :
       Remembered(d) \/ Len(seen) < MaxSeen
  /\ \A r \in DOMAIN buckets : \A b \in DOMAIN buckets[r] : \A v \in Verdict :
       b > Cutoff(now) => buckets[r][b][v] < MaxCount

In(r, v, b) == {d \in accepted : d.rule = r /\ d.verdict = v /\ BucketOf(d.ts) = b}

Tally(r, v, b) == IF b \in DOMAIN Counts(r, buckets) THEN buckets[r][b][v] ELSE 0

(* Redelivery is safe inside the window (triage-feedback.md:56): however    *)
(* often a verdict is read again, by both paths, across prunes and          *)
(* restarts, its key is counted at most once while it is in the window, and *)
(* every bucket wholly inside the window holds exactly the verdicts         *)
(* counted, as long as the limits leave room (RoomLeft, which the code does *)
(* not promise: at max_seen_ids the oldest key goes, however fresh).        *)
CountsAreExact ==
  /\ \A d, e \in accepted :
       DedupKey(d) = DedupKey(e) /\ ~Stale(d.ts, now) /\ ~Stale(e.ts, now) => d = e
  /\ \A r \in Rules, v \in Verdict : \A b \in Cutoff(now) + 1 .. BucketOf(now) :
       Tally(r, v, b) = Cardinality(In(r, v, b))

Heard(r) ==
  \E d \in accepted :
    /\ d.rule = r.rule /\ d.id = r.id
    /\ IF r.id # None THEN d.verdict = r.verdict ELSE r.ts \in {None, d.ts}

(* Each verdict the polled source returns is counted in the end, though the *)
(* payload may be replaced in the channel by a pushed one or by an older    *)
(* one of the cache, and a crash may forget what was counted.               *)
(* (An incident's verdict is rejected while the incident is not open.)      *)
VerdictsArrive == <>[](\A r \in Range(file) : r.rule # None => Heard(r))
=============================================================================
