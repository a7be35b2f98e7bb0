----------------------------- MODULE Reporting ------------------------------
(***************************************************************************)
(* Attribute reporting: zcl/zcl_reporting.c with the configuration of it   *)
(* in zcl.c.                                                               *)
(*                                                                         *)
(* Every entry of the table counts down two intervals: after the first a   *)
(* changed attribute may be reported, after the second the attribute must  *)
(* be.  The counters are not clocks: one timer runs to the nearest of      *)
(* them, and what it ran is taken off all of them when it fires.           *)
(* report_handler, called from the main loop, reports what is due, two     *)
(* attributes of a cluster to a frame, and starts the timer if it is off.  *)
(*                                                                         *)
(* Time is in seconds, within which the main loop goes round many times.   *)
(* Of an attribute's value and the one last reported only the difference   *)
(* matters.  The copy of the table in flash is left out.                   *)
(***************************************************************************)
EXTENDS Integers, FiniteSets

CONSTANTS N,         \* ZCL_REPORTING_TABLE_NUM
          Cluster,   \* [1..N -> Nat]: cluster and endpoint of an entry
          Analog,    \* entries with an attribute of an analog type
          Settings,  \* what is configured: [min, max, chg]
          Off,       \* 0xFFFF
          MaxDiff,   \* bound on how far an attribute may change
          Events     \* what happens besides: "config", "reset", "bind", "pause"

Entries == 1..N

ASSUME ReportAssumption ==
  /\ N \in Nat \ {0} /\ Cluster \in [Entries -> Nat] /\ Analog \subseteq Entries
  /\ Off \in Nat /\ MaxDiff \in Nat \ {0}
  /\ Settings \subseteq [min : 0..(Off - 1), max : 0..Off, chg : 0..MaxDiff]
  /\ Events \subseteq {"config", "reset", "bind", "pause"}

VARIABLES tab,    \* reportingTab, and how far each attribute is from its last report
          bound,  \* clusters with a binding
          on,     \* the device is in a network and not commissioning
          timer,  \* reportAttrTimerEvt, the seconds it was started with, those left
          pc,     \* "report" inside report_handler
          ran,    \* the main loop has gone round since something happened
          age,    \* history: seconds of reporting since an entry's last report
          loose   \* history: entries configured, bound or restarted under the timer

vars == <<tab, bound, on, timer, pc, ran, age, loose>>

Entry == [min : 0..Off, max : 0..Off, minDft : 0..Off, maxDft : 0..Off,
          minCnt : 0..Off, maxCnt : 0..Off, chg : 0..MaxDiff, diff : 0..MaxDiff]

NoTimer == [on |-> FALSE, secs |-> 0, left |-> 0]

\* zcl_reportCfgInfoEntryUpdate, on a new entry and on one in use
New(s) == [min |-> s.min, max |-> s.max, minDft |-> s.min, maxDft |-> s.max,
           minCnt |-> s.min, maxCnt |-> s.max, chg |-> s.chg, diff |-> 0]

\* the settings accepted
Valid(s) == s.max \in {0, Off} \/ s.min <= s.max

Updated(t, s) == [t EXCEPT !.min = s.min, !.max = s.max, !.minCnt = s.min, !.maxCnt = s.max,
                           !.chg = s.chg]

Init ==
  /\ tab \in [Entries -> {New(s) : s \in {r \in Settings : Valid(r) /\ r.max # Off}}]
  /\ bound = {Cluster[e] : e \in Entries} /\ on = TRUE
  /\ timer = NoTimer /\ pc = "idle" /\ ran = FALSE
  /\ age = [e \in Entries |-> 0] /\ loose = {}

\* an entry is served if there is a binding to report to
Served(tb, e) == tb[e].max # Off /\ Cluster[e] \in bound

\* reportableChangeValueChk for the analog types, memcmp for the others
Changed(e) == IF e \in Analog THEN tab[e].diff >= tab[e].chg ELSE tab[e].diff # 0

Due(e) == Served(tab, e) /\ (tab[e].maxCnt = 0 \/ (tab[e].minCnt = 0 /\ Changed(e)))

-----------------------------------------------------------------------------
(* The timer *)

\* bug: the timer runs to the minimum intervals alone
BugCounters(tb) == {tb[e].minCnt : e \in {d \in Entries : Served(tb, d)}} \ {0, Off}

Counters(tb) ==
  (UNION {{tb[e].minCnt, tb[e].maxCnt} : e \in {d \in Entries : Served(tb, d)}}) \ {0, Off}

\* reportAttrTimerStart: to the nearest counter, if the timer is off
StartTimer(running, tb) ==
  IF running \/ Counters(tb) = {} THEN timer' = IF running THEN timer ELSE NoTimer
  ELSE \E n \in Counters(tb) :
         /\ \A k \in Counters(tb) : n <= k
         /\ timer' = [on |-> TRUE, secs |-> n, left |-> n]

Less(n, k) == IF n >= k THEN n - k ELSE 0

\* reportAttrTimerCb: what the timer ran is taken off the counters
TimerFires ==
  /\ pc = "idle" /\ timer.on /\ timer.left = 0
  /\ tab' = [e \in Entries |->
               IF Served(tab, e)
                 THEN [tab[e] EXCEPT !.minCnt = Less(@, timer.secs),
                                     !.maxCnt = Less(@, timer.secs)]
               ELSE tab[e]]
  /\ timer' = NoTimer /\ ran' = FALSE
  /\ UNCHANGED <<bound, on, pc, age, loose>>

\* a second passes once the main loop has done what there is to do
Second ==
  /\ pc = "idle" /\ (on => ran) /\ ~(timer.on /\ timer.left = 0)
  /\ timer' = IF timer.on THEN [timer EXCEPT !.left = @ - 1] ELSE timer
  /\ age' = [e \in Entries |-> IF on /\ Served(tab, e) /\ age[e] < Off THEN age[e] + 1 ELSE age[e]]
  /\ ran' = FALSE
  /\ UNCHANGED <<tab, bound, on, pc, loose>>

-----------------------------------------------------------------------------
(* report_handler *)

Handle ==
  /\ pc = "idle" /\ on /\ ~ran
  /\ pc' = "report"
  /\ UNCHANGED <<tab, bound, on, timer, ran, age, loose>>

DueNow == {e \in Entries : Due(e)}

\* the entries due of the cluster of the first of them
SameCluster == {e \in DueNow : \A d \in DueNow :
                  (\A f \in DueNow : d <= f) => Cluster[e] = Cluster[d]}

\* a frame has room for two
Sent == {e \in SameCluster : Cardinality({d \in SameCluster : d < e}) < 2}

\* bug: a frame that is full is taken for the last
BugAgain == SameCluster # DueNow

\* bug: entries of another cluster wait for the next turn of the main loop
BugOneCluster == Cardinality(SameCluster) >= 2

\* another turn is needed
Again == SameCluster # DueNow \/ Cardinality(SameCluster) >= 2

\* bug: the value is not stored for the next comparison
BugReloaded(t) == [t EXCEPT !.minCnt = t.min, !.maxCnt = t.max]

Reloaded(t) == [t EXCEPT !.diff = 0, !.minCnt = t.min, !.maxCnt = t.max]

\* one turn of the loop of reportAttrs; after the last the timer is started
ReportAttrs ==
  /\ pc = "report"
  /\ tab' = [e \in Entries |-> IF e \in Sent THEN Reloaded(tab[e]) ELSE tab[e]]
  /\ age' = [e \in Entries |-> IF e \in Sent THEN 0 ELSE age[e]]
  /\ loose' = IF timer.on THEN loose ELSE loose \ Sent
  /\ IF Again THEN UNCHANGED <<pc, ran, timer>>
     ELSE pc' = "idle" /\ ran' = TRUE /\ StartTimer(timer.on, tab')
  /\ UNCHANGED <<bound, on>>

-----------------------------------------------------------------------------
(* What happens besides *)

\* an attribute changes
Change(e) ==
  /\ pc = "idle"
  /\ \E d \in 0..MaxDiff : d # tab[e].diff /\ tab' = [tab EXCEPT ![e].diff = d]
  /\ ran' = FALSE
  /\ UNCHANGED <<bound, on, timer, pc, age, loose>>

\* the entries es begin a new interval under the timer
Began(es) ==
  /\ age' = [e \in Entries |-> IF e \in es THEN 0 ELSE age[e]]
  /\ loose' = IF timer.on THEN loose \cup es ELSE loose

\* zcl_configureReporting
Configure(e, s) ==
  /\ pc = "idle" /\ "config" \in Events /\ Valid(s)
  /\ tab' = [tab EXCEPT ![e] = Updated(@, s)]
  /\ Began({e}) /\ ran' = FALSE
  /\ UNCHANGED <<bound, on, timer, pc>>

\* zcl_reportCfgInfoEntryRst: the timer is started anew; what it had run is taken
\* off no counter, and an entry that is due is not what it waits for
Reset(e) ==
  /\ pc = "idle" /\ "reset" \in Events
  /\ LET t == tab[e]
     IN tab' = [tab EXCEPT ![e] = [@ EXCEPT !.min = t.minDft, !.max = t.maxDft, !.chg = 0,
                                            !.minCnt = t.minDft, !.maxCnt = t.maxDft]]
  /\ StartTimer(FALSE, tab')
  /\ age' = [age EXCEPT ![e] = 0]
  /\ loose' = IF timer.on THEN Entries ELSE loose \cup {d \in Entries : tab[d].maxCnt = 0}
  /\ ran' = FALSE
  /\ UNCHANGED <<bound, on, pc>>

\* a binding is made or removed
Bind(c) ==
  /\ pc = "idle" /\ "bind" \in Events
  /\ bound' = IF c \in bound THEN bound \ {c} ELSE bound \cup {c}
  /\ Began({e \in Entries : Cluster[e] = c}) /\ ran' = FALSE
  /\ UNCHANGED <<tab, on, timer, pc>>

\* the device leaves, commissions, or is back
Pause ==
  /\ pc = "idle" /\ "pause" \in Events
  /\ on' = ~on /\ ran' = FALSE
  /\ UNCHANGED <<tab, bound, timer, pc, age, loose>>

Happening ==
  \/ \E e \in Entries : Change(e) \/ Reset(e) \/ \E s \in Settings : Configure(e, s)
  \/ \E c \in {Cluster[e] : e \in Entries} : Bind(c)
  \/ Pause

Next == TimerFires \/ Second \/ Handle \/ ReportAttrs \/ Happening

Spec == Init /\ [][Next]_vars

\* the loop of reportAttrs goes on
FairSpec == Spec /\ WF_vars(ReportAttrs)
-----------------------------------------------------------------------------
(* Correctness *)

\* The table, the timer and the history are well formed.
TypeOK ==
  /\ tab \in [Entries -> Entry]
  /\ bound \subseteq {Cluster[e] : e \in Entries} /\ {on, ran} \subseteq BOOLEAN
  /\ timer \in [on : BOOLEAN, secs : 0..Off, left : 0..Off]
  /\ pc \in {"idle", "report"}
  /\ age \in [Entries -> 0..Off] /\ loose \subseteq Entries

\* An entry served is reported at the latest when its maximum interval is over,
\* although one timer counts for all entries and is started whenever any of them
\* needs it.  The exceptions are entries configured or bound while the timer ran,
\* and after a reset those whose count the new timer forgot or that it does not
\* wait for; each until it is next reported while the timer is off.  (With a
\* maximum interval of zero an entry is reported at every pass.)
MaxIntervalKept ==
  \A e \in Entries \ loose :
    on /\ Served(tab, e) /\ tab[e].max # 0 => age[e] <= tab[e].max

\* Entries that are due again as soon as they have been reported: with no
\* interval, or analog with neither a minimum interval nor a change to wait for.
Insatiable(e) ==
  Served(tab, e) /\ (tab[e].max = 0 \/ (tab[e].min = 0 /\ e \in Analog /\ tab[e].chg = 0))

\* When report_handler returns nothing is left due, whatever the order of
\* clusters in the table and however many entries of each were due.
AllReported ==
  pc = "idle" /\ on /\ ran => \A e \in Entries : Due(e) => Insatiable(e)

\* report_handler returns, unless an entry is insatiable.
HandlerReturns == (pc = "report") ~> (pc = "idle" \/ \E e \in Entries : Insatiable(e))

\* An attribute that has changed is not reported before its minimum interval has
\* passed since its last report.
MinIntervalKept ==
  [][\A e \in Entries :
       pc = "report" /\ e \in Sent /\ tab[e].maxCnt # 0 => age[e] >= tab[e].min]_vars
=============================================================================
