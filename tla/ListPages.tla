------------------------------ MODULE ListPages ------------------------------
(***************************************************************************)
(* The two pages of the dashboard that follow work under way: the Jobs     *)
(* list (executions and restorations in one order) and the list of         *)
(* discovery runs.  A page loads its first cards, appends more when it is  *)
(* scrolled, and polls while something is active; dialogs with the details *)
(* of one card poll for themselves.                                        *)
(*                                                                         *)
(* A request reads the database in several statements, between which jobs  *)
(* go on; one statement is one step, and the last one answers.  htmx keeps *)
(* one request of an element in flight.                                    *)
(***************************************************************************)
EXTENDS Naturals, Sequences, SequencesExt, FiniteSets

CONSTANTS
    Jobs,         \* executions and restorations, or discovery runs
    Restores,     \* those of them that are restorations, on the Jobs page
    Elsewhere,    \* discovery runs of other pods than the one that answers
    Earlier,      \* the list when the page is opened, newest first
    Over,         \* the jobs of it that have ended, the others run
    Removable,    \* jobs that may be deleted while the page is open
    PageSize,     \* cards per page: 20 jobs, 30 runs
    PollMax,      \* executionsPollMaxRows 400, discoveryRunsPollMaxRows 300
    ServiceMax,   \* the services return 100 rows at most
    Watched,      \* jobs whose dialog is followed: dialogs do not meet
    MaxMishaps    \* bound on rows that are deleted and requests that fail

ASSUME ListPagesConstants ==
    /\ Restores \subseteq Jobs /\ Elsewhere \subseteq Jobs /\ Removable \subseteq Jobs
    /\ Earlier \in Seq(Jobs) /\ Over \subseteq Range(Earlier)
    /\ \A a, b \in DOMAIN Earlier : Earlier[a] = Earlier[b] => a = b
    /\ PageSize \in Nat \ {0} /\ PollMax \in Nat /\ ServiceMax \in Nat
    /\ PageSize <= ServiceMax
    /\ Watched \subseteq Jobs /\ MaxMishaps \in Nat

VARIABLES
    view,      \* which page is open: "jobs" or "runs"
    status,    \* of each job
    order,     \* the jobs of the list, newest first
    cards,     \* what the page shows, each card with the status it was read with
    sentinel,  \* the page the element below the cards loads, or 0
    polling,   \* the list has its hx-trigger "every 5s"
    list,      \* the request of the list
    scroll,    \* the request of the sentinel
    dialog,    \* the dialog of each job: "none", "closed", "still", "polls"
    shown,     \* the status the dialog shows
    fresh,     \* history: jobs that came to the front since the list was read
    shifted,   \* history: a listed job went away since, or rows were cut off
    raced,     \* history: jobs that ended between the statements of a list request
    mishaps    \* deletions and failures so far

jobVars == <<view, status, order>>
page    == <<cards, sentinel, polling>>
vars    == <<jobVars, page, list, scroll, dialog, shown, fresh, shifted, raced, mishaps>>

Active == {"queued", "running"}

Idle == [at |-> "idle", kind |-> "poll", page |-> 1, limit |-> PageSize, count |-> 0,
         refs |-> <<>>, rows |-> <<>>, fresh |-> {}, shifted |-> FALSE, orphan |-> FALSE]

Card == [job : Jobs, status : {"queued", "running", "ended"}]

Request ==
    [at : {"idle", "count", "ids", "rows", "active"},
     kind : {"load", "run", "poll", "scroll"}, page : Nat, limit : Nat, count : Nat,
     refs : Seq(Jobs), rows : Seq(Card), fresh : SUBSET Jobs,
     shifted : BOOLEAN, orphan : BOOLEAN]

TypeOK ==
    /\ view \in {"jobs", "runs"}
    /\ status \in [Jobs -> {"none", "queued", "running", "ended", "gone"}]
    /\ order \in Seq(Jobs)
    /\ cards \in Seq(Card)
    /\ sentinel \in Nat
    /\ polling \in BOOLEAN
    /\ list \in Request /\ scroll \in Request
    /\ dialog \in [Jobs -> {"none", "closed", "still", "polls"}]
    /\ shown \in [Jobs -> {"none", "queued", "running", "ended"}]
    /\ fresh \subseteq Jobs /\ shifted \in BOOLEAN /\ raced \subseteq Jobs
    /\ mishaps \in Nat

\* indexPage: an empty page whose list asks for the first cards ("load").
EmptyPage ==
    /\ cards = <<>> /\ sentinel = 0 /\ polling = FALSE
    /\ list = [Idle EXCEPT !.at = "count", !.kind = "load"]
    /\ scroll = Idle

Init ==
    /\ view \in {"jobs", "runs"}
    /\ EmptyPage
    /\ status = [j \in Jobs |-> IF j \in Over THEN "ended"
                                ELSE IF j \in Range(Earlier) THEN "running" ELSE "none"]
    /\ order = Earlier
    /\ dialog = [j \in Jobs |-> "none"]
    /\ shown = [j \in Jobs |-> "none"]
    /\ fresh = {} /\ shifted = FALSE /\ raced = {}
    /\ mishaps = 0

Mishap == mishaps < MaxMishaps /\ mishaps' = mishaps + 1

-----------------------------------------------------------------------------
(* jobs, as workers and users of other pages move them *)

HasIds(r) == r.at \in {"rows", "active"}

\* The list but for j, which is in it once at most.
Without(j) ==
    IF \E i \in DOMAIN order : order[i] = j
    THEN RemoveAt(order, CHOOSE i \in DOMAIN order : order[i] = j) ELSE order

\* started_at of a job, updated_at of a run, is set to now: it comes first.
ToFront(j) ==
    /\ order' = <<j>> \o Without(j)
    /\ fresh' = fresh \cup {j}
    /\ list' = IF HasIds(list) THEN [list EXCEPT !.fresh = @ \cup {j}] ELSE list

Enqueue(j) ==
    /\ status[j] = "none"
    /\ status' = [status EXCEPT ![j] = IF view = "jobs" THEN "queued" ELSE "running"]
    /\ ToFront(j)
    /\ UNCHANGED <<view, page, scroll, dialog, shown, shifted, raced, mishaps>>

\* A worker claims the job, which sets started_at again.
ClaimJob(j) ==
    /\ status[j] = "queued"
    /\ status' = [status EXCEPT ![j] = "running"]
    /\ ToFront(j)
    /\ UNCHANGED <<view, page, scroll, dialog, shown, shifted, raced, mishaps>>

\* A job ends; a run logs its last event, or has logged none for 30 minutes.
EndJob(j) ==
    /\ status[j] = "running"
    /\ status' = [status EXCEPT ![j] = "ended"]
    /\ raced' = IF list.at = "active" THEN raced \cup {j} ELSE raced
    /\ \/ view = "runs" /\ ToFront(j)
       \/ UNCHANGED <<order, fresh, list>>
    /\ UNCHANGED <<view, page, scroll, dialog, shown, shifted, mishaps>>

\* A run that logs an event comes first again.
LogRun(j) ==
    /\ view = "runs" /\ status[j] = "running" /\ order[1] # j
    /\ ToFront(j)
    /\ UNCHANGED <<view, status, page, scroll, dialog, shown, shifted, raced, mishaps>>

\* An execution is deleted (the list hides it), a row is purged, a backup deleted.
RemoveJob(j) ==
    /\ j \in Removable /\ status[j] \notin {"none", "gone"} /\ Mishap
    /\ status' = [status EXCEPT ![j] = "gone"]
    /\ order' = Without(j)
    /\ shifted' = TRUE
    /\ list' = IF HasIds(list) THEN [list EXCEPT !.shifted = TRUE] ELSE list
    /\ UNCHANGED <<view, page, scroll, dialog, shown, fresh, raced>>

-----------------------------------------------------------------------------
(* reading a page of the list *)

\* pollLimit: what is shown, in whole pages, within the limit of the page.
PollLimit(rows) ==
    LET wanted == IF rows > PollMax THEN PollMax ELSE rows IN
    IF rows < PageSize THEN PageSize
    ELSE ((wanted + PageSize - 1) \div PageSize) * PageSize

Clamped(limit) == IF limit > ServiceMax THEN ServiceMax ELSE limit

\* CreateOffsetFromParams.
Offset(r) == (r.page - 1) * Clamped(r.limit)

\* CreatePaginateResponse: whether there is a page after this one.
HasNextPage(r) == r.count > r.page * Clamped(r.limit)

\* What the count statement returns: it has the filters of the list.
Counted == Len(order)

\* LIMIT and OFFSET of the list.
Listed(r) ==
    LET end == Offset(r) + Clamped(r.limit) IN
    SubSeq(order, Offset(r) + 1, IF end > Len(order) THEN Len(order) ELSE end)

\* A run has ended with its last event, or without one for 30 minutes.
CardOf(j) == [job |-> j, status |-> status[j]]

\* The n-th of a set of numbers.
Nth(S, n) == CHOOSE i \in S : Cardinality({k \in S : k <= i}) = n

\* Cards of the given jobs that still have a row.
ReadRows(js) ==
    LET there == {i \in DOMAIN js : status[js[i]] # "gone"} IN
    [n \in 1..Cardinality(there) |-> CardOf(js[Nth(there, n)])]

\* One statement of request r, up to the rows: PaginateJobs (count, ids) and
\* loadJobsPage (rows); PaginateRuns has the rows with the ids.
ReadStep(r) ==
    CASE r.at = "count" -> [r EXCEPT !.at = "ids", !.count = Counted]
      [] r.at = "ids" /\ view = "jobs" ->
            [r EXCEPT !.at = "rows", !.refs = Listed(r),
                      !.fresh = {}, !.shifted = r.limit > ServiceMax]
      [] r.at = "ids" /\ view = "runs" ->
            [r EXCEPT !.at = "active", !.rows = ReadRows(Listed(r)),
                      !.fresh = {}, !.shifted = r.limit > ServiceMax]
      [] r.at = "rows" -> [r EXCEPT !.at = "active", !.refs = <<>>, !.rows = ReadRows(r.refs)]

Reading(r) == r.at \in {"count", "ids", "rows"}

ReadList ==
    /\ Reading(list)
    /\ list' = ReadStep(list)
    /\ UNCHANGED <<jobVars, page, scroll, dialog, shown, fresh, shifted, raced, mishaps>>

ReadScroll ==
    /\ Reading(scroll)
    /\ scroll' = ReadStep(scroll)
    /\ UNCHANGED <<jobVars, page, list, dialog, shown, fresh, shifted, raced, mishaps>>

-----------------------------------------------------------------------------
(* answers *)

\* buildRunRows, buildJobCards: below the cards, an element that asks for more.
Below(r, next) == IF HasNextPage(r) THEN next ELSE 0

\* A card for each of the rows, in the order of the list.
ShowCards(r, next) == cards' = r.rows /\ sentinel' = Below(r, next)

\* HasActiveJobs: any job.  Running: only a run of the pod that answers.
HasActive ==
    \E j \in Jobs : status[j] \in Active /\ (view = "runs" => j \notin Elsewhere)

\* The log of a run is fetched when it is opened.
ClosedLog == "closed"

\* A dialog polls from the start if the job runs; a restoration also while it
\* is queued.
NewDialog(card) ==
    IF view = "runs" THEN ClosedLog
    ELSE IF card.status = "running" \/ (card.job \in Restores /\ card.status = "queued")
    THEN "polls" ELSE "still"

\* jobModalsOOB: dialogs for the cards that came, those there already stay.
AddDialogs(rows) ==
    LET new == {i \in DOMAIN rows : rows[i].job \in Watched /\ dialog[rows[i].job] = "none"}
        of(j) == {i \in new : rows[i].job = j}
    IN  /\ dialog' = [j \in Jobs |-> IF of(j) = {} THEN dialog[j]
                                     ELSE NewDialog(rows[CHOOSE i \in of(j) : TRUE])]
        /\ shown' = [j \in Jobs |-> IF of(j) = {} \/ view = "runs" THEN shown[j]
                                    ELSE rows[CHOOSE i \in of(j) : TRUE].status]

\* hx-swap "afterend" of the sentinel: when that has been replaced meanwhile, its
\* cards find no place.  Mutant: they go to the end of the list.
MutOrphaned(r) == r

Orphaned(r) == [r EXCEPT !.orphan = r.at # "idle"]

\* The first cards, with the trigger of the poll if something is active, or
\* in any case when a run has just been started.
AnswerLoad(active) ==
    /\ list.at = "active" /\ list.kind \in {"load", "run"}
    /\ ShowCards(list, 2)
    /\ polling' = (active \/ list.kind = "run")
    /\ scroll' = Orphaned(scroll)
    /\ AddDialogs(list.rows)
    /\ fresh' = list.fresh /\ shifted' = list.shifted
    /\ list' = Idle
    /\ UNCHANGED <<jobVars, raced>>

\* The page a poll continues with.
NextPage(limit) == limit \div PageSize + 1

\* New cards replace all that are shown; status 286 ends the polling.
AnswerPoll(active) ==
    /\ list.at = "active" /\ list.kind = "poll"
    /\ ShowCards(list, NextPage(list.limit))
    /\ polling' = active
    /\ fresh' = list.fresh /\ shifted' = list.shifted
    /\ list' = Idle
    /\ scroll' = Orphaned(scroll)
    /\ UNCHANGED <<jobVars, dialog, shown, raced>>

\* The status of the jobs that are active decides; if it cannot be read, none is.
AnswerList ==
    \/ (AnswerLoad(HasActive) \/ AnswerPoll(HasActive)) /\ UNCHANGED mishaps
    \/ /\ Mishap
       /\ AnswerLoad(FALSE) \/ AnswerPoll(FALSE)

\* More cards below the others (page > 1).
AnswerScroll ==
    /\ scroll.at = "active"
    /\ IF scroll.orphan THEN UNCHANGED <<cards, sentinel>>
       ELSE /\ cards' = cards \o scroll.rows
            /\ sentinel' = Below(scroll, scroll.page + 1)
    /\ AddDialogs(scroll.rows)
    /\ scroll' = Idle
    /\ UNCHANGED <<jobVars, polling, list, fresh, shifted, raced, mishaps>>

\* ToastError: nothing is swapped, a list that polls goes on polling.
\* Mutant: the error ends the polling as 286 does.
MutListFails ==
    /\ list.at # "idle" /\ Mishap
    /\ list' = Idle /\ polling' = FALSE
    /\ UNCHANGED <<jobVars, cards, sentinel, scroll, dialog, shown, fresh, shifted, raced>>

ListFails ==
    /\ list.at # "idle" /\ Mishap
    /\ list' = Idle
    /\ UNCHANGED <<jobVars, page, scroll, dialog, shown, fresh, shifted, raced>>

\* The sentinel has had its one request: the cards below it never come.
ScrollFails ==
    /\ scroll.at # "idle" /\ Mishap
    /\ scroll' = Idle
    /\ UNCHANGED <<jobVars, page, list, dialog, shown, fresh, shifted, raced>>

-----------------------------------------------------------------------------
(* the browser *)

\* hx-trigger "every 5s", with the number of cards that are shown.
StartPoll ==
    /\ polling /\ list.at = "idle"
    /\ list' = [Idle EXCEPT !.at = "count", !.limit = PollLimit(Len(cards))]
    /\ raced' = {}
    /\ UNCHANGED <<jobVars, page, scroll, dialog, shown, fresh, shifted, mishaps>>

\* "Run all" on the page of the runs: the answer is the list, read anew.
ClickRun(j) ==
    /\ view = "runs" /\ j \notin Elsewhere /\ ~HasActive /\ status[j] = "none"
    /\ list.at = "idle"
    /\ status' = [status EXCEPT ![j] = "running"]
    /\ order' = <<j>> \o order
    /\ fresh' = fresh \cup {j}
    /\ list' = [Idle EXCEPT !.at = "count", !.kind = "run"]
    /\ UNCHANGED <<view, page, scroll, dialog, shown, shifted, raced, mishaps>>

\* hx-trigger "intersect once" of the element below the cards.
StartScroll ==
    /\ sentinel # 0 /\ scroll.at = "idle"
    /\ scroll' = [Idle EXCEPT !.at = "count", !.kind = "scroll", !.page = sentinel]
    /\ sentinel' = 0
    /\ UNCHANGED <<jobVars, cards, polling, list, dialog, shown, fresh, shifted, raced, mishaps>>

\* The log of a run is opened: renderRunEvents polls while the run runs.
OpenLog(j) ==
    /\ dialog[j] = "closed" /\ status[j] # "gone"
    /\ dialog' = [dialog EXCEPT ![j] = IF status[j] = "running" THEN "polls" ELSE "still"]
    /\ shown' = [shown EXCEPT ![j] = status[j]]
    /\ UNCHANGED <<jobVars, page, list, scroll, fresh, shifted, raced, mishaps>>

\* Statuses at which the details answer 286.  Mutant: all but "running".
MutFinal == {"queued", "ended"}

Final == {"ended"}

\* hx-trigger "every 3s" of a dialog.  A job whose row is gone is an error and
\* changes nothing; the rows of a log never end the polling.
PollDialog(j) ==
    /\ dialog[j] = "polls" /\ status[j] # "gone"
    /\ shown' = [shown EXCEPT ![j] = status[j]]
    /\ dialog' = IF view = "jobs" /\ status[j] \in Final
                 THEN [dialog EXCEPT ![j] = "still"] ELSE dialog
    /\ UNCHANGED <<jobVars, page, list, scroll, fresh, shifted, raced, mishaps>>

-----------------------------------------------------------------------------
ListStep == ReadList \/ AnswerList

Next ==
    \/ \E j \in Jobs : Enqueue(j) \/ ClaimJob(j) \/ EndJob(j) \/ LogRun(j) \/ RemoveJob(j)
    \/ ListStep \/ ListFails \/ StartPoll
    \/ \E j \in Jobs : ClickRun(j)
    \/ StartScroll \/ ReadScroll \/ AnswerScroll \/ ScrollFails
    \/ \E j \in Jobs : OpenLog(j) \/ PollDialog(j)

\* Requests are answered, timers of the browser fire, jobs come to their end.
Fairness ==
    /\ WF_vars(ListStep) /\ WF_vars(StartPoll)
    /\ \A j \in Watched : WF_vars(PollDialog(j)) /\ WF_vars(ClaimJob(j)) /\ WF_vars(EndJob(j))

Spec == Init /\ [][Next]_vars /\ Fairness

-----------------------------------------------------------------------------
IsShown(j) == \E i \in DOMAIN cards : cards[i].job = j

ShownActive(j) == \E i \in DOMAIN cards : cards[i].job = j /\ cards[i].status \in Active

(* While the list polls, a card that shows a job under way is brought up to date
   once the job has ended, although polls of the list fail and pages are scrolled
   in meanwhile: an answer read after the end replaces it.  Two things end the
   polling too early, with the card as it was: a job that ends between the
   statement that reads its row and the one that asks whether anything is active
   (raced), and an error of the latter, after which no list polls. *)
CardsSettle ==
    \A j \in Jobs : (polling /\ status[j] = "ended" /\ ShownActive(j))
                    ~> (~ShownActive(j) \/ j \in raced)

(* Scrolling a list that moves skips nothing: jobs that come to the front push
   rows to a later page, so that a job listed before one that is shown is shown
   itself, or is new since the list was read.  Rows that went away, and polls
   of more rows than the service returns, are the exceptions (shifted). *)
NoGap ==
    ~shifted =>
        \A a, b \in DOMAIN order :
            a < b /\ order[a] \notin fresh /\ order[b] \notin fresh /\ IsShown(order[b])
            => IsShown(order[a])

(* A dialog that follows a job shows how it ended, unless its row goes away:
   no answer ends the polling while the job can still change. *)
DialogsSettle ==
    \A j \in Watched : dialog[j] = "polls" ~> (shown[j] = "ended" \/ status[j] = "gone")
=============================================================================
