-------------------------------- MODULE Pages --------------------------------
(***************************************************************************)
(* What the browser pages show of the server's lists: the operators'       *)
(* console (its request queues), its moderation of predictions, and the    *)
(* customers' predictions page.  Each asks again on a timer, when another  *)
(* view is chosen and after an action, and requests overtake each other.   *)
(* A page numbers its loads, listVersion, version or loadVersion, and      *)
(* drops an answer that is not to the newest; here the newest request is   *)
(* named instead.  A list is its revision; further pages of it, and what   *)
(* is shown beside it, are left out.                                       *)
(***************************************************************************)
EXTENDS Integers

CONSTANTS
  Views,           \* areas, statuses and filters to choose from
  Slots,           \* requests on their way at a time
  LastRevision, MaxViews, MaxErrors   \* bounds

ASSUME PagesAssumption ==
  /\ {LastRevision, MaxViews, MaxErrors} \subseteq Nat
  /\ "NONE" \notin Views

VARIABLES
  page,          \* which of the three it is
  view,          \* the view chosen
  revision,      \* of the list, at the server
  asked,         \* slot -> request
  newest,        \* the slot of the newest load, if it was not invalidated
  refreshing,    \* the console's refresh of this view is under way
  debounced,     \* a choice of view waits to be loaded
  actedIn,       \* the view in which an action was begun that is under way
  displayed,     \* [view, revision] of the list on the screen
  views, errors   \* for the bounds

pagesVars == <<page, view, revision, asked, newest, refreshing, debounced, actedIn, displayed,
               views, errors>>

Unasked == [view |-> "NONE", by |-> "NONE", stopped |-> FALSE, answer |-> -1]
BlankPage == [view |-> "NONE", revision |-> 0]
NoSlot  == 0

PagesInit ==
  /\ page \in {"CONSOLE", "MODERATION", "PREDICTIONS"}
  /\ view \in Views
  /\ revision = 0
  /\ asked = [s \in Slots |-> Unasked]
  /\ newest = NoSlot
  /\ refreshing = FALSE
  /\ debounced = TRUE
  /\ actedIn = "NONE"
  /\ displayed = BlankPage
  /\ views = 0 /\ errors = 0

Free(s) == asked[s] = Unasked
Ask(s, v, by, requests) ==
  /\ Free(s)
  /\ asked' = [requests EXCEPT ![s] =
                 [view |-> v, by |-> by, stopped |-> FALSE, answer |-> -1]]
  /\ newest' = s

-----------------------------------------------------------------------------
(* Another view is chosen.  The console empties the table, gives up what   *)
(* is under way and loads at once; the other pages load a moment later and *)
(* show what they have until then.                                         *)
Choose(v) ==
  /\ v # view /\ views < MaxViews
  /\ view' = v /\ views' = views + 1
  /\ IF page = "CONSOLE"
       THEN /\ displayed' = BlankPage
            /\ refreshing' = FALSE
            /\ LET stopped == [s \in Slots |->
                                 IF asked[s].by = "REFRESH"
                                 THEN [asked[s] EXCEPT !.stopped = TRUE] ELSE asked[s]]
               IN  \E s \in Slots : Ask(s, v, "LOAD", stopped)
            /\ UNCHANGED debounced
       ELSE /\ debounced' = TRUE
            /\ UNCHANGED <<asked, newest, refreshing, displayed>>
  /\ UNCHANGED <<page, revision, actedIn, errors>>

Debounced ==
  /\ debounced
  /\ debounced' = FALSE
  /\ \E s \in Slots : Ask(s, view, "LOAD", asked)
  /\ UNCHANGED <<page, view, revision, refreshing, actedIn, displayed, views, errors>>

(* Faulty: asks whether or not the last answer has come.                   *)
MayRefreshAlways == TRUE

MayRefresh == ~refreshing

(* The console's timer, for the queues of requests.                        *)
RefreshRequests ==
  /\ page = "CONSOLE" /\ MayRefresh
  /\ refreshing' = TRUE
  /\ \E s \in Slots : Ask(s, view, "REFRESH", asked)
  /\ UNCHANGED <<page, view, revision, debounced, actedIn, displayed, views, errors>>

(* The other pages' timers have no such guard: their ten and fifteen       *)
(* seconds are taken to be longer than an answer takes.                    *)
TimedLoad ==
  /\ page # "CONSOLE" /\ ~debounced
  /\ newest = NoSlot \/ Free(newest)
  /\ \E s \in Slots : Ask(s, view, "LOAD", asked)
  /\ UNCHANGED <<page, view, revision, refreshing, debounced, actedIn, displayed, views, errors>>

-----------------------------------------------------------------------------
(* The user acts on a row.  When the action has succeeded the console and  *)
(* moderation load the view the action was begun in, whichever is chosen   *)
(* by then; the predictions page loads the one chosen.                     *)
BeginAction ==
  /\ actedIn = "NONE"
  /\ actedIn' = view
  /\ UNCHANGED <<page, view, revision, asked, newest, refreshing, debounced, displayed,
                 views, errors>>

CompleteAction ==
  /\ actedIn # "NONE"
  /\ actedIn' = "NONE"
  /\ \/ /\ revision < LastRevision
        /\ revision' = revision + 1
        /\ \E s \in Slots :
             Ask(s, IF page = "PREDICTIONS" THEN view ELSE actedIn, "LOAD", asked)
     \/ UNCHANGED <<revision, asked, newest>>
  /\ UNCHANGED <<page, view, refreshing, debounced, displayed, views, errors>>

(* Somebody else's action.                                                 *)
ServerChanges ==
  /\ revision < LastRevision
  /\ revision' = revision + 1
  /\ UNCHANGED <<page, view, asked, newest, refreshing, debounced, actedIn, displayed,
                 views, errors>>

-----------------------------------------------------------------------------
Answered(s) ==
  /\ ~Free(s) /\ asked[s].answer = -1
  /\ asked' = [asked EXCEPT ![s].answer = revision]
  /\ UNCHANGED <<page, view, revision, newest, refreshing, debounced, actedIn, displayed,
                 views, errors>>

Release(s) ==
  /\ asked' = [asked EXCEPT ![s] = Unasked]
  /\ refreshing' = (refreshing /\ (asked[s].by = "REFRESH" => asked[s].stopped))

(* Faulty: whatever comes is shown.                                        *)
AcceptsAnything(s) == TRUE

Accepts(s) == s = newest /\ ~asked[s].stopped

Arrive(s) ==
  /\ asked[s].answer # -1
  /\ displayed' = IF Accepts(s)
                THEN [view |-> asked[s].view, revision |-> asked[s].answer] ELSE displayed
  /\ Release(s)
  /\ UNCHANGED <<page, view, revision, newest, debounced, actedIn, views, errors>>

(* An error leaves the list as it is.                                      *)
Fail(s) ==
  /\ ~Free(s) /\ errors < MaxErrors
  /\ errors' = errors + 1
  /\ Release(s)
  /\ UNCHANGED <<page, view, revision, newest, debounced, actedIn, displayed, views>>

PagesNext ==
  \/ \E v \in Views : Choose(v)
  \/ Debounced \/ RefreshRequests \/ TimedLoad
  \/ BeginAction \/ CompleteAction \/ ServerChanges
  \/ \E s \in Slots : Answered(s) \/ Arrive(s) \/ Fail(s)

(* Timers go off, and the server answers.                                  *)
PagesFairness ==
  /\ WF_pagesVars(Debounced)
  /\ WF_pagesVars(RefreshRequests)
  /\ WF_pagesVars(TimedLoad)
  /\ \A s \in Slots : WF_pagesVars(Answered(s) \/ Arrive(s))

PagesSpec == PagesInit /\ [][PagesNext]_pagesVars /\ PagesFairness

-----------------------------------------------------------------------------
(* However answers overtake each other, the list of a view on the screen   *)
(* never gives way to an older one of that view: a request just approved   *)
(* does not come back as pending.                                          *)
ListsNeverGoBack ==
  [][displayed.view = displayed'.view => displayed.revision <= displayed'.revision]_pagesVars

(* However slow the answers, once operators stop, every page shows the     *)
(* view chosen as the server has it: also when an action was still under   *)
(* way as another view was chosen, and loaded the former over it.          *)
ShowsTheLatest == <>[](displayed = [view |-> view, revision |-> revision])
=============================================================================
