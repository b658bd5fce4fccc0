------------------------------ MODULE Community ------------------------------
(***************************************************************************)
(* CommunityService: a post keeps counters of its reactions, comments and  *)
(* shares beside their rows, and an image belongs to the post that claimed *)
(* it.  Each change is a serializable transaction that reads, writes and   *)
(* commits, is refused if another commit came between on a row it touches, *)
(* and is then tried again, three times in all.  Requests of one user from *)
(* several devices interleave.                                             *)
(*                                                                         *)
(* One post and one image.  Texts, replies (whose counter moves with the   *)
(* comment's row in the same transaction) and the listings are left out,   *)
(* and the broadcasts after a commit, which change nothing here.           *)
(***************************************************************************)
EXTENDS Integers, FiniteSets

CONSTANTS
  Members,       \* users
  Reactions,     \* the values a reaction may have here
  Posters,       \* requests under way
  MaxComments,   \* bound on the comments
  MaxTries       \* 3

ASSUME CommunityAssumption ==
  /\ Reactions \subseteq {"LIKE", "DISLIKE", "LOVE"}   \* LOVE: those without a counter
  /\ IsFiniteSet(Members)
  /\ MaxComments \in Nat /\ MaxTries \in Nat \ {0}

VARIABLES
  post,       \* the counters of the post
  reaction,   \* user -> value of his reaction's row, or "NONE"
  sharedBy,   \* users with a row for their share
  commented,  \* how many comments there are
  claims,     \* how many posts show the image
  edit        \* request -> its transaction

communityVars == <<post, reaction, sharedBy, commented, claims, edit>>

NoEdit == [op |-> "NONE", user |-> "NONE", value |-> "NONE", step |-> "NONE", tries |-> 0,
           old |-> "NONE", stale |-> FALSE]

CommunityInit ==
  /\ post = [likes |-> 0, dislikes |-> 0, comments |-> 0, shares |-> 0]
  /\ reaction = [u \in Members |-> "NONE"]
  /\ sharedBy = {}
  /\ commented = 0
  /\ claims = 0
  /\ edit = [r \in Posters |-> NoEdit]

(* A request comes in: react, comment, share, or create with the image.    *)
EditAsked(r, op, u, value) ==
  /\ edit[r] = NoEdit
  /\ edit' = [edit EXCEPT ![r] = [NoEdit EXCEPT !.op = op, !.user = u, !.value = value,
                                                !.step = "BEGIN"]]
  /\ UNCHANGED <<post, reaction, sharedBy, commented, claims>>

(* The transaction's snapshot: the user's own row, or the image's.         *)
OwnRow(r) ==
  CASE edit[r].op = "REACT"  -> reaction[edit[r].user]
    [] edit[r].op = "SHARE"  -> IF edit[r].user \in sharedBy THEN "ROW" ELSE "NONE"
    [] edit[r].op = "CREATE" -> IF claims > 0 THEN "ROW" ELSE "NONE"
    [] OTHER -> "NONE"

ReadRow(r) ==
  /\ edit[r].step = "BEGIN"
  /\ edit' = [edit EXCEPT ![r].step = "READ", ![r].old = OwnRow(r), ![r].stale = FALSE,
                          ![r].tries = @ + 1]
  /\ UNCHANGED <<post, reaction, sharedBy, commented, claims>>

(* There is nothing to write, or the image is taken.                       *)
NothingToDo(r) ==
  CASE edit[r].op = "REACT" -> edit[r].old = edit[r].value
    [] edit[r].op \in {"SHARE", "CREATE"} -> edit[r].old # "NONE"
    [] OTHER -> FALSE

ReturnAsIs(r) ==
  /\ edit[r].step = "READ" /\ NothingToDo(r)
  /\ edit' = [edit EXCEPT ![r] = NoEdit]
  /\ UNCHANGED <<post, reaction, sharedBy, commented, claims>>

(* All but create write the post's row; a commit makes others stale.       *)
Touches(r) == IF edit[r].op = "CREATE" THEN "IMAGE" ELSE "POST"
EditDone(r) ==
  edit' = [s \in Posters |->
             IF s = r THEN NoEdit
             ELSE IF edit[s].step = "READ" /\ Touches(s) = Touches(r)
             THEN [edit[s] EXCEPT !.stale = TRUE] ELSE edit[s]]

(* Faulty: commits at the default isolation level, over what it read.      *)
SerializesAnything(r) == TRUE

Serializes(r) == ~edit[r].stale

One(condition) == IF condition THEN 1 ELSE 0

MayCommit(r, op) ==
  /\ edit[r].op = op /\ edit[r].step = "READ"
  /\ ~NothingToDo(r) /\ Serializes(r)

CommitReaction(r) ==
  LET e == edit[r]
  IN  /\ MayCommit(r, "REACT")
      /\ reaction' = [reaction EXCEPT ![e.user] = e.value]
      /\ post' = [post EXCEPT
           !.likes = @ + One(e.value = "LIKE") - One(e.old = "LIKE"),
           !.dislikes = @ + One(e.value = "DISLIKE") - One(e.old = "DISLIKE")]
      /\ EditDone(r)
      /\ UNCHANGED <<sharedBy, commented, claims>>

CommitComment(r) ==
  /\ MayCommit(r, "COMMENT") /\ commented < MaxComments
  /\ commented' = commented + 1
  /\ post' = [post EXCEPT !.comments = @ + 1]
  /\ EditDone(r)
  /\ UNCHANGED <<reaction, sharedBy, claims>>

CommitShare(r) ==
  /\ MayCommit(r, "SHARE")
  /\ sharedBy' = sharedBy \cup {edit[r].user}
  /\ post' = [post EXCEPT !.shares = @ + 1]
  /\ EditDone(r)
  /\ UNCHANGED <<reaction, commented, claims>>

(* A post with the image: it claims it.                                    *)
CommitPost(r) ==
  /\ MayCommit(r, "CREATE")
  /\ claims' = claims + 1
  /\ EditDone(r)
  /\ UNCHANGED <<post, reaction, sharedBy, commented>>

(* P2034, in time for another try or not; the database may also see a      *)
(* conflict where there is none.                                           *)
Conflict(r) ==
  /\ edit[r].step = "READ"
  /\ edit' = [edit EXCEPT ![r] = IF @.tries < MaxTries
                                   THEN [@ EXCEPT !.step = "BEGIN", !.old = "NONE",
                                                  !.stale = FALSE]
                                   ELSE NoEdit]
  /\ UNCHANGED <<post, reaction, sharedBy, commented, claims>>

CommunityNext ==
  \E r \in Posters :
    \/ \E u \in Members :
         \/ \E value \in Reactions \cup {"NONE"} : EditAsked(r, "REACT", u, value)
         \/ \E op \in {"COMMENT", "SHARE", "CREATE"} : EditAsked(r, op, u, "NONE")
    \/ ReadRow(r) \/ ReturnAsIs(r) \/ Conflict(r)
    \/ CommitReaction(r) \/ CommitComment(r) \/ CommitShare(r) \/ CommitPost(r)

CommunitySpec == CommunityInit /\ [][CommunityNext]_communityVars

-----------------------------------------------------------------------------
(* However requests of one user or several interleave, a post's counters   *)
(* are the numbers of its rows, and an image is shown by one post.         *)
CountersMatchRows ==
  /\ post.likes = Cardinality({u \in Members : reaction[u] = "LIKE"})
  /\ post.dislikes = Cardinality({u \in Members : reaction[u] = "DISLIKE"})
  /\ post.comments = commented
  /\ post.shares = Cardinality(sharedBy)
  /\ claims <= 1
=============================================================================
