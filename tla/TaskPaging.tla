----------------------------- MODULE TaskPaging -----------------------------
(***************************************************************************)
(* GET /tasks page by page: newest first by (created_at, id), each page    *)
(* read from the cursor the one before returned, while tasks are created,  *)
(* changed and deleted between the pages. created_at has milliseconds, so  *)
(* tasks can tie; a client may begin with a cursor of the older format,    *)
(* which carries a date and no id.                                         *)
(***************************************************************************)
EXTENDS Naturals, Sequences, FiniteSets

CONSTANTS
  Tasks,      \* ids of tasks, which the database orders
  MaxTime,    \* bound: the clock
  PageLimits, \* values of limit a client may ask for
  NoId        \* the id of a cursor that has none

ASSUME PagingAssumption ==
  /\ Tasks \subseteq Nat
  /\ IsFiniteSet(Tasks)
  /\ MaxTime \in Nat \ {0}
  /\ PageLimits \subseteq Nat \ {0}
  /\ NoId \notin Tasks

VARIABLES
  clock,    \* the clock of created_at
  row,      \* each task's row: not there, being inserted, committed or deleted
  at,       \* created_at
  matches,  \* tasks that meet the filters of the listing
  listing,  \* "off", "on", or "end" after a page without nextCursor
  first,    \* the cursor the client began with
  cursor,   \* the cursor of the next page
  pages,    \* the pages returned
  steady    \* history: tasks listed and matching ever since the first page was asked for

taskVars    == <<clock, row, at, matches>>
listingVars == <<listing, first, cursor, pages>>
pagingVars == <<taskVars, listingVars, steady>>

Dates == 1 .. MaxTime

\* No cursor at all is a date after every other.
Start == [at |-> MaxTime + 1, id |-> NoId]
Cursors == [at : 1 .. MaxTime + 1, id : Tasks \cup {NoId}]

PagingTypeOK ==
  /\ clock \in Dates
  /\ row \in [Tasks -> {"none", "inserting", "live", "deleted"}]
  /\ at \in [Tasks -> Dates]
  /\ matches \subseteq Tasks
  /\ listing \in {"off", "on", "end"}
  /\ first \in Cursors
  /\ cursor \in Cursors
  /\ pages \in Seq(SUBSET Tasks)
  /\ steady \subseteq Tasks

PagingInit ==
  /\ clock = 1
  /\ row \in [Tasks -> {"none", "live"}]
  /\ at = [t \in Tasks |-> 1]
  /\ matches = {t \in Tasks : row[t] = "live"}
  /\ listing = "off"
  /\ first = Start
  /\ cursor = Start
  /\ pages = <<>>
  /\ steady = {}

-----------------------------------------------------------------------------
(* Writers. *)

Tick ==
  /\ clock < MaxTime
  /\ clock' = clock + 1
  /\ UNCHANGED <<row, at, matches, listingVars, steady>>

\* createTask fixes created_at when the insert begins; it is seen later.
CreateTask(t) ==
  /\ row[t] = "none"
  /\ row' = [row EXCEPT ![t] = "inserting"]
  /\ at' = [at EXCEPT ![t] = clock]
  /\ matches' = matches \cup {t}
  /\ UNCHANGED <<clock, listingVars, steady>>

CreateCommits(t) ==
  /\ row[t] = "inserting"
  /\ row' = [row EXCEPT ![t] = "live"]
  /\ UNCHANGED <<clock, at, matches, listingVars, steady>>

\* A PATCH, a taken slot or the expiry sweep moves a task into the filters or
\* out of them. Nothing writes created_at again.
UpdateTask(t) ==
  /\ row[t] = "live"
  /\ matches' = IF t \in matches THEN matches \ {t} ELSE matches \cup {t}
  /\ steady' = steady \ {t}
  /\ UNCHANGED <<clock, row, at, listingVars>>

DeleteTask(t) ==
  /\ row[t] = "live"
  /\ row' = [row EXCEPT ![t] = "deleted"]
  /\ steady' = steady \ {t}
  /\ UNCHANGED <<clock, at, matches, listingVars>>

-----------------------------------------------------------------------------
(* listTasks. *)

\* orderBy: t comes before u.
Before(t, u) == at[t] > at[u] \/ (at[t] = at[u] /\ t > u)

\* Mutant: the date alone is compared.
BeyondDate(c, t) == at[t] < c.at

\* Mutant: the row of the cursor counts as after it.
BeyondOrAt(c, t) == at[t] < c.at \/ (c.id # NoId /\ at[t] = c.at /\ t <= c.id)

\* The where clause of a cursor, composite or bare date.
Beyond(c, t) == at[t] < c.at \/ (c.id # NoId /\ at[t] = c.at /\ t < c.id)

Listed == {t \in matches : row[t] = "live"}

\* The n rows of S that come first.
Take(S, n) == {t \in S : Cardinality({u \in S : Before(u, t)}) < n}

\* The first page is asked for, with no cursor or one of the older format.
BeginListing ==
  /\ listing = "off"
  /\ listing' = "on"
  /\ \E d \in Dates \cup {MaxTime + 1} : first' = [at |-> d, id |-> NoId]
  /\ cursor' = first'
  /\ steady' = Listed
  /\ UNCHANGED <<taskVars, pages>>

\* One more row than the page holds is read, to see whether there is one.
ReadPage(limit) ==
  LET found == Take({t \in Listed : Beyond(cursor, t)}, limit + 1)
      more  == Cardinality(found) > limit
      items == IF more THEN Take(found, limit) ELSE found
      last  == CHOOSE t \in items : \A u \in items \ {t} : Before(u, t)
  IN
  /\ listing = "on"
  /\ pages' = Append(pages, items)
  /\ IF more
     THEN cursor' = [at |-> at[last], id |-> last] /\ UNCHANGED listing
     ELSE listing' = "end" /\ UNCHANGED cursor
  /\ UNCHANGED <<taskVars, first, steady>>

PagingNext ==
  \/ Tick
  \/ \E t \in Tasks : CreateTask(t) \/ CreateCommits(t) \/ UpdateTask(t) \/ DeleteTask(t)
  \/ BeginListing
  \/ \E limit \in PageLimits : ReadPage(limit)

PagingSpec == PagingInit /\ [][PagingNext]_pagingVars

-----------------------------------------------------------------------------
(* Properties *)

\* Whatever is written between two pages, a later page holds only tasks that
\* come after those of the earlier pages: no task is returned twice, ties in
\* created_at included.
PagesDescend ==
  \A i, j \in DOMAIN pages : i < j =>
    \A t \in pages[i], u \in pages[j] : Before(t, u)

\* No task is passed over that was listed when the first page was asked for
\* and matched throughout: it was returned, or it is still to come. Only the
\* ties of a bare date the client began with may be missing.
NothingSkipped ==
  \A t \in steady : Beyond(first, t) =>
    t \in UNION {pages[i] : i \in DOMAIN pages} \/ (listing = "on" /\ Beyond(cursor, t))

=============================================================================
