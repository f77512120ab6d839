-------------------------------- MODULE Files --------------------------------
(***************************************************************************)
(* The files the workers share: results of the job store, each with a name *)
(* of its own, and the entry of the disk cache that several workers may be *)
(* filling at once.  A put writes a .partial file and renames it; a put of *)
(* the job store then prunes: it lists the results, drops the expired ones *)
(* and the oldest until back under the cap.  A file is its inode here,     *)
(* because a rename moves whatever is being written under the name.        *)
(***************************************************************************)
EXTENDS Integers, FiniteSets, Functions

CONSTANTS
    Jobs,        \* the calls of JobStore.put, which are the names they write
    Updates,     \* the calls of DiskCache.put for one key
    Entry,       \* the name of that key's file
    Workers,     \* how many uvicorn workers there are
    MaxEntries,  \* DEFAULT_MAX_ENTRIES
    MaxCrashes,  \* bound: workers that die in between
    None

FilesAssumption ==
    /\ {Workers, MaxEntries} \subseteq Nat \ {0} /\ MaxCrashes \in Nat
    /\ Jobs \cap Updates = {} /\ IsFiniteSet(Jobs \cup Updates)
    /\ {Entry, None} \cap (Jobs \cup Updates) = {}

VARIABLES
    partial,  \* the inode the .partial of a name refers to, or None
    path,     \* the inode the .json of a name refers to, or None
    content,  \* what an inode holds: the put that wrote it, or what it must not
    clock,    \* the next modification time
    written,  \* when an inode was last written
    expired,  \* the results older than the TTL
    at,       \* where a put is
    inode,    \* the inode it opened
    listed,   \* the results its prune has listed, and then their times
    dropped,  \* auxiliary: the results deleted as too old while fresh
    raced,    \* auxiliary: a listing found a file gone, and pruned nothing
    crashes

disk == <<partial, path, content, clock, written, expired>>
own  == <<at, inode, listed>>
vars == <<disk, own, dropped, raced, crashes>>

-----------------------------------------------------------------------------
Puts  == Jobs \cup Updates
Names == Jobs \cup {Entry}

\* _path: a result has a name of its own, the entry that of its key.
Name(p) == IF p \in Jobs THEN p ELSE Entry

\* What a put writes, told apart by the put.
Dump(p) == p

\* An inode is named for the put that created it.
TypeOK ==
    /\ partial \in [Names -> Puts \cup {None}]
    /\ path \in [Names -> Puts \cup {None}]
    /\ content \in [Puts -> Puts \cup {"nothing", "mixed"}]
    /\ clock \in 1 .. Cardinality(Puts) + 1
    /\ written \in [Puts -> 0 .. Cardinality(Puts)]
    /\ expired \subseteq Jobs
    /\ at \in [Puts -> {"new", "opened", "written", "listing", "sorting",
                        "expiring", "trimming", "done"}]
    /\ inode \in [Puts -> Puts \cup {None}]
    /\ listed \in [Puts -> UNION {[names -> 0 .. Cardinality(Puts)] :
                                   names \in SUBSET Jobs}]
    /\ dropped \subseteq Jobs
    /\ raced \in BOOLEAN
    /\ crashes \in 0 .. MaxCrashes

Results == {n \in Jobs : path[n] # None}
Listed(p) == DOMAIN listed[p]

Nothing == [n \in {} |-> 0]
Goto(p, where) == at' = [at EXCEPT ![p] = where]

\* The results and the cache are two directories that have nothing to do with
\* each other: a behaviour is about one of them.
Init ==
    /\ partial = [n \in Names |-> None] /\ path = [n \in Names |-> None]
    /\ content = [p \in Puts |-> "nothing"]
    /\ clock = 1 /\ written = [p \in Puts |-> 0]
    /\ expired = {}
    /\ \E busy \in {Jobs, Updates} :
          at = [p \in Puts |-> IF p \in busy THEN "new" ELSE "done"]
    /\ inode = [p \in Puts |-> None]
    /\ listed = [p \in Puts |-> Nothing]
    /\ dropped = {} /\ raced = FALSE /\ crashes = 0

-----------------------------------------------------------------------------
(* Write, then rename. *)

\* Mutant: the entry is written in place.
InPlace(p) == IF path[Name(p)] # None THEN path[Name(p)] ELSE p

\* The inode write_text opens: that of the .partial that is there, or a new one.
Opened(p) == IF partial[Name(p)] # None THEN partial[Name(p)] ELSE p

\* A put is synchronous: a worker is in one at a time.
Open(p) ==
    LET i == Opened(p) IN
    /\ at[p] = "new"
    /\ Cardinality({q \in Puts : at[q] \notin {"new", "done"}}) < Workers
    /\ inode' = [inode EXCEPT ![p] = i]
    /\ partial' = [partial EXCEPT ![Name(p)] = i]
    /\ content' = [content EXCEPT ![i] = "nothing"]
    /\ Goto(p, "opened")
    /\ UNCHANGED <<path, clock, written, expired, listed, dropped, raced, crashes>>

\* And writes.  What another put wrote into it since may stick out behind.
Write(p) ==
    LET i == inode[p] IN
    /\ at[p] = "opened"
    /\ \/ content' = [content EXCEPT ![i] = Dump(p)]
       \/ content[i] # "nothing" /\ content' = [content EXCEPT ![i] = "mixed"]
    /\ written' = [written EXCEPT ![i] = clock]
    /\ clock' = clock + 1
    /\ Goto(p, "written")
    /\ UNCHANGED <<partial, path, expired, inode, listed, dropped, raced, crashes>>

\* Path.replace; when the other put has moved the file, an OSError, which the
\* cache swallows.
Rename(p) ==
    /\ at[p] = "written"
    /\ \/ /\ partial[Name(p)] # None
          /\ path' = [path EXCEPT ![Name(p)] = partial[Name(p)]]
          /\ partial' = [partial EXCEPT ![Name(p)] = None]
       \/ partial[Name(p)] = None /\ UNCHANGED <<path, partial>>
    /\ Goto(p, IF p \in Jobs THEN "listing" ELSE "done")
    /\ UNCHANGED <<content, clock, written, expired, inode, listed, dropped,
                   raced, crashes>>

-----------------------------------------------------------------------------
(* JobStore._prune. *)

\* glob
List(p) ==
    /\ at[p] = "listing"
    /\ listed' = [listed EXCEPT ![p] = [n \in Results |-> 0]]
    /\ Goto(p, "sorting")
    /\ UNCHANGED <<disk, inode, dropped, raced, crashes>>

\* stat of each; a file that is gone ends the prune.
Sort(p) ==
    /\ at[p] = "sorting"
    /\ \/ /\ Listed(p) \subseteq Results
          /\ listed' = [listed EXCEPT ![p] = [n \in Listed(p) |-> written[path[n]]]]
          /\ Goto(p, "expiring")
          /\ UNCHANGED raced
       \/ /\ ~(Listed(p) \subseteq Results)
          /\ listed' = [listed EXCEPT ![p] = Nothing]
          /\ Goto(p, "done")
          /\ raced' = TRUE
    /\ UNCHANGED <<disk, inode, dropped, crashes>>

\* Expired results are deleted; a file gone meanwhile counts as expired.
DropExpired(p) ==
    LET old == {n \in Listed(p) : n \in expired \/ path[n] = None} IN
    /\ at[p] = "expiring"
    /\ path' = [n \in Names |-> IF n \in old THEN None ELSE path[n]]
    /\ listed' = [listed EXCEPT ![p] = Restrict(@, Listed(p) \ old)]
    /\ Goto(p, "trimming")
    /\ UNCHANGED <<partial, content, clock, written, expired, inode, dropped,
                   raced, crashes>>

OverCap(p) == Cardinality(Listed(p)) > MaxEntries

\* Mutant: newest first.
Newest(p) == CHOOSE n \in Listed(p) : \A m \in Listed(p) : listed[p][n] >= listed[p][m]

\* The first in the order of the times.
Oldest(p) == CHOOSE n \in Listed(p) : \A m \in Listed(p) : listed[p][n] <= listed[p][m]

\* The oldest is deleted (missing_ok), as long as there are too many.
Trim(p) ==
    /\ at[p] = "trimming" /\ OverCap(p)
    /\ path' = [path EXCEPT ![Oldest(p)] = None]
    /\ dropped' = dropped \cup ({Oldest(p)} \cap (Results \ expired))
    /\ listed' = [listed EXCEPT ![p] = Restrict(@, Listed(p) \ {Oldest(p)})]
    /\ UNCHANGED <<partial, content, clock, written, expired, at, inode, raced,
                   crashes>>

Trimmed(p) ==
    /\ at[p] = "trimming" /\ ~OverCap(p)
    /\ listed' = [listed EXCEPT ![p] = Nothing]
    /\ Goto(p, "done")
    /\ UNCHANGED <<disk, inode, dropped, raced, crashes>>

\* A result reaches the TTL, the older before the newer.
Expire(n) ==
    /\ n \in Results \ expired
    /\ \A m \in Results \ expired : written[path[m]] >= written[path[n]]
    /\ expired' = expired \cup {n}
    /\ UNCHANGED <<partial, path, content, clock, written, own, dropped, raced,
                   crashes>>

\* The worker of a put dies.
Crash(p) ==
    /\ at[p] \notin {"new", "done"}
    /\ crashes < MaxCrashes
    /\ crashes' = crashes + 1
    /\ listed' = [listed EXCEPT ![p] = Nothing]
    /\ Goto(p, "done")
    /\ UNCHANGED <<disk, inode, dropped, raced>>

Next ==
    \/ \E p \in Puts : \/ Open(p) \/ Write(p) \/ Rename(p)
                       \/ List(p) \/ Sort(p) \/ DropExpired(p)
                       \/ Trim(p) \/ Trimmed(p) \/ Crash(p)
    \/ \E n \in Jobs : Expire(n)

Spec == Init /\ [][Next]_vars

-----------------------------------------------------------------------------
(* Properties. *)

\* "a reader in another worker never sees a half-written file": under its name
\* a result is always the whole of what was put, whoever is writing or died.
ResultsAreWhole ==
    \A n \in Jobs : path[Name(n)] # None => content[path[Name(n)]] = n

\* _prune never deletes somebody's result for being old while fewer than
\* MaxEntries newer ones have been put, however prunes and puts overlap.
NewestAreKept ==
    \A n \in dropped :
        Cardinality({m \in Jobs : written[m] > written[n]}) >= MaxEntries

\* The directory is capped: once every put has returned, it holds more fresh
\* results than the cap only if a prune was given up, for a file another prune
\* deleted under it or a worker that died.
CapIsKept ==
    /\ \A p \in Jobs : at[p] \in {"new", "done"}
    /\ ~raced /\ crashes = 0
    => Cardinality(Results \ expired) <= MaxEntries

\* The entry of the cache is the whole of what one put wrote, unless two puts
\* had the same .partial file open: a put that dies or is alone never leaves a
\* half-written entry.
EntryIsWhole ==
    path[Entry] # None /\ content[path[Entry]] \notin Updates
        => \E u, v \in Updates : u # v /\ inode[u] = inode[v] /\ inode[u] # None
=============================================================================
