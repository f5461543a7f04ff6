------------------------------ MODULE Platform ------------------------------
(***************************************************************************)
(* The platform's settings and its welcome page.                           *)
(*                                                                         *)
(* Every server keeps the settings of the database (the system configs, or *)
(* the feature flags: both are kept alike) in a cache of its own, for a    *)
(* time to live; an update clears the cache of the server that makes it.   *)
(* Clients keep what they were served with its ETag, which is derived from *)
(* the rows.  The welcome page is one row made when it is first asked for, *)
(* with a background image in the object store.                            *)
(*                                                                         *)
(* The rows' contents are counted: an update makes version n + 1 of n.     *)
(***************************************************************************)
EXTENDS Integers, FiniteSets

CONSTANTS Servers,   \* processes with a cache each
          Servings,  \* requests being served at the same time
          MaxChanges \* bound on updates, on expiries and on welcome requests

ASSUME PlatformAssumption == MaxChanges \in Nat

VARIABLES settings, \* the version of the rows
          cache,    \* [Servers -> Nat \cup {None}]: what is kept; None if cleared
          expired,  \* servers whose cache is older than its time to live
          client,   \* what a client keeps: [payload, etag : Nat]
          welcome,  \* [row ids -> the file shown, 0 for none], of the rows that exist
          images,   \* files in the object store; they are numbered
          serving,  \* [Servings -> ServingState] (volatile)
          changes,
          behind,   \* history: servers that may keep an older version
          ripped,   \* history: requests whose cache was replaced between their reads
          misled,   \* history: the client was served by a torn request
          twice     \* history: two requests for the welcome page at once

pageVars == <<welcome, images>>
platformVars == <<settings, cache, expired, client, pageVars, serving, changes,
                  behind, ripped, misled, twice>>

None == -1
Ready == [pc |-> "ready"]
ServingState ==
  {Ready}
    \cup [pc : {"load"}, server : Servers, rows : Nat, then : {"use", "show", "tag"},
          payload : Nat]
    \cup [pc : {"version"}, server : Servers, payload : Nat]
    \cup [pc : {"updated"}, server : Servers]
    \cup [pc : {"make"}]
    \cup [pc : {"page"}, id : Nat, old : Nat]
    \cup [pc : {"write"}, id : Nat, file : Nat]

PlatformTypeOK ==
  /\ settings \in 0..MaxChanges
  /\ cache \in [Servers -> Nat \cup {None}] /\ expired \subseteq Servers
  /\ client \in [payload : Nat, etag : Nat]
  /\ DOMAIN welcome \subseteq Nat /\ \A i \in DOMAIN welcome : welcome[i] \in Nat
  /\ images \subseteq Nat
  /\ serving \in [Servings -> ServingState] /\ changes \in 0..MaxChanges
  /\ behind \subseteq Servers /\ ripped \subseteq Servings
  /\ misled \in BOOLEAN /\ twice \in BOOLEAN

PlatformInit ==
  /\ settings = 0
  /\ cache = [s \in Servers |-> None] /\ expired = {}
  /\ client = [payload |-> 0, etag |-> 0]
  /\ welcome = [i \in {} |-> 0] /\ images = {}
  /\ serving = [r \in Servings |-> Ready] /\ changes = 0
  /\ behind = {} /\ ripped = {} /\ misled = FALSE /\ twice = FALSE

Change == changes < MaxChanges /\ changes' = changes + 1
Serves(r, pc) == serving[r].pc = pc
Turns(r, x) == serving' = [serving EXCEPT ![r] = x]

----------------------------------------------------------------------------
(* SystemConfigRepository *)

Kept(s) == cache[s] # None /\ s \notin expired
\* The rows are read; they are kept a step later.
Loading(s, then, payload) ==
  [pc |-> "load", server |-> s, rows |-> settings, then |-> then, payload |-> payload]

\* SystemConfigService and FeatureFlagsService: one value is asked for.
AskValue(r, s) ==
  /\ Serves(r, "ready") /\ ~Kept(s)
  /\ Turns(r, Loading(s, "use", 0))
  /\ UNCHANGED <<settings, cache, expired, client, pageVars, changes, behind, ripped, misled, twice>>

Outdated(r, s) ==
  \E q \in Servings \ {r} :
    Serves(q, "load") /\ serving[q].server = s /\ serving[q].rows < settings

\* What was read is kept, whatever was cleared or kept in the meantime.
Keep(r) ==
  LET s == serving[r].server  rows == serving[r].rows
  IN /\ cache' = [cache EXCEPT ![s] = rows] /\ expired' = expired \ {s}
     /\ behind' = IF rows = settings /\ ~Outdated(r, s) THEN behind \ {s} ELSE behind
     /\ ripped' = ripped \cup {q \in Servings \ {r} :
                             Serves(q, "version") /\ serving[q].server = s}

Used(r) ==
  /\ Serves(r, "load") /\ serving[r].then = "use" /\ Keep(r) /\ Turns(r, Ready)
  /\ UNCHANGED <<settings, client, pageVars, changes, misled, twice>>

\* The cache is older than its time to live.
Expire(s) ==
  /\ Kept(s) /\ expired' = expired \cup {s}
  /\ ripped' = ripped \cup {q \in Servings : Serves(q, "version") /\ serving[q].server = s}
  /\ UNCHANGED <<settings, cache, client, pageVars, serving, changes, behind, misled, twice>>

----------------------------------------------------------------------------
(* ConfigController and FlagsController *)

\* show: first the values, ...
ShowPublic(r, s) ==
  /\ Serves(r, "ready")
  /\ IF Kept(s) THEN Turns(r, [pc |-> "version", server |-> s, payload |-> cache[s]])
     ELSE Turns(r, Loading(s, "show", 0))
  /\ ripped' = ripped \ {r}
  /\ UNCHANGED <<settings, cache, expired, client, pageVars, changes, behind, misled, twice>>

ShowLoaded(r) ==
  /\ Serves(r, "load") /\ serving[r].then = "show" /\ Keep(r)
  /\ Turns(r, [pc |-> "version", server |-> serving[r].server, payload |-> serving[r].rows])
  /\ UNCHANGED <<settings, client, pageVars, changes, misled, twice>>

\* Not modified, or both payload and tag.
Reply(r, payload, etag) ==
  IF client.etag = etag THEN UNCHANGED <<client, misled>>
  ELSE /\ client' = [payload |-> payload, etag |-> etag]
       /\ misled' = (r \in ripped)

\* ... then their version, from the cache as it is by then.
Tag(r) ==
  LET s == serving[r].server
  IN /\ Serves(r, "version")
     /\ IF Kept(s) THEN Reply(r, serving[r].payload, cache[s]) /\ Turns(r, Ready)
        ELSE Turns(r, Loading(s, "tag", serving[r].payload)) /\ UNCHANGED <<client, misled>>
     /\ UNCHANGED <<settings, cache, expired, pageVars, changes, behind, ripped, twice>>

Tagged(r) ==
  /\ Serves(r, "load") /\ serving[r].then = "tag" /\ Keep(r)
  /\ Reply(r, serving[r].payload, serving[r].rows) /\ Turns(r, Ready)
  /\ UNCHANGED <<settings, pageVars, changes, twice>>

----------------------------------------------------------------------------
(* SettingsService *)

\* updateFlag, updateConfig and resetConfig: the row is written, ...
UpdateSettings(r, s) ==
  /\ Serves(r, "ready") /\ Change
  /\ settings' = settings + 1
  /\ behind' = Servers
  /\ Turns(r, [pc |-> "updated", server |-> s])
  /\ UNCHANGED <<cache, expired, client, pageVars, ripped, misled, twice>>

\* Mutant of Invalidate: the cache is left to its time to live.
InvalidateNothing(r) ==
  LET s == serving[r].server
      loading == \E q \in Servings : Serves(q, "load") /\ serving[q].server = s
  IN /\ Serves(r, "updated") /\ Turns(r, Ready)
     /\ behind' = IF loading THEN behind ELSE behind \ {s}
     /\ UNCHANGED <<settings, cache, expired, client, pageVars, changes, ripped, misled, twice>>
\* ... then the cache of this server is cleared; a load on its way is not.
Invalidate(r) ==
  LET s == serving[r].server
      loading == \E q \in Servings : Serves(q, "load") /\ serving[q].server = s
  IN /\ Serves(r, "updated") /\ Turns(r, Ready)
     /\ cache' = [cache EXCEPT ![s] = None] /\ expired' = expired \ {s}
     /\ behind' = IF loading THEN behind ELSE behind \ {s}
     /\ ripped' = ripped \cup {q \in Servings : Serves(q, "version") /\ serving[q].server = s}
     /\ UNCHANGED <<settings, client, pageVars, changes, misled, twice>>

----------------------------------------------------------------------------
(* WelcomeService and AdminWelcomeController *)

OnPage(q) == serving[q].pc \in {"make", "page", "write"}
Crowd(r) == twice' = (twice \/ \E q \in Servings \ {r} : OnPage(q))
FirstRow == CHOOSE i \in DOMAIN welcome : \A k \in DOMAIN welcome : i <= k
NewFile == changes + 1

\* content: the first row, or none yet.
Welcome(r) ==
  /\ Serves(r, "ready") /\ Change /\ Crowd(r)
  /\ Turns(r, IF DOMAIN welcome = {} THEN [pc |-> "make"]
              ELSE [pc |-> "page", id |-> FirstRow, old |-> welcome[FirstRow]])
  /\ UNCHANGED <<settings, cache, expired, client, pageVars, behind, ripped, misled>>

MakeWelcome(r) ==
  LET id == Cardinality(DOMAIN welcome) + 1
  IN /\ Serves(r, "make")
     /\ welcome' = [i \in DOMAIN welcome \cup {id} |-> IF i = id THEN 0 ELSE welcome[i]]
     /\ Turns(r, [pc |-> "page", id |-> id, old |-> 0])
     /\ UNCHANGED <<settings, cache, expired, client, images, changes, behind, ripped, misled, twice>>

\* It is only shown; or the new image is stored and the one shown is deleted, ...
ShowWelcome(r) ==
  /\ Serves(r, "page") /\ Turns(r, Ready)
  /\ UNCHANGED <<settings, cache, expired, client, pageVars, changes, behind, ripped, misled, twice>>

StoreBackground(r) ==
  LET t == serving[r]
  IN /\ Serves(r, "page") /\ Change
     /\ images' = (images \cup {NewFile}) \ {t.old}
     /\ Turns(r, [pc |-> "write", id |-> t.id, file |-> NewFile])
     /\ UNCHANGED <<settings, cache, expired, client, welcome, behind, ripped, misled, twice>>

RemoveBackground(r) ==
  LET t == serving[r]
  IN /\ Serves(r, "page")
     /\ images' = images \ {t.old}
     /\ Turns(r, [pc |-> "write", id |-> t.id, file |-> 0])
     /\ UNCHANGED <<settings, cache, expired, client, welcome, changes, behind, ripped, misled, twice>>

\* ... and the row, asked for again, is written.
WriteWelcome(r) ==
  LET t == serving[r]
  IN /\ Serves(r, "write") /\ Turns(r, Ready)
     /\ welcome' = [welcome EXCEPT ![FirstRow] = t.file]
     /\ UNCHANGED <<settings, cache, expired, client, images, changes, behind, ripped, misled, twice>>

----------------------------------------------------------------------------
(* The routes *)

SettingsControllers(r, s) == AskValue(r, s) \/ ShowPublic(r, s) \/ UpdateSettings(r, s)
WelcomeControllers(r) ==
  \/ Welcome(r) \/ MakeWelcome(r) \/ ShowWelcome(r)
  \/ StoreBackground(r) \/ RemoveBackground(r) \/ WriteWelcome(r)

PlatformNext ==
  \/ \E r \in Servings, s \in Servers : SettingsControllers(r, s)
  \/ \E r \in Servings :
       \/ Used(r) \/ ShowLoaded(r) \/ Tag(r) \/ Tagged(r) \/ Invalidate(r)
       \/ WelcomeControllers(r)
  \/ \E s \in Servers : Expire(s)

PlatformSpec == PlatformInit /\ [][PlatformNext]_platformVars

----------------------------------------------------------------------------
(* Properties *)

\* A server serves an old version of the settings only if it was not the last
\* to change them, or loaded them while it did, and for no longer than the
\* time to live.
CacheExplained == \A s \in Servers \ behind : Kept(s) => cache[s] = settings

\* What a client keeps is what its tag says, unless the cache was replaced
\* between the two reads of the request that served it.
EtagHonest == misled \/ client.payload = client.etag

\* The welcome page has one row, and shows an image that is there, unless two
\* requests are at it at once, or one is between the image and the row.
WelcomeShown ==
  \/ twice
  \/ \E r \in Servings : Serves(r, "write")
  \/ /\ Cardinality(DOMAIN welcome) <= 1
     /\ images = {welcome[i] : i \in DOMAIN welcome} \ {0}

\* What is served is what is stored.
ServedExplained == CacheExplained /\ EtagHonest /\ WelcomeShown
=============================================================================
