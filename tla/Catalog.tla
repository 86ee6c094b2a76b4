------------------------------- MODULE Catalog -------------------------------
(***************************************************************************)
(* The upstream catalog an airlock process keeps for its policy: what      *)
(* _catalog_tools and _dry_run_property tell _call about one tool, while   *)
(* other calls fetch the same listing and the upstream changes it.  A      *)
(* forced dry run is only safe on a tool that declares the argument: an    *)
(* upstream that ignores it executes for real.                             *)
(*                                                                         *)
(* One tool stands for all of them: they share nothing but the listing.    *)
(***************************************************************************)
EXTENDS Naturals

CONSTANTS
  Calls,      \* tools/call requests that may consult the catalog at once
  None,       \* nobody, never, no page
  Versions,   \* protocol versions a client may speak
  Subjects,   \* principals
  GroupSets,  \* the groups a principal may come with
  Catalogs,   \* [Callers -> Defs]: what the upstream may declare
  TTL,        \* the ttlMs the upstream may give its listing
  MaxPages,   \* pages of a listing the proxy reads
  Slow,       \* bound on the time one fetch takes
  MaxTime     \* bound on the clock

Callers == [ver : Versions, sub : Subjects, groups : GroupSets]

\* What the upstream tells a caller about the tool: not listed, without or
\* with a dry_run argument.
Defs == {"absent", "plain", "dry"}

ASSUME CatalogAssumption ==
  Catalogs # {} /\ Catalogs \subseteq [Callers -> Defs]

ASSUME BoundAssumption ==
  /\ None \notin Nat /\ None \notin Callers /\ None \notin Defs
  /\ TTL \in Nat /\ Slow \in Nat /\ MaxPages \in Nat \ {0} /\ MaxTime \in Nat

VARIABLES
  now,       \* the monotonic clock
  declared,  \* declared[w]: the definition the upstream shows caller w
  lastDry,   \* history: when w was last shown dry_run before the present
  cache,     \* self._catalog, by key
  consult    \* what each call is doing in _dry_run_property

vars == <<now, declared, lastDry, cache, consult>>

\* Variant: the groups are left out of the key.
CacheKeyNoGroups(w) == <<w.ver, w.sub>>

CacheKey(w) == <<w.ver, w.sub, w.groups>>

Keys == {CacheKey(w) : w \in Callers}

\* An expired entry and no entry are the same to every reader.
NoEntry == [exp |-> 0, def |-> "absent"]

Entries == [exp : Nat, def : Defs]

Fresh(e) == e.exp > now

\* def is what the pages have said so far and then the verdict; asked is the
\* start of the fetch; known (history): when the verdict was dry_run, it had
\* lately been declared.
Consults ==
  [pc    : {"new", "page", "told", "denied"},
   who   : Callers \cup {None},
   page  : Defs \cup {None},
   pages : 0 .. MaxPages - 1,
   def   : Defs,
   asked : Nat,
   known : BOOLEAN]

NewConsult ==
  [pc |-> "new", who |-> None, page |-> None, pages |-> 0, def |-> "absent",
   asked |-> 0, known |-> TRUE]

Init ==
  /\ now = 0
  /\ declared \in Catalogs
  /\ lastDry = [w \in Callers |-> None]
  /\ cache = [k \in Keys |-> NoEntry]
  /\ consult = [c \in Calls |-> NewConsult]

\* The upstream showed the argument to this caller, no longer ago than a
\* listing is kept after a fetch.
DeclaredLately(w) ==
  \/ declared[w] = "dry"
  \/ lastDry[w] # None /\ now <= lastDry[w] + TTL + Slow

-----------------------------------------------------------------------------
(* _catalog_tools *)

\* _dry_run_property: the tool's own entry in the listing.
Told(w, def) ==
  [NewConsult EXCEPT !.pc = "told", !.def = def,
                     !.known = def = "dry" => DeclaredLately(w)]

\* A call consults the catalog, in the place of one that is finished: a fresh
\* entry of its own key answers at once, otherwise the first page is asked
\* for.
Consult(c, w) ==
  LET e == cache[CacheKey(w)]
  IN /\ consult[c].pc # "page"
     /\ consult' = [consult EXCEPT ![c] =
          IF Fresh(e) THEN Told(w, e.def)
          ELSE [NewConsult EXCEPT !.pc = "page", !.who = w, !.asked = now]]
     /\ UNCHANGED <<now, declared, lastDry, cache>>

\* The upstream answers a page from what it declares at this moment; the tool
\* is on it or on another one.
ServePage(c) ==
  /\ consult[c].pc = "page" /\ consult[c].page = None
  /\ \E def \in {"absent", declared[consult[c].who]} :
       consult' = [consult EXCEPT ![c].page = def]
  /\ UNCHANGED <<now, declared, lastDry, cache>>

\* tools.update: a later page replaces what an earlier one said of the tool.
Merged(x) == IF x.page = "absent" THEN x.def ELSE x.page

\* The entry of one caller is set, the expired ones of the others go.
Stored(k, def) ==
  [j \in Keys |-> IF j = k THEN [exp |-> now + TTL, def |-> def]
                  ELSE IF Fresh(cache[j]) THEN cache[j] ELSE NoEntry]

\* Variant: one page more than the bound is read.
NextPageMore(c) ==
  LET x == consult[c]
  IN /\ x.pc = "page" /\ x.page # None
     /\ consult' = [consult EXCEPT ![c] =
          IF x.pages < MaxPages
          THEN [x EXCEPT !.page = None, !.pages = @ + 1, !.def = Merged(x)]
          ELSE [NewConsult EXCEPT !.pc = "denied"]]
     /\ UNCHANGED <<now, declared, lastDry, cache>>

\* A page arrives with a cursor: the next one is asked for, or the listing
\* is too long and the call is denied.
NextPage(c) ==
  LET x == consult[c]
  IN /\ x.pc = "page" /\ x.page # None
     /\ consult' = [consult EXCEPT ![c] =
          IF x.pages + 1 < MaxPages
          THEN [x EXCEPT !.page = None, !.pages = @ + 1, !.def = Merged(x)]
          ELSE [NewConsult EXCEPT !.pc = "denied"]]
     /\ UNCHANGED <<now, declared, lastDry, cache>>

\* The last page arrives: the listing is kept for the ttl this page gives, if
\* it gives one, and the call goes on with it.
LastPage(c) ==
  LET x == consult[c]
  IN /\ x.pc = "page" /\ x.page # None
     /\ consult' = [consult EXCEPT ![c] = Told(x.who, Merged(x))]
     /\ \/ cache' = cache
        \/ TTL > 0 /\ cache' = Stored(CacheKey(x.who), Merged(x))
     /\ UNCHANGED <<now, declared, lastDry>>

\* A page that fails, is too large, is not 200 or holds no result.
FailPage(c) ==
  /\ consult[c].pc = "page"
  /\ consult' = [consult EXCEPT ![c] =
       [NewConsult EXCEPT !.pc = "denied"]]
  /\ UNCHANGED <<now, declared, lastDry, cache>>

-----------------------------------------------------------------------------
(* The world around the calls *)

\* The upstream changes what it declares.
Publish ==
  /\ declared' \in Catalogs
  /\ declared' # declared
  /\ lastDry' = [w \in Callers |-> IF declared[w] = "dry" THEN now ELSE lastDry[w]]
  /\ UNCHANGED <<now, cache, consult>>

\* A fetch takes no longer than Slow.
Tick ==
  /\ now < MaxTime
  /\ \A c \in Calls : consult[c].pc = "page" => now < consult[c].asked + Slow
  /\ now' = now + 1
  /\ UNCHANGED <<declared, lastDry, cache, consult>>

Fetch(c) == ServePage(c) \/ NextPage(c) \/ LastPage(c) \/ FailPage(c)

Next ==
  \/ \E c \in Calls : Fetch(c) \/ \E w \in Callers : Consult(c, w)
  \/ Publish \/ Tick

Spec == Init /\ [][Next]_vars

-----------------------------------------------------------------------------
(* Properties *)

\* Every variable has its type.
TypeOK ==
  /\ now \in Nat
  /\ declared \in Catalogs
  /\ lastDry \in [Callers -> Nat \cup {None}]
  /\ cache \in [Keys -> Entries]
  /\ consult \in [Calls -> Consults]

\* A call is told that its tool has a dry_run argument only if the upstream
\* had declared it to this very caller, and lately: within the ttl of a
\* listing and the time its fetch may have taken.  The forced dry run of an
\* L1 or L2 call rests on it.
DryRunWasDeclared ==
  \A c \in Calls : consult[c].def = "dry" /\ consult[c].pc = "told" => consult[c].known
=============================================================================
