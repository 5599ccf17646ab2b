------------------------------ MODULE MCServices ------------------------------
(* Services that callers reach through one tool call each, side by side. They *)
(* share no state of the model, so one run explores them one at a time: part  *)
(* is chosen at the start and never changes, only that service moves, and the *)
(* others stay where they begin. Each has its module's own initial states and *)
(* steps; nothing here is about what must happen, so no fairness is assumed.  *)
EXTENDS Entities, AutoWire, EnvOps, NamedCopies, Digest, ContextPack, Listing, Answers

VARIABLE part
servicesVars == <<part, entVars, wireVars, envVars, copyVars, searchVars, digestVars,
                  packVars, listingVars, reportVars, relatedVars>>

Services == {"entities", "wiring", "envs", "copies", "search", "digests", "packs",
             "lists", "reports", "related"}

ServicesInit ==
    /\ part \in Services
    /\ EntInit /\ WireInit /\ EnvInit /\ CopyInit /\ SearchInit /\ DigestInit
    /\ PackInit /\ ListingInit /\ ReportsInit /\ RelatedInit
    \* where one begins is open only where it is the one that moves
    /\ part # "copies" =>
          /\ DOMAIN source = {} /\ DOMAIN alias = {}
          /\ [i \in Natives |-> entity[i].name]
                = CHOOSE f \in [Natives -> EntityNames] : IsInjective(f)
    /\ part # "reports" => arcs = {}

(* What only one service does: the others stay as they are.                   *)
OnlyEntities ==
    /\ part = "entities"
    /\ UNCHANGED <<part, wireVars, envVars, copyVars, searchVars, digestVars, packVars,
                  listingVars, reportVars, relatedVars>>
OnlyWiring ==
    /\ part = "wiring"
    /\ UNCHANGED <<part, entVars, envVars, copyVars, searchVars, digestVars, packVars,
                  listingVars, reportVars, relatedVars>>
OnlyEnvs ==
    /\ part = "envs"
    /\ UNCHANGED <<part, entVars, wireVars, copyVars, searchVars, digestVars, packVars,
                  listingVars, reportVars, relatedVars>>
OnlyCopies ==
    /\ part = "copies"
    /\ UNCHANGED <<part, entVars, wireVars, envVars, searchVars, digestVars, packVars,
                  listingVars, reportVars, relatedVars>>
OnlySearch ==
    /\ part = "search"
    /\ UNCHANGED <<part, entVars, wireVars, envVars, copyVars, digestVars, packVars,
                  listingVars, reportVars, relatedVars>>
OnlyDigests ==
    /\ part = "digests"
    /\ UNCHANGED <<part, entVars, wireVars, envVars, copyVars, searchVars, packVars,
                  listingVars, reportVars, relatedVars>>
OnlyPacks ==
    /\ part = "packs"
    /\ UNCHANGED <<part, entVars, wireVars, envVars, copyVars, searchVars, digestVars,
                  listingVars, reportVars, relatedVars>>
OnlyLists ==
    /\ part = "lists"
    /\ UNCHANGED <<part, entVars, wireVars, envVars, copyVars, searchVars, digestVars,
                  packVars, reportVars, relatedVars>>
OnlyReports ==
    /\ part = "reports"
    /\ UNCHANGED <<part, entVars, wireVars, envVars, copyVars, searchVars, digestVars,
                  packVars, listingVars, relatedVars>>
OnlyRelated ==
    /\ part = "related"
    /\ UNCHANGED <<part, entVars, wireVars, envVars, copyVars, searchVars, digestVars,
                  packVars, listingVars, reportVars>>

ServicesNext ==
    \/ OnlyEntities /\ EntNext
    \/ OnlyWiring /\ WireNext
    \/ OnlyEnvs /\ EnvNext
    \/ OnlyCopies /\ CopyNext
    \/ OnlySearch /\ SearchNext
    \/ OnlyDigests /\ DigestNext
    \/ OnlyPacks /\ PackNext
    \/ OnlyLists /\ ListingNext
    \/ OnlyReports /\ ReportsNext
    \/ OnlyRelated /\ RelatedNext

ServicesSpec == ServicesInit /\ [][ServicesNext]_servicesVars

-------------------------------------------------------------------------------
(* The constants of the run *)

WireSalience == [m \in Neighbours |-> IF m = 3 THEN 2 ELSE 1]
WireSimilarity == [c \in Pieces |-> [m \in Neighbours |-> IF c = 1 THEN m ELSE 6 - m]]

CopiedNames == <<"x", "y">>

SearchFor(mode, other) ==
    other @@ [mode |-> mode, envs |-> {"e"}, kind |-> "any", stale |-> FALSE,
              archived |-> FALSE, retired |-> FALSE, follow |-> TRUE, limit |-> 1,
              fallback |-> FALSE, expansion |-> "none", min |-> 0, ids |-> <<>>]
SearchQueries == {
    SearchFor("lex",    [fallback |-> TRUE, kind |-> "fact"]),
    SearchFor("hybrid", [expansion |-> "broad"]),
    SearchFor("hybrid", [limit |-> 2, retired |-> TRUE, envs |-> {"e", "f"}]),
    SearchFor("sem",    [expansion |-> "narrow"]),
    SearchFor("graph",  [limit |-> 2]),
    SearchFor("id",     [ids |-> <<2, 1, 3>>, limit |-> 2])}
SearchEnvs == <<"e", "e", "e", "f">>
SearchKinds == <<"fact", "fact", "other", "fact">>
ByText == <<1, 2, 3>>
ByVector == <<2, 1, 4>>
ByGraph == <<3, 1>>

NoteKinds == <<"digest", "decision", "decision", "journal", "playbook", "fact", "digest">>
NoteTitles == [m \in 1..7 \cup {100} |-> 2]
NoteBodies == <<500, 40, 90, 3, 20, 60, 30>>
PackTasks == <<100>>
PackTriggers == <<4, 2, 5>>
PackPlaybooks == <<5, 6>>
PackTopK == [n \in ToSet(Order) |-> 2]

ListFilters == [f |-> {1, 2, 3}, g |-> {2, 3}]

TreeArcs == {<<1, 2>>, <<2, 3>>, <<1, 3>>, <<3, 4>>, <<2, 4>>, <<3, 1>>}

KinNearness == [m \in Kin |-> [x \in Kin |-> IF m = x THEN 9 ELSE IF x < m THEN x ELSE 6 - x]]
KinAsks == {[seed |-> s, limit |-> l, floor |-> f, fallback |-> TRUE] :
                s \in {1, 3}, l \in {1, 2}, f \in {0, 3}}
           \cup {[seed |-> 2, limit |-> 1, floor |-> 0, fallback |-> FALSE]}
===============================================================================
