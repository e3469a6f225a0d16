------------------------------ MODULE DataRules ------------------------------
(***************************************************************************)
(* All that is read from the data and computed from it, and the            *)
(* publication of the database it is read from: a behaviour draws one case *)
(* of one kind, or is one history of the publication.                      *)
(***************************************************************************)
EXTENDS ExplorationRules, CustomerEvents, DatabasePublication

CONSTANTS
  Missing, KeyOrder, RefOrder, Manifests, CustomerCounts, Starts, TopicWindow, EventLists, StepChains,   \* AnalyticsRules
  ReadLimit, AllSources, Readings, Asks,                                                               \* RiskRules
  Bad, PageMax, LegacyMax, HardMax, TopicsMax, Truthy, Falsy, Digits, Numbers, Adapters, Scopes, Reads    \* SourceRules

ASSUME BoundsAssumption ==
  /\ {ReadLimit, PageMax, LegacyMax, HardMax, TopicsMax} \subseteq Nat \ {0}
  /\ Digits \subseteq Numbers /\ Truthy \cap Falsy = {}

Analyses == INSTANCE AnalyticsRules
Risks == INSTANCE RiskRules WITH None <- Null
Sources == INSTANCE SourceRules

\* A manifest keeps its own contract, and so does the mapping of a table.
ASSUME AdaptersAssumption ==
  \A adapters \in Adapters : \A a \in ToSet(adapters) :
    \/ a.kind = "database" /\ Sources!PolicyConsistent(a.manifest)
    \/ /\ a.kind = "table" /\ a.rows \in Seq(ToSet(a.rows))
       /\ DOMAIN a.spec.dimensions \cap DOMAIN a.spec.measures = {}
       /\ \A m \in DOMAIN a.spec.measures : a.spec.measures[m].semantic \in {"integer", "number"}
       /\ \A row \in ToSet(a.rows) : row.at # Null /\ row.at.form = "moment" => row.at.text \in Nat

DataInit ==
  /\ PubInit
  /\ \/ input = [kind |-> "publication", case |-> Null]
     \/ disk.dest = NoFile /\ \E kind \in {"steps", "risk", "sources"} : input = [kind |-> kind, case |-> Null]
     \/ disk.dest = NoFile /\ Init

Draws == DrawQuery \/ DrawPages \/ DrawEdges \/ DrawSpread \/ Analyses!DrawSteps \/ Risks!DrawRisk \/ Sources!DrawSources

DataNext ==
  \/ Draws /\ UNCHANGED pubvars
  \/ input.kind = "publication" /\ PubNext /\ UNCHANGED input

DataSpec == DataInit /\ [][DataNext]_<<vars, pubvars>>

-----------------------------------------------------------------------------
\* What the Tools let in from a source and what of it they show, and how a table becomes
\* a source.
InputsAsDefined == PagesAsDefined /\ On("sources", Sources!MappingsSound)

\* A source's pages and bounded reads are all it has. A Fact is what its primitive promises
\* of the events and of the Facts it was given, and nothing a primitive computes is lost to
\* a contract, except where it is known; the fixed analysis finds the customers at risk.
FactsAsDefined ==
  On("sources", Sources!ReadsSound) /\ On("steps", Analyses!ChainSound) /\ On("risk", Risks!RiskSound)
=============================================================================
