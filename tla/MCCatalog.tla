------------------------------- MODULE MCCatalog -------------------------------
(* Small instances for TLC of the catalog and of four pages that call the API   *)
(* one operation at a time: the playground, the serializer lab, the error        *)
(* catalogue and the stampede lab.  A behaviour is of one of the five; the others *)
(* stand still.                                                                  *)
EXTENDS Catalog, Playground, SerializerLab, ErrorLab, StampedeLab, TLC

CONSTANTS c1, c2, p1, p2, raises, corrupt, serialize, cluster, simulate, id, odd

TwoCallers == {c1, c2}
TwoProducts == {p1, p2}
OneRow == {p1}
Symmetric == Permutations(TwoCallers)

\* A code of each kind.
CodePerWay == {raises, corrupt, serialize, cluster, simulate}
WayOf == raises :> "raises" @@ corrupt :> "corrupt" @@ serialize :> "serialize"
           @@ cluster :> "cluster" @@ simulate :> "simulate"

VARIABLE scene
catalogVars == <<vars, playVars, serializerVars, errorVars, labVars, scene>>

CatalogInit ==
  /\ scene \in {"catalog", "play", "serializer", "errors", "stampede"}
  /\ Init /\ PlayInit /\ SerializerInit /\ ErrorInit /\ LabInit
  \* One initial state of the parts that stand still.
  /\ scene # "play" => kindOf = [c \in Card |-> "set"]

CatalogNext ==
  /\ UNCHANGED scene
  /\ \/ scene = "catalog" /\ Next /\ UNCHANGED <<playVars, serializerVars, errorVars, labVars>>
     \/ scene = "play" /\ PlayNext /\ UNCHANGED <<vars, serializerVars, errorVars, labVars>>
     \/ scene = "serializer" /\ SerializerNext /\ UNCHANGED <<vars, playVars, errorVars, labVars>>
     \/ scene = "errors" /\ ErrorNext /\ UNCHANGED <<vars, playVars, serializerVars, labVars>>
     \/ scene = "stampede" /\ LabNext /\ UNCHANGED <<vars, playVars, serializerVars, errorVars>>

CatalogSpec == CatalogInit /\ [][CatalogNext]_catalogVars

\* The states of the page under way, or of the catalog, stay in their ranges.
CatalogTypeOK ==
  /\ scene = "catalog" => TypeOK
  /\ scene = "play" => PlayTypeOK
  /\ scene = "serializer" => SerializerTypeOK
  /\ scene = "errors" => ErrorTypeOK
  /\ scene = "stampede" => LabTypeOK

\* SerializerView.tsx, ErrorsView.tsx, use-playground-op.ts: no page shows what
\* belongs to another request: not a run that overlapped, not a code that was
\* triggered before, not an older operation of the card.
ViewsShowTheirOwn == RoundTripWhole /\ ResponseOfSelected /\ CardShowsNewest

\* counters.service.ts, collections.service.ts, StampedeView.tsx: the numbers of an
\* answer agree with what was done: counters and tags with the commands before them,
\* the roll-up of a burst with the contenders its button announced.
NumbersAddUp == AnswersAddUp /\ BurstAddsUp
=============================================================================
