------------------------------- MODULE Relations -------------------------------
(***************************************************************************)
(* The register of entity relations: the procedures of СвязиСущностей as   *)
(* sessions run them, one query or write at a time and without locks, the  *)
(* standard forms of the register, the entities and the types, and the     *)
(* list get_relations builds.                                              *)
(***************************************************************************)
EXTENDS Naturals, FiniteSets, Functions

CONSTANTS
  Sessions,      \* sessions that call the module
  Campaigns,     \* the campaigns
  Entities,      \* the entities of all campaigns
  Types,         \* the relation types
  Comments,      \* comments of relations
  Asked,         \* bound: the keys that callers and users name
  Markable,      \* bound: the entities that get a deletion mark
  Movable,       \* bound: the entities that are given to another campaign
  Switchable,    \* bound: the types whose Симметричная is set or cleared
  None           \* Неопределено

\* The dimensions of the register.
Key == [campaign : Campaigns, source : Entities, type : Types, target : Entities]

ASSUME BoundsAssumption ==
  /\ Asked \subseteq Key
  /\ Markable \subseteq Entities /\ Movable \subseteq Entities /\ Switchable \subseteq Types

VARIABLES
  register,  \* comments by key
  marked,    \* entities marked for deletion
  home,      \* the campaign that owns each entity, its Владелец
  symmetric, \* the types with the attribute Симметричная
  call,      \* what each session is doing
  disturbed, \* history: two calls overlapped, or a form changed the register
             \* or the meaning of a type
  moved      \* history: entities moved while the calls in progress ran

catalogs == <<marked, home, symmetric>>
vars == <<register, catalogs, call, disturbed, moved>>

Idle == [pc |-> "idle"]

Init ==
  /\ register = <<>> /\ marked = {} /\ disturbed = FALSE /\ moved = {}
  /\ home \in [Entities -> Campaigns] /\ symmetric \in SUBSET Types
  /\ call = [s \in Sessions |-> Idle]

\* A call: its arguments, the key it is about, whether РеквизитыТипаСвязи called
\* the type symmetric, and the record it found.
Calling(pc, op, key, comment) ==
  [pc |-> pc, op |-> op, key |-> key, comment |-> comment,
   both |-> key.type \in symmetric, found |-> None]

Running(s) == call[s].pc \notin {"idle", "returned"}

\* A call begins; the results of calls that are over are no longer looked at.
Begins(s, new) ==
  /\ ~Running(s)
  /\ call' = [t \in Sessions |-> IF t = s THEN new ELSE IF Running(t) THEN call[t] ELSE Idle]
  /\ disturbed' = (disturbed \/ \E t \in Sessions : Running(t))
  /\ moved' = IF \E t \in Sessions : Running(t) THEN moved ELSE {}

Goes(s, pc) == call' = [call EXCEPT ![s].pc = pc] /\ UNCHANGED <<disturbed, moved>>

\* The register once a record is written under its key, and once none is.
Written(key, comment) ==
  [k \in DOMAIN register \cup {key} |-> IF k = key THEN comment ELSE register[k]]
Without(key) == Restrict(register, DOMAIN register \ {key})

----------------------------------------------------------------------------
(* The procedures.                                                          *)

\* Mutant: the campaign of the target is not checked.
MayRelateHalf(key) == key.source # key.target /\ home[key.source] = key.campaign

\* ПроверитьВозможностьОперации.
MayRelate(key) ==
  /\ key.source # key.target
  /\ home[key.source] = key.campaign /\ home[key.target] = key.campaign

\* ДобавитьСвязь, called in a session whose active campaign is key.campaign.
Add(s, key, comment) ==
  /\ MayRelate(key)
  /\ Begins(s, Calling("find", "add", key, comment))
  /\ UNCHANGED <<register, catalogs>>

\* УдалитьСвязь: it checks the arguments only.
Delete(s, key) ==
  /\ key.source # key.target
  /\ Begins(s, Calling("find", "delete", key, None))
  /\ UNCHANGED <<register, catalogs>>

\* Two keys stand for one relation: in a symmetric type, seen both ways, either
\* end may be the source.
SameRelation(key, other, both) ==
  /\ key.campaign = other.campaign /\ key.type = other.type
  /\ \/ key.source = other.source /\ key.target = other.target
     \/ both /\ key.source = other.target /\ key.target = other.source

\* Mutant: the reverse direction of a symmetric relation is not looked for.
MatchesOneWay(c) == {other \in DOMAIN register : other = c.key}

Matches(c) == {other \in DOMAIN register : SameRelation(other, c.key, c.both)}

\* НайтиЗаписьСвязи and what follows from it: create, update, remove or nothing.
Find(s) ==
  /\ call[s].pc = "find"
  /\ LET found == Matches(call[s])
     IN  \/ /\ found = {}
            /\ Goes(s, IF call[s].op = "add" THEN "create" ELSE "returned")
         \/ \E key \in found :
              /\ call' = [call EXCEPT ![s].found = key,
                            ![s].pc = IF call[s].op = "delete" THEN "remove"
                                      ELSE IF register[key] # call[s].comment THEN "read"
                                      ELSE "returned"]
              /\ UNCHANGED <<disturbed, moved>>
  /\ UNCHANGED <<register, catalogs>>

\* СоздатьЗаписьСвязи: the record manager replaces a record of the same key.
Create(s) ==
  /\ call[s].pc = "create"
  /\ register' = Written(call[s].key, call[s].comment)
  /\ Goes(s, "returned")
  /\ UNCHANGED catalogs

\* ОбновитьКомментарийЗаписи reads the record set: gone, or ready to be written.
ReadRecord(s) ==
  /\ call[s].pc = "read"
  /\ Goes(s, IF call[s].found \in DOMAIN register THEN "write" ELSE "returned")
  /\ UNCHANGED <<register, catalogs>>

\* It writes the record set it read, with the new comment.
WriteRecord(s) ==
  /\ call[s].pc = "write"
  /\ register' = Written(call[s].found, call[s].comment)
  /\ Goes(s, "returned")
  /\ UNCHANGED catalogs

\* УдалитьСвязь writes an empty record set under the key it found.
Remove(s) ==
  /\ call[s].pc = "remove"
  /\ register' = Without(call[s].found)
  /\ Goes(s, "returned")
  /\ UNCHANGED catalogs

----------------------------------------------------------------------------
(* The standard forms.                                                      *)

Enter(key, comment) ==
  /\ register' = Written(key, comment) /\ disturbed' = TRUE
  /\ UNCHANGED <<catalogs, call, moved>>

Erase(key) ==
  /\ key \in DOMAIN register
  /\ register' = Without(key) /\ disturbed' = TRUE
  /\ UNCHANGED <<catalogs, call, moved>>

Mark(entity) ==
  /\ marked' = IF entity \in marked THEN marked \ {entity} ELSE marked \cup {entity}
  /\ UNCHANGED <<register, home, symmetric, call, disturbed, moved>>

\* An entity is given to another campaign; its relations stay where they are.
Move(entity, campaign) ==
  /\ home' = [home EXCEPT ![entity] = campaign]
  /\ moved' = IF \E s \in Sessions : Running(s) THEN moved \cup {entity} ELSE moved
  /\ UNCHANGED <<register, marked, symmetric, call, disturbed>>

\* Симметричная of a type is set or cleared, whatever records there are.
Switch(type) ==
  /\ symmetric' = IF type \in symmetric THEN symmetric \ {type} ELSE symmetric \cup {type}
  /\ disturbed' = TRUE
  /\ UNCHANGED <<register, marked, home, call, moved>>

Next ==
  \/ \E s \in Sessions, key \in Asked, comment \in Comments : Add(s, key, comment)
  \/ \E s \in Sessions, key \in Asked : Delete(s, key)
  \/ \E s \in Sessions : \/ Find(s) \/ Create(s) \/ ReadRecord(s) \/ WriteRecord(s)
                         \/ Remove(s)
  \/ \E key \in Asked, comment \in Comments : Enter(key, comment)
  \/ \E key \in Asked : Erase(key)
  \/ \E entity \in Markable : Mark(entity)
  \/ \E entity \in Movable, campaign \in Campaigns : Move(entity, campaign)
  \/ \E type \in Switchable : Switch(type)

Spec == Init /\ [][Next]_vars

----------------------------------------------------------------------------
(* get_relations.                                                           *)

\* ПолучитьСвязи: the records with the entity at either end, described from it.
Rows(entity, campaign) ==
  {[type |-> key.type, comment |-> register[key],
    side |-> IF key.source = entity THEN "out" ELSE "in",
    related |-> IF key.source = entity THEN key.target ELSE key.source]
     : key \in {k \in DOMAIN register : /\ k.campaign = campaign
                                        /\ entity \in {k.source, k.target}}}

\* Mutant: the side a symmetric relation is stored on decides its direction.
DirectionStored(row) == IF row.side = "out" THEN "outgoing" ELSE "incoming"

\* ОпределитьНаправлениеDTO.
Direction(row) ==
  IF row.type \in symmetric THEN "symmetric"
  ELSE IF row.side = "out" THEN "outgoing" ELSE "incoming"

\* Mutant: the side is part of the key of symmetric relations too.
DedupKeyWithSide(entity, row) == <<"dir", row.side, row.type, row.related>>

\* КлючДедупликацииСвязи.
DedupKey(entity, row) ==
  IF row.type \in symmetric THEN <<"symm", row.type, {entity, row.related}>>
  ELSE <<"dir", row.side, row.type, row.related>>

\* ЭлементыСвязейДляDTO: related entities of the campaign that are not marked, in
\* the directions asked for, one item for each key.
Items(entity, campaign, wanted) ==
  LET shown == {row \in Rows(entity, campaign) :
                  /\ home[row.related] = campaign /\ row.related \notin marked
                  /\ wanted = "both" \/ Direction(row) \in {wanted, "symmetric"}}
      item(row) == [direction |-> Direction(row), type |-> row.type, related |-> row.related,
                    comment |-> row.comment]
  IN  {item(CHOOSE row \in shown : DedupKey(entity, row) = dedup)
         : dedup \in {DedupKey(entity, row) : row \in shown}}

\* Выполнить_GetRelations answers entity_not_found for an entity of another
\* campaign and for a marked one.
Answers(entity, campaign) == home[entity] = campaign /\ entity \notin marked

----------------------------------------------------------------------------
Call ==
  [pc : {"find", "create", "read", "write", "remove", "returned"}, op : {"add", "delete"},
   key : Key, comment : Comments \cup {None}, both : BOOLEAN, found : Key \cup {None}]

TypeOK ==
  /\ DOMAIN register \subseteq Key
  /\ call \in [Sessions -> {Idle} \cup Call]
  /\ marked \subseteq Entities /\ disturbed \in BOOLEAN
  /\ home \in [Entities -> Campaigns]
  /\ symmetric \subseteq Types /\ moved \subseteq Entities

\* Whatever the forms did and however calls of several sessions interleave, the
\* module writes no record that relates an entity to itself or to one of another
\* campaign, by creating a relation or by updating one it found - but for entities
\* that were moved while calls were in progress, after the check.
CampaignsStayApart ==
  [][\A key \in DOMAIN register' :
       \/ MayRelate(key)
       \/ key.source # key.target /\ {key.source, key.target} \cap moved # {}
       \/ key \in DOMAIN register /\ register'[key] = register[key]
       \/ call' = call]_vars

\* Undisturbed, a call does what was asked: after ДобавитьСвязь exactly one record
\* stands for the relation and has the comment, after УдалитьСвязь none does.
CallsTakeEffect ==
  ~disturbed => \A s \in Sessions :
    call[s].pc = "returned" =>
      LET found == {key \in DOMAIN register : SameRelation(key, call[s].key, call[s].both)}
      IN  IF call[s].op = "delete" THEN found = {}
          ELSE /\ Cardinality(found) = 1
               /\ \A key \in found : register[key] = call[s].comment

\* get_relations lists a relation once, also when two records stand for it.
ShownOnce ==
  \A entity \in Entities, campaign \in Campaigns :
    Answers(entity, campaign) =>
      \A one, two \in Items(entity, campaign, "both") :
        (one.type = two.type /\ one.related = two.related /\ one.direction = two.direction)
          => one = two

\* A relation stands while both its ends belong to its campaign and are not marked.
Standing ==
  {key \in DOMAIN register : Answers(key.source, key.campaign) /\ Answers(key.target, key.campaign)}

\* A relation that stands shows at both its ends: a symmetric one in both lists
\* whatever direction is asked for, a directed one as outgoing at its source and as
\* incoming at its target.  And what an entity shows is a relation that stands: once
\* an end is marked or given to another campaign, the other does not show it.
Lists(entity, campaign, wanted, direction, type, related) ==
  \E item \in Items(entity, campaign, wanted) :
    item.direction = direction /\ item.type = type /\ item.related = related
ShownAtBothEnds ==
  /\ \A key \in {k \in Standing : k.source # k.target} :
       IF key.type \in symmetric
       THEN \A wanted \in {"both", "outgoing", "incoming"} :
              /\ Lists(key.source, key.campaign, wanted, "symmetric", key.type, key.target)
              /\ Lists(key.target, key.campaign, wanted, "symmetric", key.type, key.source)
       ELSE /\ Lists(key.source, key.campaign, "outgoing", "outgoing", key.type, key.target)
            /\ Lists(key.target, key.campaign, "incoming", "incoming", key.type, key.source)
  /\ \A entity \in Entities, campaign \in Campaigns : Answers(entity, campaign) =>
       \A item \in Items(entity, campaign, "both") : \E key \in Standing :
         /\ key.campaign = campaign /\ key.type = item.type
         /\ {key.source, key.target} = {entity, item.related}
         /\ register[key] = item.comment
=============================================================================
