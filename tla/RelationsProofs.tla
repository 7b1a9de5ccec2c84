---------------------------- MODULE RelationsProofs ----------------------------
(***************************************************************************)
(* For any number of sessions, campaigns, entities and types: the records  *)
(* the module writes stay within one campaign, whatever records the        *)
(* standard form leaves in the register; undisturbed calls do what they    *)
(* were asked; and get_relations shows every relation that stands once, at *)
(* both its ends.                                                          *)
(***************************************************************************)
EXTENDS Relations, FiniteSetTheorems, TLAPS

\* A relation that may be made, or one of whose ends was moved too late to notice.
Allowed(key) ==
  MayRelate(key) \/ (key.source # key.target /\ {key.source, key.target} \cap moved # {})

\* What a call in progress relies on: the key it adds passed the checks, and so
\* would the record it updates, another form of the same relation.
CallFits(c) ==
  /\ (c.pc \in {"find", "create"} /\ c.op = "add") => Allowed(c.key)
  /\ c.pc = "create" => c.op = "add"
  /\ c.pc \in {"read", "write"} => (c.found \in Key /\ Allowed(c.found))
  /\ c.pc = "remove" => c.found \in Key

CallsFit == \A s \in Sessions : Running(s) => CallFits(call[s])

IInv == TypeOK /\ CallsFit

\* A relation that matches one that may be made may be made itself.
LEMMA SameRelationFits ==
  ASSUME NEW key \in Key, NEW other \in Key, NEW both,
         SameRelation(other, key, both), Allowed(key)
  PROVE  Allowed(other)
BY DEF SameRelation, MayRelate, Allowed

\* A step writes only a record that is allowed.
WritesFit ==
  \A key \in DOMAIN register' :
    \/ Allowed(key)
    \/ key \in DOMAIN register /\ register'[key] = register[key]
    \/ call' = call

\* The other sessions go on or become idle while one takes a call over.
LEMMA OneCallChanges ==
  ASSUME IInv, UNCHANGED home, NEW s \in Sessions, NEW c \in Call, CallFits(c),
         \/ call' = [call EXCEPT ![s] = c] /\ UNCHANGED moved
         \/ Begins(s, c) /\ (c.pc \in {"find", "create"} /\ c.op = "add" => MayRelate(c.key))
                         /\ c.pc = "find"
  PROVE  /\ call' \in [Sessions -> {Idle} \cup Call] /\ CallsFit'
         /\ moved' \subseteq Entities
<1>1. CASE call' = [call EXCEPT ![s] = c] /\ UNCHANGED moved
  BY <1>1 DEF IInv, TypeOK, CallsFit, CallFits, MayRelate, Allowed, Running
<1>2. CASE /\ Begins(s, c) /\ c.pc = "find"
           /\ c.pc \in {"find", "create"} /\ c.op = "add" => MayRelate(c.key)
  <2>1. call' \in [Sessions -> {Idle} \cup Call] /\ moved' \subseteq Entities
    BY <1>2 DEF Begins, IInv, TypeOK
  <2>2. ASSUME NEW t \in Sessions, Running(t)' PROVE CallFits(call[t])'
    <3>1. CASE t = s
      BY <1>2, <3>1 DEF Begins, CallFits, Allowed, MayRelate
    <3>2. CASE t # s
      <4>1. Running(t) /\ call'[t] = call[t]
        BY <1>2, <2>2, <3>2 DEF Begins, Running, Idle
      <4>2. moved' = moved
        BY <1>2, <4>1 DEF Begins
      <4> QED BY <4>1, <4>2 DEF IInv, CallsFit, CallFits, Allowed, MayRelate
    <3> QED BY <3>1, <3>2
  <2> QED BY <2>1, <2>2 DEF CallsFit
<1> QED BY <1>1, <1>2

\* A call in progress that goes on is a call in progress.
LEMMA CallsGoOn ==
  ASSUME IInv, NEW s \in Sessions, call[s].pc # "idle",
         NEW pc \in {"find", "create", "read", "write", "remove", "returned"}, Goes(s, pc)
  PROVE  /\ call[s] \in Call
         /\ [call[s] EXCEPT !.pc = pc] \in Call
         /\ call' = [call EXCEPT ![s] = [call[s] EXCEPT !.pc = pc]]
         /\ UNCHANGED moved
BY DEF IInv, TypeOK, Goes, Call, Idle

\* A step that changes neither the register nor the catalogs has to fit the calls.
LEMMA NothingWritten ==
  ASSUME IInv, call' \in [Sessions -> {Idle} \cup Call], CallsFit', disturbed' \in BOOLEAN,
         moved' \subseteq Entities, UNCHANGED <<register, catalogs>>
  PROVE  IInv' /\ WritesFit
BY DEF IInv, TypeOK, WritesFit, catalogs

LEMMA StepsKeepIt ==
  ASSUME IInv, [Next]_vars
  PROVE  IInv' /\ WritesFit
<1>1. ASSUME NEW s \in Sessions, NEW key \in Asked, NEW comment \in Comments,
             Add(s, key, comment)
      PROVE  IInv' /\ WritesFit
  <2>1. Calling("find", "add", key, comment) \in Call
    BY BoundsAssumption DEF Calling, Call
  <2>2. CallFits(Calling("find", "add", key, comment))
    BY <1>1 DEF Calling, CallFits, Allowed, Add
  <2>3. /\ call' \in [Sessions -> {Idle} \cup Call] /\ CallsFit'
        /\ moved' \subseteq Entities
    <3> DEFINE c == Calling("find", "add", key, comment)
    <3>1. Begins(s, c) /\ UNCHANGED home /\ MayRelate(key)
      BY <1>1 DEF Add, catalogs
    <3>2. c.pc = "find" /\ c.key = key
      BY DEF Calling
    <3>3. c \in Call /\ CallFits(c)
      BY <2>1, <2>2
    <3> HIDE DEF c
    <3> QED BY <3>1, <3>2, <3>3, OneCallChanges
  <2>4. disturbed' \in BOOLEAN
    BY <1>1 DEF Add, Begins, IInv, TypeOK
  <2> QED BY <1>1, <2>3, <2>4, NothingWritten DEF Add
<1>2. ASSUME NEW s \in Sessions, NEW key \in Asked, Delete(s, key)
      PROVE  IInv' /\ WritesFit
  <2>1. Calling("find", "delete", key, None) \in Call
    BY BoundsAssumption DEF Calling, Call
  <2>2. CallFits(Calling("find", "delete", key, None))
    BY DEF Calling, CallFits
  <2>3. /\ call' \in [Sessions -> {Idle} \cup Call] /\ CallsFit'
        /\ moved' \subseteq Entities
    <3> DEFINE c == Calling("find", "delete", key, None)
    <3>1. Begins(s, c) /\ UNCHANGED home
      BY <1>2 DEF Delete, catalogs
    <3>2. c.pc = "find" /\ c.op = "delete"
      BY DEF Calling
    <3>3. c \in Call /\ CallFits(c)
      BY <2>1, <2>2
    <3> HIDE DEF c
    <3> QED BY <3>1, <3>2, <3>3, OneCallChanges
  <2>4. disturbed' \in BOOLEAN
    BY <1>2 DEF Delete, Begins, IInv, TypeOK
  <2> QED BY <1>2, <2>3, <2>4, NothingWritten DEF Delete
<1>3. ASSUME NEW s \in Sessions, Find(s)
      PROVE  IInv' /\ WritesFit
  <2>1. call[s].pc = "find" /\ call[s] \in Call /\ UNCHANGED <<register, catalogs, home>>
    BY <1>3 DEF Find, IInv, TypeOK, Idle, catalogs
  <2>2. CallFits(call[s])
    BY <2>1 DEF IInv, CallsFit, Running
  <2>3. CASE Goes(s, IF call[s].op = "add" THEN "create" ELSE "returned")
    <3> DEFINE pc == IF call[s].op = "add" THEN "create" ELSE "returned"
               c == [call[s] EXCEPT !.pc = pc]
    <3>1. c \in Call /\ call' = [call EXCEPT ![s] = c] /\ UNCHANGED moved
      BY <2>1, <2>3, CallsGoOn
    <3>2. c.pc = pc /\ c.op = call[s].op /\ c.key = call[s].key
      BY <2>1 DEF Call
    <3>3. CallFits(c)
      BY <2>1, <2>2, <3>2 DEF CallFits
    <3> HIDE DEF c
    <3>4. /\ call' \in [Sessions -> {Idle} \cup Call] /\ CallsFit'
          /\ moved' \subseteq Entities
      BY <2>1, <3>1, <3>3, OneCallChanges
    <3>5. disturbed' \in BOOLEAN
      BY <2>3 DEF Goes, IInv, TypeOK
    <3> QED BY <2>1, <3>4, <3>5, NothingWritten
  <2>4. ASSUME NEW key \in Matches(call[s]), UNCHANGED <<disturbed, moved>>,
               call' = [call EXCEPT ![s].found = key,
                          ![s].pc = IF call[s].op = "delete" THEN "remove"
                                    ELSE IF register[key] # call[s].comment THEN "read"
                                    ELSE "returned"]
        PROVE  IInv' /\ WritesFit
    <3> DEFINE pc == IF call[s].op = "delete" THEN "remove"
                     ELSE IF register[key] # call[s].comment THEN "read" ELSE "returned"
               c == [[call[s] EXCEPT !.found = key] EXCEPT !.pc = pc]
    <3>1. key \in Key /\ SameRelation(key, call[s].key, call[s].both) /\ call[s].key \in Key
      BY <2>1 DEF Matches, IInv, TypeOK, Call
    <3>2. call[s].op = "add" => Allowed(key)
      BY <2>1, <2>2, <3>1, SameRelationFits DEF CallFits
    <3>3. call' = [call EXCEPT ![s] = c]
      BY <2>4 DEF IInv, TypeOK
    <3>4. c \in Call /\ c.pc = pc /\ c.found = key
      BY <2>1, <3>1 DEF Call
    <3>5. call[s].op \in {"add", "delete"}
      BY <2>1 DEF Call
    <3>6. CallFits(c)
      BY <3>1, <3>2, <3>4, <3>5 DEF CallFits
    <3> HIDE DEF c
    <3>7. /\ call' \in [Sessions -> {Idle} \cup Call] /\ CallsFit'
          /\ moved' \subseteq Entities
      BY <2>1, <2>4, <3>3, <3>4, <3>6, OneCallChanges
    <3>8. disturbed' \in BOOLEAN
      BY <2>4 DEF IInv, TypeOK
    <3> QED BY <2>1, <3>7, <3>8, NothingWritten
  <2> QED BY <1>3, <2>3, <2>4 DEF Find
<1>4. ASSUME NEW s \in Sessions, NEW pc \in {"write", "returned"}, Goes(s, pc),
             call[s].pc \in {"create", "read", "write", "remove"},
             pc = "write" => call[s].pc = "read",
             UNCHANGED home
      PROVE  /\ call' \in [Sessions -> {Idle} \cup Call] /\ CallsFit'
             /\ disturbed' \in BOOLEAN /\ moved' \subseteq Entities
  <2> DEFINE c == [call[s] EXCEPT !.pc = pc]
  <2>1. call[s] \in Call /\ c \in Call /\ call' = [call EXCEPT ![s] = c] /\ UNCHANGED moved
    BY <1>4, CallsGoOn
  <2>2. c.pc = pc /\ c.found = call[s].found
    BY <2>1 DEF Call
  <2>3. CallFits(c)
    BY <1>4, <2>2 DEF CallFits, IInv, CallsFit, Running
  <2>4. disturbed' \in BOOLEAN
    BY <1>4 DEF Goes, IInv, TypeOK
  <2> HIDE DEF c
  <2>5. /\ call' \in [Sessions -> {Idle} \cup Call] /\ CallsFit'
        /\ moved' \subseteq Entities
    BY <1>4, <2>1, <2>3, OneCallChanges
  <2> QED BY <2>4, <2>5
<1>5. ASSUME NEW s \in Sessions, Create(s)
      PROVE  IInv' /\ WritesFit
  <2>1. call[s] \in Call /\ Allowed(call[s].key) /\ call[s].key \in Key
    BY <1>5 DEF Create, IInv, TypeOK, CallsFit, CallFits, Running, Idle, Call
  <2>2. UNCHANGED <<marked, home, symmetric>> /\ register' = Written(call[s].key, call[s].comment)
    BY <1>5 DEF Create, catalogs
  <2>3. /\ call' \in [Sessions -> {Idle} \cup Call] /\ CallsFit'
        /\ disturbed' \in BOOLEAN /\ moved' \subseteq Entities
    BY <1>5, <1>4, <2>2 DEF Create
  <2> QED BY <2>1, <2>2, <2>3 DEF Written, IInv, TypeOK, WritesFit
<1>6. ASSUME NEW s \in Sessions, ReadRecord(s)
      PROVE  IInv' /\ WritesFit
  <2>1. UNCHANGED <<register, catalogs, home>>
    BY <1>6 DEF ReadRecord, catalogs
  <2>2. /\ call' \in [Sessions -> {Idle} \cup Call] /\ CallsFit'
        /\ disturbed' \in BOOLEAN /\ moved' \subseteq Entities
    BY <1>6, <1>4, <2>1 DEF ReadRecord
  <2> QED BY <2>1, <2>2, NothingWritten
<1>7. ASSUME NEW s \in Sessions, WriteRecord(s)
      PROVE  IInv' /\ WritesFit
  <2>1. Allowed(call[s].found) /\ call[s].found \in Key
    BY <1>7 DEF WriteRecord, IInv, CallsFit, CallFits, Running
  <2>2. UNCHANGED <<marked, home, symmetric>> /\ register' = Written(call[s].found, call[s].comment)
    BY <1>7 DEF WriteRecord, catalogs
  <2>3. /\ call' \in [Sessions -> {Idle} \cup Call] /\ CallsFit'
        /\ disturbed' \in BOOLEAN /\ moved' \subseteq Entities
    BY <1>7, <1>4, <2>2 DEF WriteRecord
  <2> QED BY <2>1, <2>2, <2>3 DEF Written, IInv, TypeOK, WritesFit
<1>8. ASSUME NEW s \in Sessions, Remove(s)
      PROVE  IInv' /\ WritesFit
  <2>1. UNCHANGED <<marked, home, symmetric>>
    BY <1>8 DEF Remove, catalogs
  <2>2. /\ call' \in [Sessions -> {Idle} \cup Call] /\ CallsFit'
        /\ disturbed' \in BOOLEAN /\ moved' \subseteq Entities
    BY <1>8, <1>4, <2>1 DEF Remove
  <2>3. \A key \in DOMAIN register' : key \in DOMAIN register /\ register'[key] = register[key]
    BY <1>8 DEF Remove, Without, Restrict
  <2> QED BY <2>1, <2>2, <2>3 DEF IInv, TypeOK, WritesFit
<1>9. ASSUME UNCHANGED <<call, moved, home>>
      PROVE  /\ call' \in [Sessions -> {Idle} \cup Call] /\ CallsFit'
             /\ moved' \subseteq Entities /\ home' \in [Entities -> Campaigns]
  BY <1>9 DEF IInv, TypeOK, CallsFit, CallFits, Running, Allowed, MayRelate
<1>10. ASSUME NEW key \in Asked, NEW comment \in Comments, Enter(key, comment)
       PROVE  IInv' /\ WritesFit
  BY <1>9, <1>10, BoundsAssumption DEF Enter, Written, IInv, TypeOK, WritesFit, catalogs
<1>11. ASSUME NEW key \in Asked, Erase(key)
       PROVE  IInv' /\ WritesFit
  BY <1>9, <1>11 DEF Erase, Without, Restrict, IInv, TypeOK, WritesFit, catalogs
<1>12. ASSUME NEW entity \in Markable, Mark(entity)
       PROVE  IInv' /\ WritesFit
  BY <1>9, <1>12, BoundsAssumption DEF Mark, IInv, TypeOK, WritesFit
<1>13. ASSUME NEW entity \in Movable, NEW campaign \in Campaigns, Move(entity, campaign)
       PROVE  IInv' /\ WritesFit
  <2>1. entity \in Entities
    BY BoundsAssumption
  <2>2. /\ home' \in [Entities -> Campaigns] /\ moved' \subseteq Entities
        /\ UNCHANGED <<register, marked, symmetric, call, disturbed>>
    BY <1>13, <2>1 DEF Move, IInv, TypeOK
  <2>3. ASSUME NEW s \in Sessions, Running(s), NEW key \in Key, Allowed(key)
        PROVE  Allowed(key)'
    <3>1. moved' = moved \cup {entity} /\ home' = [home EXCEPT ![entity] = campaign]
      BY <1>13, <2>3 DEF Move
    <3>2. key.source # key.target /\ key.source \in Entities /\ key.target \in Entities
      BY <2>3 DEF Allowed, MayRelate, Key
    <3>3. CASE entity \in {key.source, key.target}
      BY <3>1, <3>2, <3>3 DEF Allowed
    <3>4. CASE entity \notin {key.source, key.target}
      <4>1. home'[key.source] = home[key.source] /\ home'[key.target] = home[key.target]
        BY <3>1, <3>2, <3>4 DEF IInv, TypeOK
      <4> QED BY <2>3, <3>1, <4>1 DEF Allowed, MayRelate
    <3> QED BY <3>3, <3>4
  <2>4. ASSUME NEW s \in Sessions, Running(s)' PROVE CallFits(call[s])'
    <3>1. Running(s) /\ call'[s] = call[s] /\ CallFits(call[s])
      BY <2>2, <2>4 DEF Running, IInv, CallsFit
    <3>2. call[s] \in Call /\ call[s].key \in Key
      BY <3>1 DEF IInv, TypeOK, Running, Idle, Call
    <3> QED BY <2>3, <3>1, <3>2 DEF CallFits
  <2> QED BY <2>2, <2>4 DEF IInv, TypeOK, CallsFit, WritesFit
<1>14. ASSUME NEW type \in Switchable, Switch(type)
       PROVE  IInv' /\ WritesFit
  BY <1>9, <1>14, BoundsAssumption DEF Switch, IInv, TypeOK, WritesFit
<1>15. CASE UNCHANGED vars
  <2>1. UNCHANGED <<register, marked, home, symmetric, call, disturbed, moved>>
    BY <1>15 DEF vars, catalogs
  <2> QED BY <1>9, <2>1 DEF IInv, TypeOK, WritesFit
<1> QED
  BY <1>1, <1>2, <1>3, <1>5, <1>6, <1>7, <1>8, <1>10, <1>11, <1>12, <1>13, <1>14, <1>15 DEF Next

LEMMA InitIsFine == Init => IInv
<1> SUFFICES ASSUME Init PROVE IInv
  OBVIOUS
<1>1. DOMAIN register = {}
  BY DEF Init
<1>2. call \in [Sessions -> {Idle} \cup Call] /\ CallsFit
  <2>1. call = [s \in Sessions |-> Idle]
    BY DEF Init
  <2>2. call \in [Sessions -> {Idle} \cup Call]
    BY <2>1
  <2>3. \A s \in Sessions : ~Running(s)
    BY <2>1 DEF Running, Idle
  <2> QED BY <2>2, <2>3 DEF CallsFit
<1>3. /\ marked \subseteq Entities /\ disturbed \in BOOLEAN /\ moved \subseteq Entities
      /\ home \in [Entities -> Campaigns] /\ symmetric \subseteq Types
  BY DEF Init
<1> QED BY <1>1, <1>2, <1>3 DEF IInv, TypeOK

\* ДобавитьСвязь and the procedures it calls write no record across campaigns,
\* however the calls of any sessions interleave and whatever the forms do, but for
\* entities that are moved while calls are in progress.
THEOREM CampaignsStayApartHolds == Spec => CampaignsStayApart
<1>1. Init => IInv
  BY InitIsFine
<1>2. IInv /\ [Next]_vars => IInv' /\ WritesFit
  BY StepsKeepIt
<1>3. WritesFit =>
        [\A key \in DOMAIN register' :
           \/ MayRelate(key)
           \/ key.source # key.target /\ {key.source, key.target} \cap moved # {}
           \/ key \in DOMAIN register /\ register'[key] = register[key]
           \/ call' = call]_vars
  BY DEF WritesFit, Allowed
<1> QED BY <1>1, <1>2, <1>3, PTL DEF Spec, CampaignsStayApart

----------------------------------------------------------------------------
(* The list of get_relations, whatever records there are.                   *)

\* The rows Items chooses from, the one it takes of those with the same key, and
\* the item it makes of it.
ShownRows(entity, campaign, wanted) ==
  {row \in Rows(entity, campaign) :
     /\ home[row.related] = campaign /\ row.related \notin marked
     /\ wanted = "both" \/ Direction(row) \in {wanted, "symmetric"}}
Chosen(entity, campaign, wanted, dedup) ==
  CHOOSE row \in ShownRows(entity, campaign, wanted) : DedupKey(entity, row) = dedup
Item(row) ==
  [direction |-> Direction(row), type |-> row.type, related |-> row.related,
   comment |-> row.comment]

LEMMA ItemsAreChosenRows ==
  ASSUME NEW entity, NEW campaign, NEW wanted
  PROVE  Items(entity, campaign, wanted) =
           {Item(Chosen(entity, campaign, wanted, dedup))
              : dedup \in {DedupKey(entity, row) : row \in ShownRows(entity, campaign, wanted)}}
BY DEF Items, ShownRows, Chosen, Item

\* Every item is made of a row shown, the one chosen for its key ...
LEMMA ItemsShowRows ==
  ASSUME NEW entity, NEW campaign, NEW wanted, NEW item \in Items(entity, campaign, wanted)
  PROVE  \E row \in ShownRows(entity, campaign, wanted) :
           /\ item = Item(row)
           /\ row = Chosen(entity, campaign, wanted, DedupKey(entity, row))
<1> DEFINE shown == ShownRows(entity, campaign, wanted)
<1>1. PICK other \in shown :
        item = Item(Chosen(entity, campaign, wanted, DedupKey(entity, other)))
  BY ItemsAreChosenRows
<1> DEFINE row == Chosen(entity, campaign, wanted, DedupKey(entity, other))
<1>2. row \in shown /\ DedupKey(entity, row) = DedupKey(entity, other)
  BY <1>1 DEF Chosen
<1> QED BY <1>1, <1>2

\* ... and every row shown has an item, made of a row with the same key.
LEMMA RowsAreShown ==
  ASSUME NEW entity, NEW campaign, NEW wanted, NEW row \in ShownRows(entity, campaign, wanted)
  PROVE  \E chosen \in ShownRows(entity, campaign, wanted) :
           /\ DedupKey(entity, chosen) = DedupKey(entity, row)
           /\ Item(chosen) \in Items(entity, campaign, wanted)
<1> DEFINE chosen == Chosen(entity, campaign, wanted, DedupKey(entity, row))
<1>1. chosen \in ShownRows(entity, campaign, wanted)
      /\ DedupKey(entity, chosen) = DedupKey(entity, row)
  BY DEF Chosen
<1>2. Item(chosen) \in Items(entity, campaign, wanted)
  BY ItemsAreChosenRows
<1> QED BY <1>1, <1>2

\* The row of a record, seen from an end of it.
LEMMA RowsDescribeRecords ==
  ASSUME NEW entity, NEW campaign, NEW row \in Rows(entity, campaign)
  PROVE  /\ row.side \in {"out", "in"}
         /\ \E key \in DOMAIN register :
              /\ key.campaign = campaign /\ key.type = row.type
              /\ register[key] = row.comment
              /\ IF row.side = "out" THEN key.source = entity /\ key.target = row.related
                 ELSE key.target = entity /\ key.source = row.related
<1>1. PICK key \in DOMAIN register :
        /\ key.campaign = campaign /\ entity \in {key.source, key.target}
        /\ row = [type |-> key.type, comment |-> register[key],
                  side |-> IF key.source = entity THEN "out" ELSE "in",
                  related |-> IF key.source = entity THEN key.target ELSE key.source]
  BY DEF Rows
<1> QED BY <1>1

\* Two rows with the same key describe the same relation the same way.
LEMMA KeysTellRelations ==
  ASSUME NEW entity, NEW one, NEW two, DedupKey(entity, one) = DedupKey(entity, two)
  PROVE  /\ one.type = two.type
         /\ Direction(one) = Direction(two)
         /\ one.related = two.related
         /\ one.type \in symmetric \/ one.side = two.side
<1>1. CASE one.type \in symmetric /\ two.type \in symmetric
  <2>1. one.type = two.type /\ {entity, one.related} = {entity, two.related}
    BY <1>1 DEF DedupKey
  <2>2. one.related = two.related
    BY <2>1
  <2> QED BY <1>1, <2>1, <2>2 DEF Direction
<1>2. CASE one.type \notin symmetric /\ two.type \notin symmetric
  BY <1>2 DEF DedupKey, Direction
<1>3. CASE (one.type \in symmetric) # (two.type \in symmetric)
  BY <1>3 DEF DedupKey
<1> QED BY <1>1, <1>2, <1>3

\* Two rows that look alike in the list have the same key.
LEMMA ItemsTellKeys ==
  ASSUME NEW entity, NEW one, NEW two,
         one.side \in {"out", "in"}, two.side \in {"out", "in"},
         one.type = two.type, one.related = two.related, Direction(one) = Direction(two)
  PROVE  DedupKey(entity, one) = DedupKey(entity, two)
BY DEF DedupKey, Direction

\* get_relations lists a relation once, whatever the register holds and however
\* the types and the entities changed since.
THEOREM ShownOnceHolds == Spec => []ShownOnce
<1>1. ShownOnce
  <2> SUFFICES ASSUME NEW entity \in Entities, NEW campaign \in Campaigns,
                      NEW one \in Items(entity, campaign, "both"),
                      NEW two \in Items(entity, campaign, "both"),
                      one.type = two.type, one.related = two.related,
                      one.direction = two.direction
               PROVE  one = two
    BY DEF ShownOnce
  <2>1. PICK row \in ShownRows(entity, campaign, "both") :
          one = Item(row) /\ row = Chosen(entity, campaign, "both", DedupKey(entity, row))
    BY ItemsShowRows
  <2>2. PICK other \in ShownRows(entity, campaign, "both") :
          two = Item(other) /\ other = Chosen(entity, campaign, "both", DedupKey(entity, other))
    BY ItemsShowRows
  <2>3. row \in Rows(entity, campaign) /\ other \in Rows(entity, campaign)
    BY DEF ShownRows
  <2>4. row.side \in {"out", "in"} /\ other.side \in {"out", "in"}
    BY <2>3, RowsDescribeRecords
  <2>5. row.type = other.type /\ row.related = other.related /\ Direction(row) = Direction(other)
    BY <2>1, <2>2 DEF Item
  <2>6. DedupKey(entity, row) = DedupKey(entity, other)
    BY <2>4, <2>5, ItemsTellKeys
  <2> QED BY <2>1, <2>2, <2>6
<1> QED BY <1>1, PTL

\* A record seen from its source, and one seen from its target that is another
\* entity, is a row.
LEMMA RecordsHaveRows ==
  ASSUME NEW key \in DOMAIN register, key.source # key.target
  PROVE  /\ [type |-> key.type, comment |-> register[key], side |-> "out",
             related |-> key.target] \in Rows(key.source, key.campaign)
         /\ [type |-> key.type, comment |-> register[key], side |-> "in",
             related |-> key.source] \in Rows(key.target, key.campaign)
BY DEF Rows

\* A relation is in the list of an entity once a row shown describes it.
LEMMA RowsAreListed ==
  ASSUME NEW entity, NEW campaign, NEW wanted, NEW row \in ShownRows(entity, campaign, wanted)
  PROVE  Lists(entity, campaign, wanted, Direction(row), row.type, row.related)
<1>1. PICK chosen \in ShownRows(entity, campaign, wanted) :
        /\ DedupKey(entity, chosen) = DedupKey(entity, row)
        /\ Item(chosen) \in Items(entity, campaign, wanted)
  BY RowsAreShown
<1>2. /\ chosen.type = row.type /\ Direction(chosen) = Direction(row)
      /\ chosen.related = row.related
  BY <1>1, KeysTellRelations
<1>3. /\ Item(chosen).type = chosen.type /\ Item(chosen).direction = Direction(chosen)
      /\ Item(chosen).related = chosen.related
  BY DEF Item
<1> QED BY <1>1, <1>2, <1>3 DEF Lists

\* A relation whose ends are there shows at both ends, and nothing else shows,
\* whatever entities were moved and marked and whatever types changed.
THEOREM ShownAtBothEndsHolds == Spec => []ShownAtBothEnds
<1>1. ASSUME NEW key \in Standing, key.source # key.target
      PROVE  IF key.type \in symmetric
             THEN \A wanted \in {"both", "outgoing", "incoming"} :
                    /\ Lists(key.source, key.campaign, wanted, "symmetric", key.type, key.target)
                    /\ Lists(key.target, key.campaign, wanted, "symmetric", key.type, key.source)
             ELSE /\ Lists(key.source, key.campaign, "outgoing", "outgoing", key.type, key.target)
                  /\ Lists(key.target, key.campaign, "incoming", "incoming", key.type, key.source)
  <2> DEFINE from == [type |-> key.type, comment |-> register[key], side |-> "out",
                      related |-> key.target]
             to == [type |-> key.type, comment |-> register[key], side |-> "in",
                    related |-> key.source]
  <2>1. /\ from \in Rows(key.source, key.campaign) /\ to \in Rows(key.target, key.campaign)
        /\ home[key.source] = key.campaign /\ home[key.target] = key.campaign
        /\ key.source \notin marked /\ key.target \notin marked
    BY <1>1, RecordsHaveRows DEF Standing, Answers
  <2>2. from.type = key.type /\ from.related = key.target /\ from.side = "out"
        /\ to.type = key.type /\ to.related = key.source /\ to.side = "in"
    OBVIOUS
  <2> HIDE DEF from, to
  <2>3. CASE key.type \in symmetric
    <3>1. Direction(from) = "symmetric" /\ Direction(to) = "symmetric"
      BY <2>2, <2>3 DEF Direction
    <3>2. ASSUME NEW wanted
          PROVE  /\ from \in ShownRows(key.source, key.campaign, wanted)
                 /\ to \in ShownRows(key.target, key.campaign, wanted)
      BY <2>1, <2>2, <3>1 DEF ShownRows
    <3> QED BY <2>2, <2>3, <3>1, <3>2, RowsAreListed
  <2>4. CASE key.type \notin symmetric
    <3>1. Direction(from) = "outgoing" /\ Direction(to) = "incoming"
      BY <2>2, <2>4 DEF Direction
    <3>2. /\ from \in ShownRows(key.source, key.campaign, "outgoing")
          /\ to \in ShownRows(key.target, key.campaign, "incoming")
      BY <2>1, <2>2, <3>1 DEF ShownRows
    <3> QED BY <2>2, <2>4, <3>1, <3>2, RowsAreListed
  <2> QED BY <2>3, <2>4
<1>2. ASSUME NEW entity \in Entities, NEW campaign \in Campaigns, Answers(entity, campaign),
             NEW item \in Items(entity, campaign, "both")
      PROVE  \E key \in Standing :
               /\ key.campaign = campaign /\ key.type = item.type
               /\ {key.source, key.target} = {entity, item.related}
               /\ register[key] = item.comment
  <2>1. PICK row \in ShownRows(entity, campaign, "both") : item = Item(row)
    BY ItemsShowRows
  <2>2. row \in Rows(entity, campaign) /\ home[row.related] = campaign /\ row.related \notin marked
    BY DEF ShownRows
  <2>3. PICK key \in DOMAIN register :
          /\ key.campaign = campaign /\ key.type = row.type
          /\ register[key] = row.comment
          /\ IF row.side = "out" THEN key.source = entity /\ key.target = row.related
             ELSE key.target = entity /\ key.source = row.related
    BY <2>2, RowsDescribeRecords
  <2>4. {key.source, key.target} = {entity, row.related}
    BY <2>3
  <2>5. key \in Standing
    BY <1>2, <2>2, <2>3 DEF Standing, Answers
  <2>6. item.type = row.type /\ item.related = row.related /\ item.comment = row.comment
    BY <2>1 DEF Item
  <2> QED BY <2>3, <2>4, <2>5, <2>6
<1>3. ShownAtBothEnds
  BY <1>1, <1>2 DEF ShownAtBothEnds
<1> QED BY <1>3, PTL
----------------------------------------------------------------------------
(* Undisturbed calls.                                                       *)

\* The records of a register that stand for the relation a call is about.
Same(c, records) == {key \in DOMAIN records : SameRelation(key, c.key, c.both)}

\* No relation has two records.
NoTwins(records, types) ==
  \A key, other \in DOMAIN records :
    SameRelation(key, other, other.type \in types) => key = other

\* What a call knows of the register at each of its steps, and what it leaves.
InStep(c, records, types) ==
  /\ c.both = (c.key.type \in types)
  /\ c.pc = "create" => c.op = "add" /\ Same(c, records) = {}
  /\ c.pc \in {"read", "write"} => c.op = "add" /\ c.found \in Same(c, records)
  /\ c.pc = "remove" => c.op = "delete" /\ c.found \in Same(c, records)
  /\ c.pc = "returned" =>
       IF c.op = "delete" THEN Same(c, records) = {}
       ELSE \E key \in Same(c, records) : Same(c, records) = {key} /\ records[key] = c.comment

\* As long as no two calls overlap and no form interferes, at most one session has
\* a call to look at, and it is in step with a register without twins.
Alone == \A s, t \in Sessions : call[s].pc # "idle" /\ call[t].pc # "idle" => s = t
Undisturbed ==
  ~disturbed =>
    /\ Alone
    /\ NoTwins(register, symmetric)
    /\ \A s \in Sessions : call[s].pc # "idle" => InStep(call[s], register, symmetric)

\* Without twins one record at most stands for the relation of a call.
LEMMA OneRecordAtMost ==
  ASSUME NEW records, NEW types, NEW c, NoTwins(records, types),
         c.both = (c.key.type \in types), NEW key \in Same(c, records)
  PROVE  Same(c, records) = {key}
<1> SUFFICES ASSUME NEW other \in Same(c, records) PROVE other = key
  OBVIOUS
<1>1. /\ key \in DOMAIN records /\ SameRelation(key, c.key, c.both)
      /\ other \in DOMAIN records /\ SameRelation(other, c.key, c.both)
  BY DEF Same
<1>2. SameRelation(key, other, other.type \in types)
  BY <1>1 DEF SameRelation
<1> QED BY <1>1, <1>2 DEF NoTwins

\* A step of the only call there is leaves Undisturbed true if it is in step.
LEMMA OnlyCallGoesOn ==
  ASSUME IInv, Undisturbed, ~disturbed, NEW s \in Sessions, call[s].pc # "idle", NEW c,
         call' = [call EXCEPT ![s] = c], UNCHANGED symmetric,
         NoTwins(register', symmetric), InStep(c, register', symmetric)
  PROVE  Undisturbed'
<1>1. \A t \in Sessions : call'[t] = IF t = s THEN c ELSE call[t]
  BY DEF IInv, TypeOK
<1>2. \A t \in Sessions : call[t].pc # "idle" => t = s
  BY DEF Undisturbed, Alone
<1>3. Alone'
  BY <1>1, <1>2 DEF Alone
<1>4. \A t \in Sessions : call'[t].pc # "idle" => InStep(call'[t], register', symmetric')
  BY <1>1, <1>2
<1> QED BY <1>3, <1>4 DEF Undisturbed

\* A call that begins while nothing runs is the only one.
LEMMA CallBeginsAlone ==
  ASSUME IInv, Undisturbed, ~disturbed', NEW s \in Sessions, NEW c,
         Begins(s, c), c.pc = "find", c.both = (c.key.type \in symmetric),
         UNCHANGED <<register, symmetric>>
  PROVE  Undisturbed'
<1>1. ~disturbed /\ \A t \in Sessions : ~Running(t)
  BY DEF Begins, IInv, TypeOK
<1>2. \A t \in Sessions : call'[t] = IF t = s THEN c ELSE Idle
  BY <1>1 DEF Begins
<1>3. Alone'
  BY <1>2 DEF Alone, Idle
<1>4. InStep(c, register', symmetric')
  BY DEF InStep
<1>5. \A t \in Sessions : call'[t].pc # "idle" => InStep(call'[t], register', symmetric')
  BY <1>2, <1>4 DEF Idle
<1>6. NoTwins(register', symmetric')
  BY <1>1 DEF Undisturbed
<1> QED BY <1>3, <1>5, <1>6 DEF Undisturbed

\* A call in progress, with what it knows while it is the only one.
LEMMA CallAtWork ==
  ASSUME IInv, Undisturbed, ~disturbed, NEW s \in Sessions, call[s].pc # "idle"
  PROVE  /\ call[s] \in Call /\ call[s].key \in Key /\ call[s].op \in {"add", "delete"}
         /\ InStep(call[s], register, symmetric)
         /\ NoTwins(register, symmetric) /\ DOMAIN register \subseteq Key
<1>1. call[s] \in Call
  BY DEF IInv, TypeOK, Idle
<1>2. InStep(call[s], register, symmetric) /\ NoTwins(register, symmetric)
  BY DEF Undisturbed
<1>3. DOMAIN register \subseteq Key
  BY DEF IInv, TypeOK
<1> QED BY <1>1, <1>2, <1>3 DEF Call

LEMMA FindKeepsStep ==
  ASSUME IInv, Undisturbed, NEW s \in Sessions, Find(s), ~disturbed'
  PROVE  Undisturbed'
<1>1. /\ ~disturbed /\ call[s].pc = "find" /\ call[s].pc # "idle"
      /\ UNCHANGED <<register, symmetric>>
  <2>1. UNCHANGED disturbed
    <3>1. CASE Goes(s, IF call[s].op = "add" THEN "create" ELSE "returned")
      BY <3>1 DEF Goes
    <3>2. CASE UNCHANGED <<disturbed, moved>>
      BY <3>2
    <3> QED BY <3>1, <3>2 DEF Find
  <2> QED BY <2>1 DEF Find, catalogs
<1>2. /\ call[s] \in Call /\ call[s].key \in Key /\ call[s].op \in {"add", "delete"}
      /\ InStep(call[s], register, symmetric)
      /\ NoTwins(register, symmetric)
  BY <1>1, CallAtWork
<1>3. call[s].both = (call[s].key.type \in symmetric) /\ Matches(call[s]) = Same(call[s], register)
  BY <1>2 DEF InStep, Matches, Same
<1>4. CASE /\ Matches(call[s]) = {}
           /\ Goes(s, IF call[s].op = "add" THEN "create" ELSE "returned")
  <2> DEFINE pc == IF call[s].op = "add" THEN "create" ELSE "returned"
             c == [call[s] EXCEPT !.pc = pc]
  <2>1. call' = [call EXCEPT ![s] = c]
    BY <1>1, <1>4, CallsGoOn
  <2>2. c.pc = pc /\ c.op = call[s].op /\ c.key = call[s].key /\ c.both = call[s].both
    BY <1>2 DEF Call
  <2> HIDE DEF c
  <2>3. Same(c, register) = {}
    BY <1>3, <1>4, <2>2 DEF Same
  <2>4. InStep(c, register', symmetric)
    BY <1>1, <1>2, <1>3, <2>2, <2>3 DEF InStep
  <2> QED BY <1>1, <1>2, <2>1, <2>4, OnlyCallGoesOn
<1>5. ASSUME NEW key \in Matches(call[s]),
             call' = [call EXCEPT ![s].found = key,
                        ![s].pc = IF call[s].op = "delete" THEN "remove"
                                  ELSE IF register[key] # call[s].comment THEN "read"
                                  ELSE "returned"]
      PROVE  Undisturbed'
  <2> DEFINE pc == IF call[s].op = "delete" THEN "remove"
                   ELSE IF register[key] # call[s].comment THEN "read" ELSE "returned"
             c == [[call[s] EXCEPT !.found = key] EXCEPT !.pc = pc]
  <2>1. call' = [call EXCEPT ![s] = c]
    BY <1>5 DEF IInv, TypeOK
  <2>2. /\ c.pc = pc /\ c.op = call[s].op /\ c.key = call[s].key /\ c.both = call[s].both
        /\ c.found = key /\ c.comment = call[s].comment
    BY <1>2 DEF Call
  <2> HIDE DEF c
  <2>3. key \in Same(c, register) /\ Same(c, register) = Same(call[s], register)
    BY <1>3, <2>2 DEF Same
  <2>4. Same(c, register) = {key}
    BY <1>2, <1>3, <2>2, <2>3, OneRecordAtMost
  <2>5. InStep(c, register', symmetric)
    BY <1>1, <1>2, <1>3, <2>2, <2>3, <2>4 DEF InStep
  <2> QED BY <1>1, <1>2, <2>1, <2>5, OnlyCallGoesOn
<1> QED BY <1>4, <1>5 DEF Find

LEMMA CreateKeepsStep ==
  ASSUME IInv, Undisturbed, NEW s \in Sessions, Create(s), ~disturbed'
  PROVE  Undisturbed'
<1>1. /\ ~disturbed /\ call[s].pc = "create" /\ call[s].pc # "idle" /\ Goes(s, "returned")
      /\ register' = Written(call[s].key, call[s].comment) /\ UNCHANGED symmetric
  BY DEF Create, Goes, catalogs
<1>2. /\ call[s] \in Call /\ call[s].key \in Key
      /\ InStep(call[s], register, symmetric)
      /\ NoTwins(register, symmetric) /\ DOMAIN register \subseteq Key
  BY <1>1, CallAtWork
<1>3. /\ call[s].op = "add" /\ Same(call[s], register) = {}
      /\ call[s].both = (call[s].key.type \in symmetric)
  BY <1>1, <1>2 DEF InStep
<1> DEFINE key == call[s].key
           c == [call[s] EXCEPT !.pc = "returned"]
<1>4. call' = [call EXCEPT ![s] = c]
  BY <1>1, CallsGoOn
<1>5. /\ c.pc = "returned" /\ c.op = call[s].op /\ c.key = key /\ c.both = call[s].both
      /\ c.comment = call[s].comment
  BY <1>2 DEF Call
<1> HIDE DEF c
<1>6. /\ DOMAIN register' = DOMAIN register \cup {key} /\ register'[key] = c.comment
  BY <1>1, <1>5 DEF Written
<1>7. \A other \in DOMAIN register : ~SameRelation(other, key, key.type \in symmetric)
  BY <1>3 DEF Same
<1>8. Same(c, register') = {key}
  <2>1. SameRelation(key, key, c.both)
    BY DEF SameRelation
  <2> QED BY <1>3, <1>5, <1>6, <1>7, <2>1 DEF Same
<1>9. NoTwins(register', symmetric)
  <2> SUFFICES ASSUME NEW one \in DOMAIN register', NEW two \in DOMAIN register',
                      SameRelation(one, two, two.type \in symmetric)
               PROVE  one = two
    BY DEF NoTwins
  <2>1. CASE one = key /\ two # key
    <3>1. SameRelation(two, key, key.type \in symmetric)
      BY <2>1 DEF SameRelation
    <3> QED BY <1>6, <1>7, <2>1, <3>1
  <2>2. CASE one # key /\ two = key
    BY <1>6, <1>7, <2>2
  <2>3. CASE one # key /\ two # key
    BY <1>2, <1>6, <2>3 DEF NoTwins
  <2> QED BY <2>1, <2>2, <2>3
<1>10. InStep(c, register', symmetric)
  BY <1>3, <1>5, <1>6, <1>8 DEF InStep
<1> QED BY <1>1, <1>4, <1>9, <1>10, OnlyCallGoesOn

LEMMA ReadKeepsStep ==
  ASSUME IInv, Undisturbed, NEW s \in Sessions, ReadRecord(s), ~disturbed'
  PROVE  Undisturbed'
<1>1. /\ ~disturbed /\ call[s].pc = "read" /\ call[s].pc # "idle"
      /\ UNCHANGED <<register, symmetric>>
  BY DEF ReadRecord, Goes, catalogs
<1>2. /\ call[s] \in Call /\ InStep(call[s], register, symmetric)
      /\ NoTwins(register, symmetric)
  BY <1>1, CallAtWork
<1>3. /\ call[s].op = "add" /\ call[s].found \in Same(call[s], register)
      /\ call[s].both = (call[s].key.type \in symmetric)
  BY <1>1, <1>2 DEF InStep
<1>4. Goes(s, "write")
  BY <1>3 DEF ReadRecord, Same
<1> DEFINE c == [call[s] EXCEPT !.pc = "write"]
<1>5. call' = [call EXCEPT ![s] = c]
  BY <1>1, <1>4, CallsGoOn
<1>6. /\ c.pc = "write" /\ c.op = call[s].op /\ c.key = call[s].key /\ c.both = call[s].both
      /\ c.found = call[s].found
  BY <1>2 DEF Call
<1> HIDE DEF c
<1>7. InStep(c, register', symmetric)
  BY <1>1, <1>3, <1>6 DEF InStep, Same
<1> QED BY <1>1, <1>2, <1>5, <1>7, OnlyCallGoesOn

LEMMA WriteKeepsStep ==
  ASSUME IInv, Undisturbed, NEW s \in Sessions, WriteRecord(s), ~disturbed'
  PROVE  Undisturbed'
<1>1. /\ ~disturbed /\ call[s].pc = "write" /\ call[s].pc # "idle" /\ Goes(s, "returned")
      /\ register' = Written(call[s].found, call[s].comment) /\ UNCHANGED symmetric
  BY DEF WriteRecord, Goes, catalogs
<1>2. /\ call[s] \in Call /\ InStep(call[s], register, symmetric)
      /\ NoTwins(register, symmetric)
  BY <1>1, CallAtWork
<1>3. /\ call[s].op = "add" /\ call[s].found \in Same(call[s], register)
      /\ call[s].both = (call[s].key.type \in symmetric)
  BY <1>1, <1>2 DEF InStep
<1> DEFINE c == [call[s] EXCEPT !.pc = "returned"]
<1>4. call' = [call EXCEPT ![s] = c]
  BY <1>1, CallsGoOn
<1>5. /\ c.pc = "returned" /\ c.op = call[s].op /\ c.key = call[s].key /\ c.both = call[s].both
      /\ c.found = call[s].found /\ c.comment = call[s].comment
  BY <1>2 DEF Call
<1> HIDE DEF c
<1>6. Same(call[s], register) = {call[s].found}
  BY <1>2, <1>3, OneRecordAtMost
<1>7. DOMAIN register' = DOMAIN register /\ register'[c.found] = c.comment
  BY <1>1, <1>3, <1>5 DEF Written, Same
<1>8. Same(c, register') = {c.found}
  BY <1>5, <1>6, <1>7 DEF Same
<1>9. NoTwins(register', symmetric)
  BY <1>2, <1>7 DEF NoTwins
<1>10. InStep(c, register', symmetric)
  BY <1>3, <1>5, <1>7, <1>8 DEF InStep
<1> QED BY <1>1, <1>4, <1>9, <1>10, OnlyCallGoesOn

LEMMA RemoveKeepsStep ==
  ASSUME IInv, Undisturbed, NEW s \in Sessions, Remove(s), ~disturbed'
  PROVE  Undisturbed'
<1>1. /\ ~disturbed /\ call[s].pc = "remove" /\ call[s].pc # "idle" /\ Goes(s, "returned")
      /\ register' = Without(call[s].found) /\ UNCHANGED symmetric
  BY DEF Remove, Goes, catalogs
<1>2. /\ call[s] \in Call /\ InStep(call[s], register, symmetric)
      /\ NoTwins(register, symmetric)
  BY <1>1, CallAtWork
<1>3. /\ call[s].op = "delete" /\ call[s].found \in Same(call[s], register)
      /\ call[s].both = (call[s].key.type \in symmetric)
  BY <1>1, <1>2 DEF InStep
<1> DEFINE c == [call[s] EXCEPT !.pc = "returned"]
<1>4. call' = [call EXCEPT ![s] = c]
  BY <1>1, CallsGoOn
<1>5. c.pc = "returned" /\ c.op = call[s].op /\ c.key = call[s].key /\ c.both = call[s].both
  BY <1>2 DEF Call
<1> HIDE DEF c
<1>6. Same(call[s], register) = {call[s].found}
  BY <1>2, <1>3, OneRecordAtMost
<1>7. DOMAIN register' = DOMAIN register \ {call[s].found}
  BY <1>1 DEF Without, Restrict
<1>8. Same(c, register') = {}
  BY <1>5, <1>6, <1>7 DEF Same
<1>9. NoTwins(register', symmetric)
  BY <1>2, <1>7 DEF NoTwins
<1>10. InStep(c, register', symmetric)
  BY <1>3, <1>5, <1>8 DEF InStep
<1> QED BY <1>1, <1>4, <1>9, <1>10, OnlyCallGoesOn

LEMMA UndisturbedIsKept ==
  ASSUME IInv, Undisturbed, [Next]_vars
  PROVE  Undisturbed'
<1> SUFFICES ASSUME ~disturbed' PROVE Undisturbed'
  BY DEF Undisturbed
<1>1. ASSUME NEW s \in Sessions, NEW key \in Asked, NEW comment \in Comments,
             Add(s, key, comment)
      PROVE  Undisturbed'
  <2> DEFINE c == Calling("find", "add", key, comment)
  <2>1. c.pc = "find" /\ c.both = (c.key.type \in symmetric)
    BY DEF Calling
  <2>2. Begins(s, c) /\ UNCHANGED <<register, symmetric>>
    BY <1>1 DEF Add, catalogs
  <2> HIDE DEF c
  <2> QED BY <2>1, <2>2, CallBeginsAlone
<1>2. ASSUME NEW s \in Sessions, NEW key \in Asked, Delete(s, key)
      PROVE  Undisturbed'
  <2> DEFINE c == Calling("find", "delete", key, None)
  <2>1. c.pc = "find" /\ c.both = (c.key.type \in symmetric)
    BY DEF Calling
  <2>2. Begins(s, c) /\ UNCHANGED <<register, symmetric>>
    BY <1>2 DEF Delete, catalogs
  <2> HIDE DEF c
  <2> QED BY <2>1, <2>2, CallBeginsAlone
<1>3. ASSUME NEW s \in Sessions, Find(s) \/ Create(s) \/ ReadRecord(s) \/ WriteRecord(s) \/ Remove(s)
      PROVE  Undisturbed'
  BY <1>3, FindKeepsStep, CreateKeepsStep, ReadKeepsStep, WriteKeepsStep, RemoveKeepsStep
<1>4. ASSUME NEW key \in Asked
      PROVE  /\ \A comment \in Comments : ~Enter(key, comment)
             /\ ~Erase(key)
  BY DEF Enter, Erase
<1>5. \A type \in Switchable : ~Switch(type)
  BY DEF Switch
<1>6. CASE UNCHANGED <<register, symmetric, call, disturbed>>
  BY <1>6 DEF Undisturbed, Alone
<1>7. ASSUME NEW entity \in Markable, Mark(entity) PROVE Undisturbed'
  BY <1>6, <1>7 DEF Mark
<1>8. ASSUME NEW entity \in Movable, NEW campaign \in Campaigns, Move(entity, campaign)
      PROVE  Undisturbed'
  BY <1>6, <1>8 DEF Move
<1>9. CASE UNCHANGED vars
  BY <1>6, <1>9 DEF vars, catalogs
<1> QED BY <1>1, <1>2, <1>3, <1>4, <1>5, <1>7, <1>8, <1>9 DEF Next

\* Undisturbed, ДобавитьСвязь leaves exactly one record of the relation, with the
\* comment asked for, and УдалитьСвязь leaves none, in whichever direction the
\* relation was stored before.
THEOREM CallsTakeEffectHolds == Spec => []CallsTakeEffect
<1>1. Init => IInv /\ Undisturbed
  <2> SUFFICES ASSUME Init PROVE Undisturbed
    BY InitIsFine
  <2>1. DOMAIN register = {} /\ \A s \in Sessions : call[s].pc = "idle"
    BY DEF Init, Idle
  <2> QED BY <2>1 DEF Undisturbed, Alone, NoTwins
<1>2. IInv /\ Undisturbed /\ [Next]_vars => IInv' /\ Undisturbed'
  BY StepsKeepIt, UndisturbedIsKept
<1>3. IInv /\ Undisturbed => CallsTakeEffect
  <2> SUFFICES ASSUME Undisturbed, ~disturbed, NEW s \in Sessions, call[s].pc = "returned"
               PROVE  LET found == {key \in DOMAIN register :
                                      SameRelation(key, call[s].key, call[s].both)}
                      IN  IF call[s].op = "delete" THEN found = {}
                          ELSE /\ Cardinality(found) = 1
                               /\ \A key \in found : register[key] = call[s].comment
    BY DEF CallsTakeEffect
  <2>1. InStep(call[s], register, symmetric)
    BY DEF Undisturbed
  <2>2. CASE call[s].op = "delete"
    BY <2>1, <2>2 DEF InStep, Same
  <2>3. CASE call[s].op # "delete"
    <3>1. PICK key : Same(call[s], register) = {key} /\ register[key] = call[s].comment
      BY <2>1, <2>3 DEF InStep
    <3>2. Cardinality({key}) = 1
      BY FS_Singleton
    <3> QED BY <2>3, <3>1, <3>2 DEF Same
  <2> QED BY <2>2, <2>3
<1> QED BY <1>1, <1>2, <1>3, PTL DEF Spec
=============================================================================
