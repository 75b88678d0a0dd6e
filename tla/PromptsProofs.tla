---------------------------- MODULE PromptsProofs ----------------------------
(***************************************************************************)
(* Proofs about Prompts, for any editors, prompts, channels, bodies and    *)
(* events: channels point at versions that are there and have the body     *)
(* they were given, "latest" is the newest version once a save had its     *)
(* prompt to itself, experiments keep their arms apart, and saves that     *)
(* take turns leave no cycle of includes.                                  *)
(***************************************************************************)
EXTENDS Prompts, SequenceTheorems, FiniteSetTheorems, WellFoundedInduction, TLAPS

CallType == [at : Places, name : Name \union {None}, body : Body, labels : SUBSET Label,
             path : Seq(Ref), next : Body, version : Nat, promote : BOOLEAN]

ChannelType == [version : Nat, split : Nat \union {None}]

Shape ==
    /\ versions \in [Name -> Seq(Body)]
    /\ channel \in [Name -> [Label -> ChannelType \union {None}]]
    /\ call \in [Editor -> CallType]
    /\ raced \in BOOLEAN
    /\ settled \in [Name -> BOOLEAN]
    /\ spent \in [Kinds -> Nat]

\* What a call may rely on where it is.
PlaceOf(e) ==
    /\ call[e].at # "idle" => call[e].name \in Name
    /\ call[e].at = "compose" => call[e].next # None
    /\ call[e].at = "create" => call[e].version <= Len(versions[call[e].name]) + 1
    /\ call[e].at \in {"label", "start", "stop"} =>
          call[e].version \in 1..Len(versions[call[e].name])
    /\ call[e].at = "label" => versions[call[e].name][call[e].version] = call[e].body
    /\ call[e].at = "start" => \A l \in call[e].labels : channel[call[e].name][l] # None

\* Channels point at what is there.
Points ==
    \A n \in Name, l \in Label : channel[n][l] # None =>
        /\ channel[n][l].version \in 1..Len(versions[n])
        /\ channel[n][l].split \in 1..Len(versions[n]) \union {None}

TypeInv == Shape /\ Points /\ \A e \in Editor : PlaceOf(e)

LEMMA SpendTyped ==
    ASSUME spent \in [Kinds -> Nat], NEW kind \in Kinds, Spend(kind)
    PROVE  spent' \in [Kinds -> Nat]
  BY DEF Spend

(* A save only ever adds a version.                                        *)
LEMMA VersionsGrow ==
    ASSUME Shape, NEW e \in Editor, Create(e), PlaceOf(e)
    PROVE  /\ versions' \in [Name -> Seq(Body)]
           /\ \A n \in Name : Len(versions'[n]) >= Len(versions[n])
           /\ \A n \in Name : \A v \in 1..Len(versions[n]) : versions'[n][v] = versions[n][v]
           /\ IsNew(e) =>
                 /\ Len(versions'[call[e].name]) = Len(versions[call[e].name]) + 1
                 /\ call[e].version = Len(versions[call[e].name]) + 1
                 /\ versions'[call[e].name][call[e].version] = call[e].body
           /\ \A n \in Name \ {call[e].name} : versions'[n] = versions[n]
           /\ ~IsNew(e) => versions' = versions
  <1> DEFINE n == call[e].name
  <1>1. n \in Name /\ call[e].body \in Body /\ call[e].version \in Nat
    BY DEF PlaceOf, Create, Shape, CallType
  <1>2. versions[n] \in Seq(Body)
    BY <1>1 DEF Shape
  <1>3. CASE IsNew(e)
    <2>1. versions' = [versions EXCEPT ![n] = Append(versions[n], call[e].body)]
      BY <1>3 DEF Create
    <2>2. versions'[n] = Append(versions[n], call[e].body) /\ \A m \in Name \ {n} : versions'[m] = versions[m]
      BY <1>1, <2>1 DEF Shape
    <2>3. /\ versions'[n] \in Seq(Body)
          /\ Len(versions'[n]) = Len(versions[n]) + 1
          /\ \A v \in 1..Len(versions[n]) : versions'[n][v] = versions[n][v]
          /\ versions'[n][Len(versions[n]) + 1] = call[e].body
      <3> DEFINE old == versions[n]
                 new == Append(old, call[e].body)
      <3>1. old \in Seq(Body) /\ call[e].body \in Body
        BY <1>1, <1>2
      <3> HIDE DEF old
      <3>2. /\ new \in Seq(Body) /\ Len(new) = Len(old) + 1
            /\ \A v \in 1..Len(old) : new[v] = old[v]
            /\ new[Len(old) + 1] = call[e].body
        BY <3>1, AppendProperties
      <3> QED
        BY <2>2, <3>2 DEF old
    <2>4. \A m \in Name : Len(versions[m]) \in Nat
      BY LenProperties DEF Shape
    <2>5. call[e].version = Len(versions[n]) + 1
      BY <1>1, <1>3, <2>4 DEF IsNew, Create, PlaceOf
    <2>6. versions' \in [Name -> Seq(Body)]
      BY <1>1, <2>1, <2>2, <2>3 DEF Shape
    <2>7. \A m \in Name : /\ Len(versions'[m]) >= Len(versions[m])
                          /\ \A v \in 1..Len(versions[m]) : versions'[m][v] = versions[m][v]
      <3>1. Len(versions'[n]) >= Len(versions[n])
        BY <1>1, <2>3, <2>4
      <3>2. \A m \in Name \ {n} : Len(versions'[m]) >= Len(versions[m])
        BY <2>2, <2>4
      <3> QED
        BY <2>2, <2>3, <3>1, <3>2
    <2> QED
      BY <1>3, <2>2, <2>3, <2>5, <2>6, <2>7
  <1>4. CASE ~IsNew(e)
    <2>1. versions' = versions
      BY <1>4 DEF Create
    <2>2. \A m \in Name : Len(versions[m]) \in Nat
      BY LenProperties DEF Shape
    <2> QED
      BY <1>4, <2>1, <2>2 DEF Shape
  <1> QED
    BY <1>3, <1>4

-----------------------------------------------------------------------------
(* The calls beside e are left alone.                                      *)
Others(e) == \A f \in Editor \ {e} : call'[f] = call[f]

LEMMA PlacesHas == /\ {"idle", "compose", "number", "create"} \subseteq Places
                   /\ {"label", "start", "stop"} \subseteq Places
  BY DEF Places

(* Putting a record of the right type in the place of e.                   *)
LEMMA CallSet ==
    ASSUME Shape, NEW e \in Editor, NEW c \in CallType, call' = [call EXCEPT ![e] = c]
    PROVE  call' \in [Editor -> CallType] /\ Others(e) /\ call'[e] = c
  BY DEF Shape, Others

LEMMA IdleTyped == Idle \in CallType /\ Idle.at = "idle"
  <1>1. <<>> \in Seq(Ref)
    BY EmptySeq
  <1> QED
    BY <1>1 DEF Idle, CallType, Places, Body

(* The records that steps of a call make.                                  *)
LEMMA NumberSets ==
    ASSUME Shape, NEW e \in Editor, PlaceOf(e), Number(e)
    PROVE  /\ call' \in [Editor -> CallType] /\ Others(e)
           /\ call'[e] = [call[e] EXCEPT !.at = "create", !.version = Len(versions[call[e].name]) + 1]
  <1> DEFINE c == [call[e] EXCEPT !.at = "create", !.version = Len(versions[call[e].name]) + 1]
  <1>1. call[e] \in CallType /\ call[e].name \in Name
    BY DEF Shape, PlaceOf, Number
  <1>2. Len(versions[call[e].name]) + 1 \in Nat
    BY <1>1, LenProperties DEF Shape
  <1>3. c \in CallType
    BY <1>1, <1>2, PlacesHas DEF CallType
  <1>4. call' = [call EXCEPT ![e] = c]
    BY DEF Number, NextVersion
  <1> QED
    BY <1>3, <1>4, CallSet

LEMMA CreateSets ==
    ASSUME Shape, NEW e \in Editor, Create(e)
    PROVE  /\ call' \in [Editor -> CallType] /\ Others(e)
           /\ call'[e] = IF IsNew(e) THEN [call[e] EXCEPT !.at = "label"] ELSE Idle
  <1> DEFINE c == [call[e] EXCEPT !.at = "label"]
  <1>1. c \in CallType
    BY PlacesHas DEF Shape, CallType
  <1>2. call' = [call EXCEPT ![e] = IF IsNew(e) THEN c ELSE Idle]
    BY DEF Create
  <1> QED
    BY <1>1, <1>2, CallSet, IdleTyped

\* e goes on with the save it was given.
SameSave(e) ==
    /\ call'[e].name = call[e].name /\ call'[e].body = call[e].body
    /\ call'[e].labels = call[e].labels

LEMMA TargetThere ==
    ASSUME Shape, Points, NEW ref \in Ref, Target(ref) # 0
    PROVE  /\ ref.name \in Name
           /\ Target(ref) \in 1..Len(versions[ref.name])
           /\ versions[ref.name][Target(ref)] \in Body
  <1>1. ref.name \in Name
    BY DEF Ref
  <1>2. versions[ref.name] \in Seq(Body)
    BY <1>1 DEF Shape
  <1>3. Target(ref) \in 1..Len(versions[ref.name])
    <2>1. CASE ref.label = None
      <3>1. ref.version \in Pins
        BY <2>1, PromptAssumption DEF Ref
      <3>2. ref.version \in Nat \ {0} /\ Len(versions[ref.name]) \in Nat
        BY <3>1, <1>2, PromptAssumption, LenProperties
      <3> QED
        BY <2>1, <3>2 DEF Target
    <2>2. CASE ref.label # None
      <3>1. ref.label \in Label
        BY <2>2 DEF Ref
      <3> QED
        BY <1>1, <2>2, <3>1 DEF Target, Points
    <2> QED
      BY <2>1, <2>2
  <1> QED
    BY <1>1, <1>2, <1>3, ElementOfSeq

LEMMA ComposeSets ==
    ASSUME Shape, Points, NEW e \in Editor, PlaceOf(e), Compose(e)
    PROVE  /\ call' \in [Editor -> CallType] /\ Others(e)
           /\ \/ call'[e] = Idle /\ settled' = [settled EXCEPT ![call[e].name] = FALSE]
              \/ /\ call'[e].at \in {"compose", "number"}
                 /\ call'[e].at = "compose" => call'[e].next # None
                 /\ SameSave(e) /\ settled' = settled
  <1> DEFINE ref == call[e].next
             path == Append(call[e].path, ref)
             refused == \/ ref \in ToSet(call[e].path) \/ Occupied(e, ref)
                        \/ Target(ref) = 0 \/ Len(path) > MaxDepth
             next == versions[ref.name][Target(ref)]
             onward == [call[e] EXCEPT !.path = path, !.next = next]
             over == [call[e] EXCEPT !.at = "number", !.path = <<>>, !.next = None]
  <1>1. call[e] \in CallType /\ call[e].at = "compose" /\ ref \in Ref
    BY DEF Shape, CallType, PlaceOf, Compose, Body
  <1>2. path \in Seq(Ref) /\ <<>> \in Seq(Ref)
    BY <1>1, AppendProperties, EmptySeq DEF CallType
  <1>3. ~refused => next \in Body
    BY <1>1, TargetThere
  <1>4. /\ over \in CallType
        /\ ~refused => onward \in CallType
    BY <1>1, <1>2, <1>3, PlacesHas DEF CallType, Body
  <1>5. CASE refused
    <2>1. call' = [call EXCEPT ![e] = Idle] /\ settled' = [settled EXCEPT ![call[e].name] = FALSE]
      BY <1>5 DEF Compose
    <2> QED
      BY <2>1, CallSet, IdleTyped
  <1>6. CASE ~refused /\ next # None
    <2>1. call' = [call EXCEPT ![e] = onward] /\ settled' = settled
      BY <1>6 DEF Compose
    <2>2. /\ onward.at = "compose" /\ onward.next = next /\ onward.name = call[e].name
          /\ onward.body = call[e].body /\ onward.labels = call[e].labels
      BY <1>1 DEF CallType
    <2> QED
      BY <1>4, <1>6, <2>1, <2>2, CallSet DEF SameSave
  <1>7. CASE ~refused /\ next = None
    <2>1. call' = [call EXCEPT ![e] = over] /\ settled' = settled
      BY <1>7 DEF Compose
    <2>2. /\ over.at = "number" /\ over.name = call[e].name
          /\ over.body = call[e].body /\ over.labels = call[e].labels
      BY <1>1 DEF CallType
    <2> QED
      BY <1>4, <2>1, <2>2, CallSet DEF SameSave
  <1> QED
    BY <1>5, <1>6, <1>7

\* A call on prompt n begins at place.
Started(e, n, place) ==
    /\ call[e].at = "idle"
    /\ call'[e].at = place /\ call'[e].name = n /\ call'[e].next = call'[e].body

LEMMA BeginSets ==
    ASSUME Shape, Points, NEW e \in Editor, Save(e) \/ StartExperiment(e) \/ StopExperiment(e)
    PROVE  /\ call' \in [Editor -> CallType] /\ Others(e)
           /\ \E n \in Name :
                 \/ /\ Save(e) /\ Begins(n, TRUE)
                    /\ \E place \in {"compose", "number"} : Started(e, n, place)
                    /\ call'[e].at = "compose" => call'[e].body # None
                    /\ "latest" \in call'[e].labels
                 \/ /\ StartExperiment(e) /\ Begins(n, FALSE) /\ Started(e, n, "start")
                    /\ \E l \in Label : /\ channel[n][l] # None /\ call'[e].labels = {l}
                                        /\ call'[e].version \in Challengers(n, l)
                 \/ /\ StopExperiment(e) /\ Begins(n, FALSE) /\ Started(e, n, "stop")
                    /\ \E l \in Label :
                          /\ channel[n][l] # None /\ call'[e].labels = {l}
                          /\ call'[e].version = Winner(channel[n][l], call'[e].promote)
  <1>1. CASE Save(e)
    <2>1. PICK n \in Name, labels \in SUBSET Labels, body \in Body :
             /\ call' = [call EXCEPT ![e] =
                   [Idle EXCEPT !.at = IF body = None THEN "number" ELSE "compose",
                                !.name = n, !.body = body, !.labels = SaveLabels(labels), !.next = body]]
             /\ Begins(n, TRUE)
      BY <1>1 DEF Save
    <2> DEFINE c == [Idle EXCEPT !.at = IF body = None THEN "number" ELSE "compose",
                                 !.name = n, !.body = body, !.labels = SaveLabels(labels), !.next = body]
    <2>2. SaveLabels(labels) \in SUBSET Label /\ "latest" \in SaveLabels(labels)
      BY DEF SaveLabels, Label
    <2>3. c \in CallType
      BY <2>2, IdleTyped, PlacesHas DEF CallType
    <2>4. /\ c.at = IF body = None THEN "number" ELSE "compose"
          /\ c.name = n /\ c.body = body /\ c.next = body /\ c.labels = SaveLabels(labels)
      BY DEF Idle
    <2>5. call' \in [Editor -> CallType] /\ Others(e) /\ call'[e] = c
      BY <2>1, <2>3, CallSet
    <2>6. call[e].at = "idle"
      BY <1>1 DEF Save
    <2> HIDE DEF c
    <2>7. \E place \in {"compose", "number"} : Started(e, n, place)
      BY <2>4, <2>5, <2>6 DEF Started
    <2>8. (call'[e].at = "compose" => call'[e].body # None) /\ "latest" \in call'[e].labels
      BY <2>2, <2>4, <2>5
    <2> QED
      BY <1>1, <2>1, <2>5, <2>7, <2>8
  <1>2. CASE StartExperiment(e)
    <2>1. PICK n \in Name, l \in Label :
             /\ channel[n][l] # None
             /\ \E v \in Challengers(n, l) :
                   call' = [call EXCEPT ![e] = [Idle EXCEPT !.at = "start", !.name = n, !.labels = {l},
                                                            !.version = v]]
             /\ Begins(n, FALSE)
      BY <1>2 DEF StartExperiment
    <2>2. PICK v \in Challengers(n, l) :
             call' = [call EXCEPT ![e] = [Idle EXCEPT !.at = "start", !.name = n, !.labels = {l},
                                                      !.version = v]]
      BY <2>1
    <2> DEFINE c == [Idle EXCEPT !.at = "start", !.name = n, !.labels = {l}, !.version = v]
    <2>3. v \in Nat
      BY LenProperties DEF Challengers, Shape
    <2>4. c \in CallType
      BY <2>3, IdleTyped, PlacesHas DEF CallType
    <2>5. c.at = "start" /\ c.name = n /\ c.next = c.body /\ c.labels = {l} /\ c.version = v
      BY DEF Idle
    <2>6. call' \in [Editor -> CallType] /\ Others(e) /\ call'[e] = c
      BY <2>2, <2>4, CallSet
    <2>7. call[e].at = "idle"
      BY <1>2 DEF StartExperiment
    <2> HIDE DEF c
    <2>8. Started(e, n, "start") /\ call'[e].labels = {l} /\ call'[e].version \in Challengers(n, l)
      BY <2>5, <2>6, <2>7 DEF Started
    <2> QED
      BY <1>2, <2>1, <2>6, <2>8
  <1>3. CASE StopExperiment(e)
    <2>1. PICK n \in Name, l \in Label, promote \in BOOLEAN :
             /\ channel[n][l] # None
             /\ call' = [call EXCEPT ![e] =
                   [Idle EXCEPT !.at = "stop", !.name = n, !.labels = {l}, !.promote = promote,
                                !.version = Winner(channel[n][l], promote)]]
             /\ Begins(n, FALSE)
      BY <1>3 DEF StopExperiment
    <2> DEFINE c == [Idle EXCEPT !.at = "stop", !.name = n, !.labels = {l}, !.promote = promote,
                                 !.version = Winner(channel[n][l], promote)]
    <2>2. Winner(channel[n][l], promote) \in Nat
      BY <2>1 DEF Winner, Shape, ChannelType
    <2>3. c \in CallType
      BY <2>2, IdleTyped, PlacesHas DEF CallType
    <2>4. /\ c.at = "stop" /\ c.name = n /\ c.next = c.body /\ c.labels = {l} /\ c.promote = promote
          /\ c.version = Winner(channel[n][l], promote)
      BY DEF Idle
    <2>5. call' \in [Editor -> CallType] /\ Others(e) /\ call'[e] = c
      BY <2>1, <2>3, CallSet
    <2>6. call[e].at = "idle"
      BY <1>3 DEF StopExperiment
    <2> HIDE DEF c
    <2>7. /\ Started(e, n, "stop") /\ call'[e].labels = {l}
          /\ call'[e].version = Winner(channel[n][l], call'[e].promote)
      BY <2>4, <2>5, <2>6 DEF Started
    <2> QED
      BY <1>3, <2>1, <2>5, <2>7
  <1> QED
    BY <1>1, <1>2, <1>3

\* Channel l of prompt n becomes c; the others stay.
Pointed(n, l, c) ==
    /\ channel'[n][l] = c
    /\ \A m \in Name, k \in Label : m # n \/ k # l => channel'[m][k] = channel[m][k]

LEMMA ChannelSet ==
    ASSUME Shape, NEW n \in Name, NEW l \in Label, NEW c \in ChannelType,
           channel' = [channel EXCEPT ![n][l] = c]
    PROVE  /\ channel' \in [Name -> [Label -> ChannelType \union {None}]]
           /\ Pointed(n, l, c)
           /\ c # None
  <1>1. c # None
    BY PromptAssumption DEF ChannelType
  <1> QED
    BY <1>1 DEF Shape, Pointed

LEMMA PointSets ==
    ASSUME Shape, NEW e \in Editor, PlaceOf(e), PointLabel(e)
    PROVE  /\ call' \in [Editor -> CallType] /\ Others(e)
           /\ channel' \in [Name -> [Label -> ChannelType \union {None}]]
           /\ \E l \in call[e].labels :
                 /\ l \in Label
                 /\ "latest" \in call[e].labels => l = "latest"
                 /\ LET old == channel[call[e].name][l]
                        new == [version |-> call[e].version, split |-> IF old = None THEN None ELSE old.split]
                    IN  new # None /\ new \in ChannelType /\ Pointed(call[e].name, l, new)
                 /\ \/ call'[e] = Idle
                    \/ /\ call'[e] = [call[e] EXCEPT !.labels = call[e].labels \ {l}]
  <1> DEFINE n == call[e].name
  <1>1. call[e] \in CallType /\ n \in Name /\ call[e].version \in Nat /\ call[e].labels \subseteq Label
    BY DEF Shape, CallType, PlaceOf, PointLabel
  <1>2. PICK l \in call[e].labels :
           /\ "latest" \in call[e].labels => l = "latest"
           /\ channel' = [channel EXCEPT ![n][l] =
                 [version |-> call[e].version, split |-> IF @ = None THEN None ELSE @.split]]
           /\ call' = [call EXCEPT ![e] =
                 IF call[e].labels \ {l} = {} THEN Idle ELSE [@ EXCEPT !.labels = call[e].labels \ {l}]]
    BY DEF PointLabel
  <1> DEFINE old == channel[n][l]
             new == [version |-> call[e].version, split |-> IF old = None THEN None ELSE old.split]
             left == [call[e] EXCEPT !.labels = call[e].labels \ {l}]
  <1>3. new \in ChannelType
    BY <1>1, <1>2 DEF Shape, ChannelType
  <1>4. channel' = [channel EXCEPT ![n][l] = new]
    BY <1>2
  <1>5. left \in CallType
    BY <1>1 DEF CallType
  <1>6. call' = [call EXCEPT ![e] = IF call[e].labels \ {l} = {} THEN Idle ELSE left]
    BY <1>2
  <1> HIDE DEF new, left
  <1>7. channel' \in [Name -> [Label -> ChannelType \union {None}]] /\ Pointed(n, l, new) /\ new # None
    BY <1>1, <1>2, <1>3, <1>4, ChannelSet
  <1>8. call' \in [Editor -> CallType] /\ Others(e) /\ (call'[e] = Idle \/ call'[e] = left)
    BY <1>5, <1>6, CallSet, IdleTyped
  <1> QED
    BY <1>1, <1>2, <1>3, <1>7, <1>8 DEF new, left

LEMMA WriteSets ==
    ASSUME Shape, NEW e \in Editor, PlaceOf(e), WriteSplit(e) \/ WriteWinner(e)
    PROVE  /\ channel' \in [Name -> [Label -> ChannelType \union {None}]]
           /\ \E l \in call[e].labels, c \in ChannelType :
                 /\ l \in Label /\ c # None /\ Pointed(call[e].name, l, c)
                 /\ WriteSplit(e) => /\ channel[call[e].name][l] # None
                                     /\ c.version = channel[call[e].name][l].version
                                     /\ c.split = call[e].version
                 /\ WriteWinner(e) => c.version = call[e].version /\ c.split = None
  <1> DEFINE n == call[e].name
  <1>1. call[e] \in CallType /\ n \in Name /\ call[e].version \in Nat /\ call[e].labels \subseteq Label
    BY DEF Shape, CallType, PlaceOf, WriteSplit, WriteWinner
  <1>2. CASE WriteSplit(e)
    <2>1. PICK l \in call[e].labels : channel' = [channel EXCEPT ![n][l].split = call[e].version]
      BY <1>2 DEF WriteSplit
    <2>2. l \in Label /\ channel[n][l] \in ChannelType /\ channel[n][l] # None
      BY <1>1, <1>2, <2>1 DEF WriteSplit, PlaceOf, Shape
    <2> DEFINE c == [channel[n][l] EXCEPT !.split = call[e].version]
    <2>3. c \in ChannelType /\ c.version = channel[n][l].version /\ c.split = call[e].version
      BY <1>1, <2>2 DEF ChannelType
    <2>4. channel' = [channel EXCEPT ![n][l] = c]
      BY <2>1
    <2>5. ~WriteWinner(e)
      BY <1>2 DEF WriteSplit, WriteWinner
    <2> HIDE DEF c
    <2> QED
      <3>1. /\ channel' \in [Name -> [Label -> ChannelType \union {None}]]
            /\ Pointed(n, l, c) /\ c # None
        BY <1>1, <2>2, <2>3, <2>4, ChannelSet
      <3> QED
        BY <2>1, <2>2, <2>3, <2>5, <3>1
  <1>3. CASE WriteWinner(e)
    <2>1. PICK l \in call[e].labels :
             channel' = [channel EXCEPT ![n][l] = [version |-> call[e].version, split |-> None]]
      BY <1>3 DEF WriteWinner
    <2> DEFINE c == [version |-> call[e].version, split |-> None]
    <2>2. c \in ChannelType /\ c.version = call[e].version /\ c.split = None
      BY <1>1 DEF ChannelType
    <2>3. ~WriteSplit(e)
      BY <1>3 DEF WriteSplit, WriteWinner
    <2> HIDE DEF c
    <2> QED
      BY <1>1, <2>1, <2>2, <2>3, ChannelSet DEF c
  <1> QED
    BY <1>2, <1>3

-----------------------------------------------------------------------------
(* The parts of the invariant that a step of e can disturb.                *)

\* Nothing a call beside e relies on has gone.
LEMMA OthersKeep ==
    ASSUME Shape, NEW e \in Editor, Others(e), \A f \in Editor : PlaceOf(f),
           \A n \in Name : Len(versions'[n]) >= Len(versions[n]),
           \A n \in Name : Len(versions'[n]) \in Nat /\ Len(versions[n]) \in Nat,
           \A n \in Name : \A v \in 1..Len(versions[n]) : versions'[n][v] = versions[n][v],
           \A n \in Name, l \in Label : channel[n][l] # None => channel'[n][l] # None
    PROVE  \A f \in Editor \ {e} : PlaceOf(f)'
  <1> SUFFICES ASSUME NEW f \in Editor \ {e}
               PROVE  PlaceOf(f)'
    OBVIOUS
  <1> DEFINE n == call[f].name
  <1>1. call'[f] = call[f] /\ PlaceOf(f) /\ call[f] \in CallType
    BY DEF Others, Shape
  <1>2. CASE call[f].at = "idle"
    BY <1>1, <1>2 DEF PlaceOf
  <1>3. CASE call[f].at # "idle"
    <2>1. n \in Name /\ call[f].version \in Nat /\ call[f].labels \subseteq Label
      BY <1>1, <1>3 DEF PlaceOf, CallType
    <2>2. call[f].at = "create" => call[f].version <= Len(versions'[n]) + 1
      BY <1>1, <2>1 DEF PlaceOf
    <2>3. call[f].at \in {"label", "start", "stop"} => call[f].version \in 1..Len(versions'[n])
      BY <1>1, <2>1 DEF PlaceOf
    <2>4. call[f].at = "label" => versions'[n][call[f].version] = call[f].body
      BY <1>1, <2>1 DEF PlaceOf
    <2>5. call[f].at = "start" => \A l \in call[f].labels : channel'[n][l] # None
      BY <1>1, <2>1 DEF PlaceOf
    <2> QED
      BY <1>1, <1>3, <2>1, <2>2, <2>3, <2>4, <2>5 DEF PlaceOf
  <1> QED
    BY <1>2, <1>3

\* No channel changes.
LEMMA PointsKeep ==
    ASSUME Shape, Points, channel' = channel,
           \A n \in Name : Len(versions'[n]) >= Len(versions[n]),
           \A n \in Name : Len(versions'[n]) \in Nat /\ Len(versions[n]) \in Nat
    PROVE  Points'
  BY DEF Points

\* One does, and points at what is there.
LEMMA PointsMove ==
    ASSUME Shape, Points, versions' = versions, NEW n \in Name, NEW l \in Label, NEW c,
           Pointed(n, l, c),
           c.version \in 1..Len(versions[n]), c.split \in 1..Len(versions[n]) \union {None}
    PROVE  Points'
  <1> SUFFICES ASSUME NEW m \in Name, NEW k \in Label, channel'[m][k] # None
               PROVE  /\ channel'[m][k].version \in 1..Len(versions[m])
                      /\ channel'[m][k].split \in 1..Len(versions[m]) \union {None}
    BY DEF Points
  <1>1. CASE m = n /\ k = l
    BY <1>1 DEF Pointed
  <1>2. CASE m # n \/ k # l
    BY <1>2 DEF Pointed, Points
  <1> QED
    BY <1>1, <1>2

LEMMA Lengths ==
    ASSUME Shape
    PROVE  \A n \in Name : Len(versions[n]) \in Nat /\ DOMAIN versions[n] = 1..Len(versions[n])
  BY LenProperties DEF Shape

LEMMA TypeInvInductive ==
    ASSUME TypeInv, [Next]_vars
    PROVE  TypeInv'
  <1>1. Shape /\ Points /\ \A e \in Editor : PlaceOf(e)
    BY DEF TypeInv
  <1>2. \A n \in Name : Len(versions[n]) \in Nat /\ DOMAIN versions[n] = 1..Len(versions[n])
    BY <1>1, Lengths
  <1>3. CASE UNCHANGED vars
    BY <1>1, <1>3 DEF vars, TypeInv, Shape, Points, PlaceOf
  <1>4. ASSUME NEW e \in Editor, Others(e), versions' = versions, Shape', Points', PlaceOf(e)',
               \A n \in Name, l \in Label : channel[n][l] # None => channel'[n][l] # None
        PROVE  TypeInv'
    <2>1. \A f \in Editor \ {e} : PlaceOf(f)'
      BY <1>1, <1>2, <1>4, OthersKeep
    <2> QED
      BY <1>4, <2>1 DEF TypeInv
  <1>5. \A kind \in Kinds : Spend(kind) => spent' \in [Kinds -> Nat]
    BY <1>1, SpendTyped DEF Shape
  <1>6. \A e \in Editor : call'[e] = Idle => PlaceOf(e)'
    BY DEF Idle, PlaceOf
  <1>7. ASSUME NEW e \in Editor, Save(e) \/ StartExperiment(e) \/ StopExperiment(e)
        PROVE  TypeInv'
    <2>1. UNCHANGED <<versions, channel>> /\ spent' \in [Kinds -> Nat]
      BY <1>5, <1>7 DEF Save, StartExperiment, StopExperiment, Kinds
    <2>2. call' \in [Editor -> CallType] /\ Others(e)
      BY <1>1, <1>7, BeginSets
    <2>3. \A n \in Name, save \in BOOLEAN :
             Begins(n, save) => raced' \in BOOLEAN /\ settled' \in [Name -> BOOLEAN]
      BY <1>1 DEF Begins, Shape
    <2>4. Shape'
      BY <1>1, <1>7, <2>1, <2>2, <2>3, BeginSets DEF Shape
    <2>5. Points'
      BY <1>1, <2>1 DEF Points
    <2>6. PICK n \in Name :
             \/ /\ \E place \in {"compose", "number"} : Started(e, n, place)
                /\ call'[e].at = "compose" => call'[e].body # None
             \/ /\ Started(e, n, "start")
                /\ \E l \in Label : /\ channel[n][l] # None /\ call'[e].labels = {l}
                                    /\ call'[e].version \in Challengers(n, l)
             \/ /\ Started(e, n, "stop")
                /\ \E l \in Label : /\ channel[n][l] # None
                                    /\ call'[e].version = Winner(channel[n][l], call'[e].promote)
      BY <1>1, <1>7, BeginSets
    <2>7. ASSUME NEW place \in {"compose", "number"}, Started(e, n, place),
                 call'[e].at = "compose" => call'[e].body # None
          PROVE  PlaceOf(e)'
      BY <2>7 DEF Started, PlaceOf
    <2>8. ASSUME Started(e, n, "start"), NEW l \in Label, channel[n][l] # None,
                 call'[e].labels = {l}, call'[e].version \in Challengers(n, l)
          PROVE  PlaceOf(e)'
      <3>1. call'[e].version \in 1..Len(versions'[n]) /\ \A k \in call'[e].labels : channel'[n][k] # None
        BY <1>2, <2>1, <2>8 DEF Challengers
      <3> QED
        BY <2>8, <3>1 DEF Started, PlaceOf
    <2>9. ASSUME Started(e, n, "stop"), NEW l \in Label, channel[n][l] # None,
                 call'[e].version = Winner(channel[n][l], call'[e].promote)
          PROVE  PlaceOf(e)'
      <3>1. call'[e].version \in 1..Len(versions'[n])
        BY <1>1, <2>1, <2>9 DEF Winner, Points
      <3> QED
        BY <2>9, <3>1 DEF Started, PlaceOf
    <2>10. PlaceOf(e)'
      BY <2>6, <2>7, <2>8, <2>9
    <2> QED
      BY <1>4, <2>1, <2>2, <2>4, <2>5, <2>10
  <1>8. ASSUME NEW e \in Editor, Compose(e)
        PROVE  TypeInv'
    <2>1. UNCHANGED <<versions, channel, raced, spent>>
      BY <1>8 DEF Compose
    <2>2. /\ call' \in [Editor -> CallType] /\ Others(e)
          /\ \/ call'[e] = Idle /\ settled' = [settled EXCEPT ![call[e].name] = FALSE]
             \/ /\ call'[e].at \in {"compose", "number"}
                /\ call'[e].at = "compose" => call'[e].next # None
                /\ SameSave(e) /\ settled' = settled
      BY <1>1, <1>8, ComposeSets
    <2>3. Shape'
      BY <1>1, <2>1, <2>2 DEF Shape
    <2>4. Points'
      BY <1>1, <2>1 DEF Points
    <2>5. call[e].name \in Name
      BY <1>1, <1>8 DEF Compose, PlaceOf
    <2>6. PlaceOf(e)'
      BY <1>6, <2>2, <2>5 DEF SameSave, PlaceOf
    <2> QED
      BY <1>4, <2>1, <2>2, <2>3, <2>4, <2>6
  <1>9. ASSUME NEW e \in Editor, Number(e)
        PROVE  TypeInv'
    <2>1. UNCHANGED <<versions, channel, raced, settled, spent>>
      BY <1>9 DEF Number
    <2>2. /\ call' \in [Editor -> CallType] /\ Others(e)
          /\ call'[e] = [call[e] EXCEPT !.at = "create", !.version = Len(versions[call[e].name]) + 1]
      BY <1>1, <1>9, NumberSets
    <2>3. call[e].name \in Name /\ call[e] \in CallType
      BY <1>1, <1>9 DEF Number, PlaceOf, Shape
    <2>4. /\ call'[e].at = "create" /\ call'[e].name = call[e].name
          /\ call'[e].version = Len(versions[call[e].name]) + 1
      BY <2>2, <2>3 DEF CallType
    <2>5. PlaceOf(e)'
      BY <1>2, <2>1, <2>3, <2>4 DEF PlaceOf
    <2>6. Shape' /\ Points'
      BY <1>1, <2>1, <2>2 DEF Shape, Points
    <2> QED
      BY <1>4, <2>1, <2>2, <2>5, <2>6
  <1>10. ASSUME NEW e \in Editor, Create(e)
         PROVE  TypeInv'
    <2>1. UNCHANGED <<channel, raced, spent>>
      BY <1>10 DEF Create
    <2>2. /\ call' \in [Editor -> CallType] /\ Others(e)
          /\ call'[e] = IF IsNew(e) THEN [call[e] EXCEPT !.at = "label"] ELSE Idle
      BY <1>1, <1>10, CreateSets
    <2>3. /\ versions' \in [Name -> Seq(Body)]
          /\ \A n \in Name : Len(versions'[n]) >= Len(versions[n])
          /\ \A n \in Name : \A v \in 1..Len(versions[n]) : versions'[n][v] = versions[n][v]
      BY <1>1, <1>10, VersionsGrow
    <2>4. settled' \in [Name -> BOOLEAN]
      BY <1>1, <1>10 DEF Create, Shape
    <2>5. Shape'
      BY <1>1, <2>1, <2>2, <2>3, <2>4 DEF Shape
    <2>6. \A n \in Name : Len(versions'[n]) \in Nat
      BY <2>3, LenProperties
    <2>7. Points'
      BY <1>1, <1>2, <2>1, <2>3, <2>6, PointsKeep
    <2>8. \A f \in Editor \ {e} : PlaceOf(f)'
      BY <1>1, <1>2, <2>1, <2>2, <2>3, <2>6, OthersKeep
    <2>9. PlaceOf(e)'
      <3>1. CASE IsNew(e)
        <4>1. call[e].name \in Name /\ call[e] \in CallType
          BY <1>1, <1>10 DEF Create, PlaceOf, Shape
        <4>2. /\ call'[e].at = "label" /\ call'[e].name = call[e].name
              /\ call'[e].version = call[e].version /\ call'[e].body = call[e].body
          BY <2>2, <3>1, <4>1 DEF CallType
        <4>3. /\ Len(versions'[call[e].name]) = Len(versions[call[e].name]) + 1
              /\ call[e].version = Len(versions[call[e].name]) + 1
              /\ versions'[call[e].name][call[e].version] = call[e].body
          BY <1>1, <1>10, <3>1, VersionsGrow
        <4>4. call[e].version \in 1..Len(versions'[call[e].name])
          BY <1>2, <4>1, <4>3
        <4> QED
          BY <4>1, <4>2, <4>3, <4>4 DEF PlaceOf
      <3>2. CASE ~IsNew(e)
        BY <1>6, <2>2, <3>2
      <3> QED
        BY <3>1, <3>2
    <2> QED
      BY <2>5, <2>7, <2>8, <2>9 DEF TypeInv
  <1>11. ASSUME NEW e \in Editor, PointLabel(e)
         PROVE  TypeInv'
    <2> DEFINE n == call[e].name
    <2>1. UNCHANGED <<versions, raced, settled, spent>>
      BY <1>11 DEF PointLabel
    <2>2. n \in Name /\ call[e] \in CallType /\ call[e].at = "label"
      BY <1>1, <1>11 DEF PointLabel, PlaceOf, Shape
    <2>3. /\ call' \in [Editor -> CallType] /\ Others(e)
          /\ channel' \in [Name -> [Label -> ChannelType \union {None}]]
      BY <1>1, <1>11, PointSets
    <2>4. PICK l \in Label, new \in ChannelType :
             /\ new # None /\ Pointed(n, l, new)
             /\ new.version = call[e].version
             /\ new.split = IF channel[n][l] = None THEN None ELSE channel[n][l].split
             /\ call'[e] = Idle \/ call'[e] = [call[e] EXCEPT !.labels = call[e].labels \ {l}]
      BY <1>1, <1>11, PointSets
    <2>5. Shape'
      BY <1>1, <2>1, <2>3 DEF Shape
    <2>6. new.version \in 1..Len(versions[n]) /\ new.split \in 1..Len(versions[n]) \union {None}
      BY <1>1, <2>2, <2>4 DEF PlaceOf, Points
    <2>7. Points'
      BY <1>1, <2>1, <2>2, <2>4, <2>6, PointsMove
    <2>8. \A m \in Name, k \in Label : channel[m][k] # None => channel'[m][k] # None
      BY <2>2, <2>4 DEF Pointed
    <2>9. PlaceOf(e)'
      <3>1. CASE call'[e] = Idle
        BY <1>6, <3>1
      <3>2. CASE call'[e] = [call[e] EXCEPT !.labels = call[e].labels \ {l}]
        <4>1. /\ call'[e].at = "label" /\ call'[e].name = n /\ call'[e].body = call[e].body
              /\ call'[e].version = call[e].version
          BY <2>2, <3>2 DEF CallType
        <4>2. call[e].version \in 1..Len(versions[n]) /\ versions[n][call[e].version] = call[e].body
          BY <1>1, <2>2 DEF PlaceOf
        <4> QED
          BY <2>1, <2>2, <4>1, <4>2 DEF PlaceOf
      <3> QED
        BY <2>4, <3>1, <3>2
    <2> QED
      BY <1>4, <2>1, <2>3, <2>5, <2>7, <2>8, <2>9
  <1>12. ASSUME NEW e \in Editor, WriteSplit(e) \/ WriteWinner(e)
         PROVE  TypeInv'
    <2> DEFINE n == call[e].name
    <2>1. UNCHANGED <<versions, raced, settled, spent>> /\ call' = [call EXCEPT ![e] = Idle]
      BY <1>12 DEF WriteSplit, WriteWinner
    <2>2. n \in Name /\ call[e] \in CallType /\ call[e].version \in 1..Len(versions[n])
      BY <1>1, <1>12 DEF WriteSplit, WriteWinner, PlaceOf, Shape
    <2>3. call' \in [Editor -> CallType] /\ Others(e) /\ call'[e] = Idle
      BY <1>1, <2>1, CallSet, IdleTyped
    <2>4. channel' \in [Name -> [Label -> ChannelType \union {None}]]
      BY <1>1, <1>12, WriteSets
    <2>5. PICK l \in Label, c \in ChannelType :
             /\ c # None /\ Pointed(n, l, c)
             /\ WriteSplit(e) => /\ channel[n][l] # None /\ c.version = channel[n][l].version
                                 /\ c.split = call[e].version
             /\ WriteWinner(e) => c.version = call[e].version /\ c.split = None
      BY <1>1, <1>12, WriteSets
    <2>6. Shape'
      BY <1>1, <2>1, <2>3, <2>4 DEF Shape
    <2>7. c.version \in 1..Len(versions[n]) /\ c.split \in 1..Len(versions[n]) \union {None}
      BY <1>1, <1>12, <2>2, <2>5 DEF Points
    <2>8. Points'
      BY <1>1, <2>1, <2>2, <2>5, <2>7, PointsMove
    <2>9. \A m \in Name, k \in Label : channel[m][k] # None => channel'[m][k] # None
      BY <2>2, <2>5 DEF Pointed
    <2> QED
      BY <1>4, <1>6, <2>1, <2>3, <2>6, <2>8, <2>9
  <1>13. ASSUME NEW e \in Editor, Abort(e)
         PROVE  TypeInv'
    <2>1. UNCHANGED <<versions, channel, raced>> /\ call' = [call EXCEPT ![e] = Idle]
      BY <1>13 DEF Abort
    <2>2. call' \in [Editor -> CallType] /\ Others(e) /\ call'[e] = Idle
      BY <1>1, <2>1, CallSet, IdleTyped
    <2>3. settled' \in [Name -> BOOLEAN] /\ spent' \in [Kinds -> Nat]
      BY <1>1, <1>5, <1>13 DEF Abort, Shape, Kinds
    <2>4. Shape' /\ Points'
      BY <1>1, <2>1, <2>2, <2>3 DEF Shape, Points
    <2> QED
      BY <1>4, <1>6, <2>1, <2>2, <2>4
  <1> QED
    BY <1>3, <1>7, <1>8, <1>9, <1>10, <1>11, <1>12, <1>13 DEF Next, CreatePromptVersion

LEMMA TypeInvHolds == Spec => []TypeInv
  <1>1. ASSUME Init
        PROVE  TypeInv
    <2>1. call \in [Editor -> CallType] /\ \A e \in Editor : call[e] = Idle
      BY <1>1, IdleTyped DEF Init
    <2>2. versions \in [Name -> Seq(Body)]
      BY <1>1, EmptySeq DEF Init
    <2>3. \A e \in Editor : PlaceOf(e)
      BY <2>1 DEF PlaceOf, Idle
    <2> QED
      BY <1>1, <2>1, <2>2, <2>3 DEF Init, TypeInv, Shape, Points
  <1>2. TypeInv /\ [Next]_vars => TypeInv'
    BY TypeInvInductive
  <1> QED
    BY <1>1, <1>2, PTL DEF Spec

(* Types, and that every channel, control and challenger, is a version of  *)
(* its prompt: versions only grow, and what a save, a promotion or a stop  *)
(* is about to write was there when it looked (createPromptVersion,        *)
(* startExperiment, stopExperiment).                                       *)
THEOREM TypeSafe == Spec => []TypeOK
  <1>1. TypeInv => TypeOK
    <2> SUFFICES ASSUME TypeInv
                 PROVE  TypeOK
      OBVIOUS
    <2>1. \A n \in Name : VersionOf(n) = 1..Len(versions[n])
      BY Lengths DEF TypeInv, VersionOf
    <2>2. \A e \in Editor : call[e] \in CallType
      BY DEF TypeInv, Shape
    <2> QED
      BY <2>1, <2>2 DEF TypeInv, Shape, Points, TypeOK, CallType
  <1> QED
    BY <1>1, TypeInvHolds, PTL

(* A save that took a version number another one took as well does not     *)
(* point a channel at the other's body (createPromptVersion; the unique    *)
(* index on prompt and version).                                           *)
THEOREM OwnBodySafe == Spec => []ChannelsGetOwnBody
  <1>1. TypeInv => ChannelsGetOwnBody
    BY Lengths DEF TypeInv, PlaceOf, ChannelsGetOwnBody, VersionOf
  <1> QED
    BY <1>1, TypeInvHolds, PTL

-----------------------------------------------------------------------------
(* While calls take turns, what a call read is what it writes over.        *)
ArmsOf(e) ==
    /\ call[e].at = "label" => \A l \in Label :
          channel[call[e].name][l] # None => channel[call[e].name][l].split # call[e].version
    /\ call[e].at = "start" => \A l \in call[e].labels :
          channel[call[e].name][l].version # call[e].version
    /\ call[e].at = "stop" /\ ~call[e].promote => \A l \in call[e].labels :
          channel[call[e].name][l].version = call[e].version

ArmsApart ==
    \A n \in Name, l \in Label : channel[n][l] # None => channel[n][l].split # channel[n][l].version

ArmsInv ==
    ~raced => /\ ArmsApart
              /\ \A e, f \in Busy : e = f
              /\ \A e \in Editor : ArmsOf(e)

(* A step of a call in turn: no other call is under way.                   *)
LEMMA InTurn ==
    ASSUME TypeInv, ArmsInv, NEW e \in Editor,
           CreatePromptVersion(e) \/ StartExperiment(e) \/ WriteSplit(e) \/ StopExperiment(e)
              \/ WriteWinner(e) \/ Abort(e),
           Others(e), ~raced'
    PROVE  /\ ~raced
           /\ \A f \in Editor \ {e} : call[f].at = "idle" /\ call'[f].at = "idle"
           /\ \A f, g \in Busy' : f = g
           /\ \A f \in Editor \ {e} : ArmsOf(f)'
  <1>1. ~raced /\ \A f \in Editor \ {e} : call[f].at = "idle"
    <2>1. CASE Save(e) \/ StartExperiment(e) \/ StopExperiment(e)
      <3>1. raced' = (raced \/ Busy # {})
        BY <2>1 DEF Save, StartExperiment, StopExperiment, Begins
      <3> QED
        BY <3>1 DEF Busy
    <2>2. CASE Compose(e) \/ Number(e) \/ Create(e) \/ PointLabel(e) \/ WriteSplit(e)
                  \/ WriteWinner(e) \/ Abort(e)
      <3>1. e \in Busy /\ raced' = raced
        BY <2>2 DEF Compose, Number, Create, PointLabel, WriteSplit, WriteWinner, Abort, Busy
      <3> QED
        BY <3>1 DEF ArmsInv, Busy
    <2> QED
      BY <2>1, <2>2 DEF CreatePromptVersion
  <1>2. \A f \in Editor \ {e} : call'[f].at = "idle"
    BY <1>1 DEF Others
  <1> QED
    BY <1>1, <1>2 DEF Busy, ArmsOf

LEMMA ArmsInvInductive ==
    ASSUME TypeInv, ArmsInv, [Next]_vars
    PROVE  ArmsInv'
  <1>1. Shape /\ Points /\ \A e \in Editor : PlaceOf(e)
    BY DEF TypeInv
  <1>2. CASE UNCHANGED vars
    BY <1>2 DEF vars, ArmsInv, ArmsApart, ArmsOf, Busy
  <1>3. ASSUME NEW e \in Editor, Others(e), ~raced' => ArmsApart' /\ ArmsOf(e)',
               CreatePromptVersion(e) \/ StartExperiment(e) \/ WriteSplit(e) \/ StopExperiment(e)
                  \/ WriteWinner(e) \/ Abort(e)
        PROVE  ArmsInv'
    BY <1>3, InTurn DEF ArmsInv
  <1>4. ~raced => ArmsApart /\ \A e \in Editor : ArmsOf(e)
    BY DEF ArmsInv
  <1>5. \A e \in Editor : call'[e].at \notin {"label", "start", "stop"} => ArmsOf(e)'
    BY DEF ArmsOf
  <1>6. Idle.at = "idle"
    BY DEF Idle
  <1>7. ASSUME NEW e \in Editor, Save(e) \/ Compose(e) \/ Number(e) \/ Abort(e)
        PROVE  ArmsInv'
    <2>1. channel' = channel
      BY <1>7 DEF Save, Compose, Number, Abort
    <2>2. Others(e) /\ call'[e].at \notin {"label", "start", "stop"}
      <3>1. CASE Save(e)
        <4>1. PICK place \in {"compose", "number"} : call'[e].at = place
          <5>1. PICK n \in Name, body \in Body, labels \in SUBSET Labels : call' = [call EXCEPT ![e] =
                  [Idle EXCEPT !.at = IF body = None THEN "number" ELSE "compose",
                               !.name = n, !.body = body, !.labels = SaveLabels(labels), !.next = body]]
            BY <3>1 DEF Save
          <5> QED
            BY <1>1, <5>1 DEF Idle, Shape
        <4> QED
          BY <1>1, <3>1, <4>1, BeginSets
      <3>2. CASE Compose(e)
        BY <1>1, <1>6, <3>2, ComposeSets
      <3>3. CASE Number(e)
        <4>1. call[e] \in CallType
          BY <1>1 DEF Shape
        <4>2. Others(e) /\ call'[e] = [call[e] EXCEPT !.at = "create", !.version = Len(versions[call[e].name]) + 1]
          BY <1>1, <3>3, NumberSets
        <4>3. call'[e].at = "create"
          BY <4>1, <4>2 DEF CallType
        <4> QED
          BY <4>2, <4>3
      <3>4. CASE Abort(e)
        <4>1. call' = [call EXCEPT ![e] = Idle]
          BY <3>4 DEF Abort
        <4> QED
          BY <1>1, <1>6, <4>1, CallSet, IdleTyped
      <3> QED
        BY <1>7, <3>1, <3>2, <3>3, <3>4
    <2>3. ~raced' => ~raced
      BY <1>7, <2>2, InTurn DEF CreatePromptVersion
    <2>4. ~raced' => ArmsApart'
      BY <1>4, <2>1, <2>3 DEF ArmsApart
    <2> QED
      BY <1>3, <1>5, <1>7, <2>2, <2>4 DEF CreatePromptVersion
  <1>8. ASSUME NEW e \in Editor, Create(e)
        PROVE  ArmsInv'
    <2> DEFINE n == call[e].name
    <2>1. channel' = channel /\ raced' = raced
      BY <1>8 DEF Create
    <2>2. Others(e) /\ call'[e] = IF IsNew(e) THEN [call[e] EXCEPT !.at = "label"] ELSE Idle
      BY <1>1, <1>8, CreateSets
    <2>3. CASE IsNew(e)
      <3>1. n \in Name /\ call[e] \in CallType
        BY <1>1, <1>8 DEF Create, PlaceOf, Shape
      <3>2. call'[e].at = "label" /\ call'[e].name = n /\ call'[e].version = Len(versions[n]) + 1
        BY <1>1, <1>8, <2>2, <2>3, <3>1, VersionsGrow DEF CallType
      <3>3. \A l \in Label : channel[n][l] # None => channel[n][l].split # Len(versions[n]) + 1
        <4>1. Len(versions[n]) \in Nat /\ None \notin Nat
          BY <1>1, <3>1, Lengths, PromptAssumption
        <4> QED
          BY <1>1, <3>1, <4>1 DEF Points
      <3>4. ArmsOf(e)'
        BY <2>1, <3>2, <3>3 DEF ArmsOf
      <3> QED
        BY <1>3, <1>4, <1>8, <2>1, <2>2, <3>4 DEF CreatePromptVersion, ArmsApart
    <2>4. CASE ~IsNew(e)
      BY <1>3, <1>4, <1>5, <1>6, <1>8, <2>1, <2>2, <2>4 DEF CreatePromptVersion, ArmsApart
    <2> QED
      BY <2>3, <2>4
  <1>9. ASSUME NEW e \in Editor, PointLabel(e)
        PROVE  ArmsInv'
    <2> DEFINE n == call[e].name
    <2>1. raced' = raced /\ Others(e)
      BY <1>1, <1>9, PointSets DEF PointLabel
    <2>2. n \in Name /\ call[e] \in CallType /\ call[e].at = "label" /\ call[e].version \in Nat
      BY <1>1, <1>9 DEF PointLabel, PlaceOf, Shape, CallType
    <2>3. PICK l \in Label, new \in ChannelType :
             /\ new # None /\ Pointed(n, l, new)
             /\ new.version = call[e].version
             /\ new.split = IF channel[n][l] = None THEN None ELSE channel[n][l].split
             /\ call'[e] = Idle \/ call'[e] = [call[e] EXCEPT !.labels = call[e].labels \ {l}]
      BY <1>1, <1>9, PointSets
    <2>4. ASSUME ~raced
          PROVE  new.split # new.version /\ \A k \in Label :
                    channel'[n][k] # None => channel'[n][k].split # call[e].version
      <3>1. new.split # call[e].version
        BY <1>4, <2>2, <2>3, <2>4, PromptAssumption DEF ArmsOf
      <3>2. \A k \in Label : channel[n][k] # None => channel[n][k].split # call[e].version
        BY <1>4, <2>2, <2>4 DEF ArmsOf
      <3> QED
        BY <2>2, <2>3, <3>1, <3>2 DEF Pointed
    <2>5. ~raced => ArmsApart'
      <3> SUFFICES ASSUME ~raced, NEW m \in Name, NEW k \in Label, channel'[m][k] # None
                   PROVE  channel'[m][k].split # channel'[m][k].version
        BY DEF ArmsApart
      <3>1. CASE m = n /\ k = l
        BY <2>3, <2>4, <3>1 DEF Pointed
      <3>2. CASE m # n \/ k # l
        BY <1>4, <2>3, <3>2 DEF Pointed, ArmsApart
      <3> QED
        BY <3>1, <3>2
    <2>6. ~raced => ArmsOf(e)'
      <3>1. CASE call'[e] = Idle
        BY <1>5, <1>6, <3>1
      <3>2. CASE call'[e] = [call[e] EXCEPT !.labels = call[e].labels \ {l}]
        <4>1. call'[e].at = "label" /\ call'[e].name = n /\ call'[e].version = call[e].version
          BY <2>2, <3>2 DEF CallType
        <4> QED
          BY <2>4, <4>1 DEF ArmsOf
      <3> QED
        BY <2>3, <3>1, <3>2
    <2> QED
      BY <1>3, <1>9, <2>1, <2>5, <2>6 DEF CreatePromptVersion
  <1>10. ASSUME NEW e \in Editor, StartExperiment(e) \/ StopExperiment(e)
         PROVE  ArmsInv'
    <2>1. channel' = channel /\ Others(e)
      BY <1>1, <1>10, BeginSets DEF StartExperiment, StopExperiment
    <2>2. PICK n \in Name :
             \/ \E place \in {"compose", "number"} : Started(e, n, place)
             \/ /\ Started(e, n, "start")
                /\ \E l \in Label : /\ call'[e].labels = {l}
                                    /\ call'[e].version \in Challengers(n, l)
             \/ /\ Started(e, n, "stop")
                /\ \E l \in Label : /\ channel[n][l] # None /\ call'[e].labels = {l}
                                    /\ call'[e].version = Winner(channel[n][l], call'[e].promote)
      BY <1>1, <1>10, BeginSets
    <2>3. ArmsOf(e)'
      <3>1. ASSUME NEW place \in {"compose", "number"}, Started(e, n, place)
            PROVE  ArmsOf(e)'
        BY <1>5, <3>1 DEF Started
      <3>2. ASSUME Started(e, n, "start"), NEW l \in Label, call'[e].labels = {l},
                   call'[e].version \in Challengers(n, l)
            PROVE  ArmsOf(e)'
        BY <2>1, <3>2 DEF Started, Challengers, ArmsOf
      <3>3. ASSUME Started(e, n, "stop"), NEW l \in Label, call'[e].labels = {l},
                   call'[e].version = Winner(channel[n][l], call'[e].promote)
            PROVE  ArmsOf(e)'
        BY <2>1, <3>3 DEF Started, Winner, ArmsOf
      <3> QED
        BY <2>2, <3>1, <3>2, <3>3
    <2>4. ~raced' => ~raced
      BY <1>10, <2>1, InTurn
    <2> QED
      BY <1>3, <1>4, <1>10, <2>1, <2>3, <2>4 DEF ArmsApart
  <1>11. ASSUME NEW e \in Editor, WriteSplit(e) \/ WriteWinner(e)
         PROVE  ArmsInv'
    <2> DEFINE n == call[e].name
    <2>1. raced' = raced /\ call' = [call EXCEPT ![e] = Idle]
      BY <1>11 DEF WriteSplit, WriteWinner
    <2>2. Others(e) /\ call'[e] = Idle
      BY <1>1, <2>1, CallSet, IdleTyped
    <2>3. PICK l \in call[e].labels, c \in ChannelType :
             /\ l \in Label /\ c # None /\ Pointed(n, l, c)
             /\ WriteSplit(e) => /\ channel[n][l] # None /\ c.version = channel[n][l].version
                                 /\ c.split = call[e].version
             /\ WriteWinner(e) => c.version = call[e].version /\ c.split = None
      BY <1>1, <1>11, WriteSets
    <2>4. ~raced => c.split # c.version
      <3>1. CASE WriteSplit(e)
        <4>1. ~raced => ArmsOf(e)
          BY <1>4
        <4>2. ~raced => channel[n][l].version # call[e].version
          BY <2>3, <3>1, <4>1 DEF WriteSplit, ArmsOf
        <4> QED
          BY <2>3, <3>1, <4>2
      <3>2. CASE WriteWinner(e)
        BY <2>3, <3>2, PromptAssumption DEF ChannelType
      <3> QED
        BY <1>11, <3>1, <3>2
    <2>5. ~raced => ArmsApart'
      <3> SUFFICES ASSUME ~raced, NEW m \in Name, NEW k \in Label, channel'[m][k] # None
                   PROVE  channel'[m][k].split # channel'[m][k].version
        BY DEF ArmsApart
      <3>1. CASE m = n /\ k = l
        BY <2>3, <2>4, <3>1 DEF Pointed
      <3>2. CASE m # n \/ k # l
        BY <1>4, <2>3, <3>2 DEF Pointed, ArmsApart
      <3> QED
        BY <3>1, <3>2
    <2> QED
      BY <1>3, <1>5, <1>6, <1>11, <2>1, <2>2, <2>5
  <1> QED
    BY <1>2, <1>7, <1>8, <1>9, <1>10, <1>11 DEF Next, CreatePromptVersion

LEMMA ArmsInvHolds == Spec => []ArmsInv
  <1>1. Init => ArmsInv
    BY DEF Init, ArmsInv, ArmsApart, ArmsOf, Busy, Idle
  <1>2. TypeInv /\ ArmsInv /\ [Next]_vars => ArmsInv'
    BY ArmsInvInductive
  <1> QED
    BY <1>1, <1>2, TypeInvHolds, PTL DEF Spec

(* As long as calls take turns, the challenger of a channel is never its   *)
(* control, and stopping an experiment without promoting writes back the   *)
(* version that is live (startExperiment, stopExperiment).                 *)
THEOREM ArmsHoldSafe == Spec => []ArmsHold
  <1>1. ArmsInv => ArmsDiffer
    BY DEF ArmsInv, ArmsApart, ArmsDiffer
  <1>2. ArmsInv => StopKeepsControl
    BY DEF ArmsInv, ArmsOf, StopKeepsControl
  <1>3. ArmsInv => ArmsHold
    BY <1>1, <1>2 DEF ArmsHold
  <1> QED
    BY <1>3, ArmsInvHolds, PTL

-----------------------------------------------------------------------------
LatestOf(n) == channel[n]["latest"] # None /\ channel[n]["latest"].version = Len(versions[n])

\* A save alone on its prompt will have moved "latest" by its end.
SaveAlone(e, n) ==
    /\ call[e].at \in {"compose", "number", "create", "label"}
    /\ call[e].at # "label" => "latest" \in call[e].labels
    /\ call[e].at = "create" => call[e].version = Len(versions[n]) + 1
    /\ call[e].at = "label" => /\ call[e].version = Len(versions[n])
                               /\ "latest" \in call[e].labels \/ LatestOf(n)

LatestInv(n) ==
    settled[n] => /\ \A e, f \in BusyOn(n) : e = f
                  /\ \A e \in BusyOn(n) : SaveAlone(e, n)
                  /\ BusyOn(n) = {} /\ versions[n] # <<>> => LatestOf(n)

(* A step of e on another prompt.                                          *)
LEMMA Elsewhere ==
    ASSUME NEW n \in Name, LatestInv(n), NEW e \in Editor, Others(e),
           call[e].at = "idle" \/ call[e].name # n, call'[e].at = "idle" \/ call'[e].name # n,
           settled'[n] => settled[n], versions'[n] = versions[n],
           channel'[n]["latest"] = channel[n]["latest"]
    PROVE  LatestInv(n)'
  <1>1. \A f \in BusyOn(n) \union BusyOn(n)' : f \in Editor \ {e} /\ call'[f] = call[f]
    BY DEF BusyOn, Busy, Others
  <1>2. BusyOn(n)' = BusyOn(n)
    BY <1>1 DEF BusyOn, Busy, Others
  <1> QED
    BY <1>1, <1>2 DEF LatestInv, SaveAlone, LatestOf

(* A step of e, alone on the prompt before and after.                      *)
LEMMA OnIt ==
    ASSUME NEW n \in Name, LatestInv(n), settled[n], NEW e \in BusyOn(n), Others(e),
           call'[e].at # "idle" => call'[e].name = n /\ SaveAlone(e, n)',
           call'[e].at = "idle" => LatestOf(n)'
    PROVE  LatestInv(n)'
  <1>1. \A f \in Editor \ {e} : f \notin BusyOn(n) /\ f \notin BusyOn(n)'
    BY DEF LatestInv, Others, BusyOn, Busy
  <1>2. \A f \in BusyOn(n)' : f = e /\ call'[e].at # "idle"
    BY <1>1 DEF BusyOn, Busy
  <1>3. BusyOn(n)' = {} => call'[e].at = "idle"
    BY DEF BusyOn, Busy
  <1> QED
    BY <1>2, <1>3 DEF LatestInv

LEMMA LatestInvInductive ==
    ASSUME TypeInv, NEW n \in Name, LatestInv(n), [Next]_vars
    PROVE  LatestInv(n)'
  <1>1. Shape /\ Points /\ \A e \in Editor : PlaceOf(e)
    BY DEF TypeInv
  <1>2. CASE UNCHANGED vars
    BY <1>2 DEF vars, LatestInv, SaveAlone, LatestOf, BusyOn, Busy
  <1>3. ASSUME NEW e \in Editor, Save(e) \/ StartExperiment(e) \/ StopExperiment(e)
        PROVE  LatestInv(n)'
    <2>1. UNCHANGED <<versions, channel>> /\ Others(e)
      BY <1>1, <1>3, BeginSets DEF Save, StartExperiment, StopExperiment
    <2>2. PICK m \in Name, save \in BOOLEAN, place \in {"compose", "number", "start", "stop"} :
             /\ Begins(m, save) /\ Started(e, m, place)
             /\ save => place \in {"compose", "number"} /\ "latest" \in call'[e].labels
      BY <1>1, <1>3, BeginSets
    <2>3. CASE m # n
      <3>1. settled'[n] = settled[n]
        BY <1>1, <2>2, <2>3 DEF Begins, Shape
      <3> QED
        BY <2>1, <2>2, <2>3, <3>1, Elsewhere DEF Started
    <2>4. CASE m = n
      <3> SUFFICES ASSUME settled'[n]
                   PROVE  LatestInv(n)'
        BY DEF LatestInv
      <3>1. save /\ BusyOn(n) = {}
        BY <1>1, <2>2, <2>4 DEF Begins, Shape
      <3>2. \A f \in Editor \ {e} : f \notin BusyOn(n)'
        BY <2>1, <3>1 DEF Others, BusyOn, Busy
      <3>3. BusyOn(n)' = {e}
        BY <2>2, <2>4, <3>2 DEF Started, BusyOn, Busy
      <3>4. SaveAlone(e, n)'
        BY <2>2, <3>1 DEF Started, SaveAlone
      <3> QED
        BY <3>3, <3>4 DEF LatestInv
    <2> QED
      BY <2>3, <2>4
  <1>4. ASSUME NEW e \in Editor, Compose(e) \/ Number(e) \/ Create(e) \/ PointLabel(e) \/ WriteSplit(e)
                                 \/ WriteWinner(e) \/ Abort(e)
        PROVE  e \in Busy /\ call[e].name \in Name /\ call[e] \in CallType
    BY <1>1, <1>4 DEF Compose, Number, Create, PointLabel, WriteSplit, WriteWinner, Abort, Busy, PlaceOf, Shape
  <1>5. Idle.at = "idle"
    BY DEF Idle
  <1>6. ASSUME NEW e \in Editor, call[e].name = n, e \in Busy, LatestInv(n), settled[n]
        PROVE  e \in BusyOn(n) /\ SaveAlone(e, n)
    BY <1>6 DEF LatestInv, BusyOn
  <1>7. ASSUME NEW e \in Editor, Compose(e)
        PROVE  LatestInv(n)'
    <2>1. UNCHANGED <<versions, channel>> /\ call[e].at = "compose"
      BY <1>7 DEF Compose
    <2>2. /\ Others(e)
          /\ \/ call'[e] = Idle /\ settled' = [settled EXCEPT ![call[e].name] = FALSE]
             \/ call'[e].at \in {"compose", "number"} /\ SameSave(e) /\ settled' = settled
      BY <1>1, <1>7, ComposeSets
    <2>3. settled'[n] => settled[n] /\ (call[e].name = n => call'[e].at \in {"compose", "number"} /\ SameSave(e))
      BY <1>1, <1>4, <1>7, <2>2 DEF Shape
    <2>4. CASE call[e].name # n
      BY <1>5, <2>1, <2>2, <2>3, <2>4, Elsewhere DEF SameSave
    <2>5. CASE call[e].name = n /\ settled'[n]
      <3>1. e \in BusyOn(n) /\ SaveAlone(e, n)
        BY <1>4, <1>6, <1>7, <2>3, <2>5
      <3>2. call'[e].at \in {"compose", "number"} /\ call'[e].name = n /\ call'[e].labels = call[e].labels
        BY <2>3, <2>5 DEF SameSave
      <3>3. SaveAlone(e, n)'
        BY <2>1, <3>1, <3>2 DEF SaveAlone
      <3> QED
        BY <2>2, <2>3, <2>5, <3>1, <3>2, <3>3, OnIt
    <2> QED
      BY <2>4, <2>5 DEF LatestInv
  <1>8. ASSUME NEW e \in Editor, Number(e)
        PROVE  LatestInv(n)'
    <2>1. UNCHANGED <<versions, channel, settled>> /\ call[e].at = "number"
      BY <1>8 DEF Number
    <2>2. Others(e) /\ call'[e] = [call[e] EXCEPT !.at = "create", !.version = Len(versions[call[e].name]) + 1]
      BY <1>1, <1>8, NumberSets
    <2>3. /\ call'[e].at = "create" /\ call'[e].name = call[e].name /\ call'[e].labels = call[e].labels
          /\ call'[e].version = Len(versions[call[e].name]) + 1
      BY <1>4, <1>8, <2>2 DEF CallType
    <2>4. CASE call[e].name # n
      BY <2>1, <2>2, <2>3, <2>4, Elsewhere
    <2>5. CASE call[e].name = n /\ settled[n]
      <3>1. e \in BusyOn(n) /\ SaveAlone(e, n)
        BY <1>4, <1>6, <1>8, <2>5
      <3>2. SaveAlone(e, n)'
        BY <2>1, <2>3, <2>5, <3>1 DEF SaveAlone
      <3> QED
        BY <2>2, <2>3, <2>5, <3>1, <3>2, OnIt
    <2> QED
      BY <2>1, <2>4, <2>5 DEF LatestInv
  <1>9. ASSUME NEW e \in Editor, Create(e)
        PROVE  LatestInv(n)'
    <2>1. channel' = channel /\ call[e].at = "create"
      BY <1>9 DEF Create
    <2>2. Others(e) /\ call'[e] = IF IsNew(e) THEN [call[e] EXCEPT !.at = "label"] ELSE Idle
      BY <1>1, <1>9, CreateSets
    <2>3. /\ IsNew(e) => settled' = settled
          /\ ~IsNew(e) => settled' = [settled EXCEPT ![call[e].name] = FALSE]
      BY <1>9 DEF Create
    <2>4. CASE IsNew(e)
      <3>1. /\ call'[e].at = "label" /\ call'[e].name = call[e].name /\ call'[e].labels = call[e].labels
            /\ call'[e].version = call[e].version
        BY <1>4, <1>9, <2>2, <2>4 DEF CallType
      <3>2. /\ Len(versions'[call[e].name]) = Len(versions[call[e].name]) + 1
            /\ call[e].version = Len(versions[call[e].name]) + 1
            /\ \A m \in Name \ {call[e].name} : versions'[m] = versions[m]
        BY <1>1, <1>9, <2>4, VersionsGrow
      <3>3. CASE call[e].name # n
        BY <2>1, <2>2, <2>3, <2>4, <3>1, <3>2, <3>3, Elsewhere
      <3>4. CASE call[e].name = n /\ settled[n]
        <4>1. e \in BusyOn(n) /\ SaveAlone(e, n)
          BY <1>4, <1>6, <1>9, <3>4
        <4>2. SaveAlone(e, n)'
          BY <2>1, <3>1, <3>2, <3>4, <4>1 DEF SaveAlone
        <4> QED
          BY <2>2, <3>1, <3>4, <4>1, <4>2, OnIt
      <3> QED
        BY <2>3, <2>4, <3>3, <3>4 DEF LatestInv
    <2>5. CASE ~IsNew(e)
      <3>1. versions' = versions /\ call'[e].at = "idle"
        BY <1>1, <1>5, <1>9, <2>2, <2>5, VersionsGrow
      <3>2. CASE call[e].name # n
        BY <1>1, <1>4, <1>9, <2>1, <2>2, <2>3, <2>5, <3>1, <3>2, Elsewhere DEF Shape
      <3>3. CASE call[e].name = n
        BY <1>1, <2>3, <2>5, <3>3 DEF LatestInv, Shape
      <3> QED
        BY <3>2, <3>3
    <2> QED
      BY <2>4, <2>5
  <1>10. ASSUME NEW e \in Editor, PointLabel(e)
         PROVE  LatestInv(n)'
    <2>1. UNCHANGED <<versions, settled>> /\ call[e].at = "label" /\ Others(e)
      BY <1>1, <1>10, PointSets DEF PointLabel
    <2>2. PICK l \in call[e].labels, new \in ChannelType :
             /\ l \in Label
             /\ "latest" \in call[e].labels => l = "latest"
             /\ new # None /\ Pointed(call[e].name, l, new)
             /\ new.version = call[e].version
             /\ call'[e] = Idle \/ call'[e] = [call[e] EXCEPT !.labels = call[e].labels \ {l}]
      BY <1>1, <1>10, PointSets
    <2>3. \/ call'[e].at = "idle"
          \/ call'[e].at = "label" /\ call'[e].name = call[e].name /\ call'[e].version = call[e].version
      <3>1. call[e] \in CallType
        BY <1>4, <1>10
      <3>2. ASSUME NEW k \in call[e].labels, call'[e] = [call[e] EXCEPT !.labels = call[e].labels \ {k}]
            PROVE  /\ call'[e].at = call[e].at /\ call'[e].name = call[e].name
                   /\ call'[e].version = call[e].version
        BY <3>1, <3>2 DEF CallType
      <3>3. CASE call'[e] = Idle
        BY <1>5, <3>3
      <3>4. CASE call'[e] = [call[e] EXCEPT !.labels = call[e].labels \ {l}]
        BY <2>1, <2>2, <3>2, <3>4
      <3> QED
        BY <2>2, <3>3, <3>4
    <2>4. "latest" \in Label
      BY DEF Label
    <2>5. CASE call[e].name # n
      <3>1. channel'[n]["latest"] = channel[n]["latest"]
        BY <2>2, <2>4, <2>5 DEF Pointed
      <3> QED
        BY <2>1, <2>3, <2>5, <3>1, Elsewhere
    <2>6. CASE call[e].name = n /\ settled[n]
      <3>1. e \in BusyOn(n) /\ SaveAlone(e, n)
        BY <1>4, <1>6, <1>10, <2>6
      <3>2. LatestOf(n)'
        <4>1. CASE l = "latest"
          <5>1. channel'[n]["latest"] = new
            BY <2>2, <2>6, <4>1 DEF Pointed
          <5>2. call[e].version = Len(versions[n])
            BY <2>1, <3>1 DEF SaveAlone
          <5>3. new # None /\ new.version = Len(versions'[n])
            BY <2>1, <2>2, <5>2
          <5> QED
            BY <5>1, <5>3 DEF LatestOf
        <4>2. CASE l # "latest"
          <5>1. channel'[n]["latest"] = channel[n]["latest"]
            BY <2>2, <2>4, <4>2 DEF Pointed
          <5> QED
            BY <2>1, <2>2, <3>1, <4>2, <5>1 DEF LatestOf, SaveAlone
        <4> QED
          BY <4>1, <4>2
      <3>3. call'[e].at # "idle" => SaveAlone(e, n)'
        BY <2>1, <2>3, <3>1, <3>2 DEF SaveAlone
      <3> QED
        BY <2>1, <2>3, <2>6, <3>1, <3>2, <3>3, OnIt
    <2> QED
      BY <2>1, <2>5, <2>6 DEF LatestInv
  <1>11. ASSUME NEW e \in Editor, WriteSplit(e) \/ WriteWinner(e)
         PROVE  LatestInv(n)'
    <2>1. UNCHANGED <<versions, settled>> /\ call[e].at \in {"start", "stop"}
      BY <1>11 DEF WriteSplit, WriteWinner
    <2>2. call' = [call EXCEPT ![e] = Idle]
      BY <1>11 DEF WriteSplit, WriteWinner
    <2>3. Others(e) /\ call'[e].at = "idle"
      BY <1>1, <1>5, <2>2, CallSet, IdleTyped
    <2>4. PICK l \in Label, c \in ChannelType : Pointed(call[e].name, l, c)
      BY <1>1, <1>11, WriteSets
    <2>5. CASE call[e].name # n
      <3>1. channel'[n]["latest"] = channel[n]["latest"]
        BY <2>4, <2>5 DEF Pointed, Label
      <3> QED
        BY <2>1, <2>3, <2>5, <3>1, Elsewhere
    <2>6. CASE call[e].name = n
      <3>1. ~settled[n]
        BY <1>4, <1>6, <1>11, <2>1, <2>6 DEF SaveAlone
      <3> QED
        BY <2>1, <3>1 DEF LatestInv
    <2> QED
      BY <2>5, <2>6
  <1>12. ASSUME NEW e \in Editor, Abort(e)
         PROVE  LatestInv(n)'
    <2>1. UNCHANGED <<versions, channel>> /\ settled' = [settled EXCEPT ![call[e].name] = FALSE]
      BY <1>12 DEF Abort
    <2>2. call' = [call EXCEPT ![e] = Idle]
      BY <1>12 DEF Abort
    <2>3. Others(e) /\ call'[e].at = "idle"
      BY <1>1, <1>5, <2>2, CallSet, IdleTyped
    <2>4. CASE call[e].name # n
      BY <1>1, <1>4, <1>12, <2>1, <2>3, <2>4, Elsewhere DEF Shape
    <2>5. CASE call[e].name = n
      BY <1>1, <2>1, <2>5 DEF LatestInv, Shape
    <2> QED
      BY <2>4, <2>5
  <1> QED
    BY <1>2, <1>3, <1>7, <1>8, <1>9, <1>10, <1>11, <1>12 DEF Next, CreatePromptVersion

(* "latest" is the newest version of a prompt after every save that had    *)
(* the prompt to itself and went through, whatever raced, failed or was    *)
(* left half-way before it (createPromptVersion's list of labels).         *)
THEOREM LatestTracksSafe == Spec => []LatestTracks
  <1> DEFINE Inv == \A n \in Name : LatestInv(n)
  <1>1. Init => Inv
    BY DEF Init, LatestInv, BusyOn, Busy, Idle
  <1>2. TypeInv /\ Inv /\ [Next]_vars => Inv'
    BY LatestInvInductive
  <1>3. Inv => LatestTracks
    BY DEF LatestInv, LatestOf, LatestTracks
  <1> QED
    BY <1>1, <1>2, <1>3, TypeInvHolds, PTL DEF Spec

-----------------------------------------------------------------------------
(* Natural numbers have no infinite descent: the least-number principle    *)
(* for a set, so that what holds along a walk can be proved step by step.  *)
Below == {pair \in Nat \X Nat : pair[1] < pair[2]}

LEMMA LeastOf ==
    ASSUME NEW T \in SUBSET Nat, T # {}
    PROVE  \E m \in T : \A k \in T : m <= k
  <1>1. IsWellFoundedOn(Below, Nat)
    BY NatLessThanWellFounded DEF OpToRel, Below
  <1>2. PICK m \in T : \A k \in T : ~ (<<k, m>> \in Below)
    BY <1>1, WFMin
  <1>3. \A k \in T : ~ (k < m)
    <2> SUFFICES ASSUME NEW k \in T, k < m
                 PROVE  <<k, m>> \in Below
      BY <1>2
    <2>1. <<k, m>> \in Nat \X Nat /\ <<k, m>>[1] = k /\ <<k, m>>[2] = m
      OBVIOUS
    <2> QED
      BY <2>1 DEF Below
  <1> QED
    BY <1>3

(* The walk of the includes exists: each is what the one before stands for. *)
LEMMA IncludesAre ==
    ASSUME NEW body, Cardinality(Ref) \in Nat
    PROVE  Includes(body) = [n \in 0..Cardinality(Ref) |->
                               IF n = 0 THEN body ELSE Follow(Includes(body)[n - 1])]
  <1> DEFINE N == Cardinality(Ref)
             Walk(m, g) == g = [n \in 0..m |-> IF n = 0 THEN body ELSE Follow(g[n - 1])]
             Short == {m \in Nat : ~\E g : Walk(m, g)}
  <1>1. Short = {}
    <2> SUFFICES ASSUME Short # {}
                 PROVE  FALSE
      OBVIOUS
    <2>1. PICK m \in Short : \A k \in Short : m <= k
      <3> HIDE DEF Walk
      <3> QED
        BY LeastOf
    <2>2. m # 0
      <3>1. Walk(0, [n \in 0..0 |-> body])
        BY SMT
      <3> QED
        BY <3>1
    <2>3. PICK g : Walk(m - 1, g)
      <3> HIDE DEF Walk
      <3> QED
        BY <2>1, <2>2
    <2> DEFINE h == [n \in 0..m |-> IF n = 0 THEN body ELSE Follow(g[n - 1])]
    <2>4. Walk(m, h)
      <3> SUFFICES ASSUME NEW n \in 0..m, n # 0
                   PROVE  g[n - 1] = h[n - 1]
        OBVIOUS
      <3> QED
        BY <2>3, <2>2
    <2> QED
      BY <2>1, <2>4
  <1>2. \E g : Walk(N, g)
    BY <1>1
  <1> QED
    BY <1>2 DEF Includes

-----------------------------------------------------------------------------
(* Includes go down: no reference leads back to itself.                    *)
Ranks(rank) == \A ref \in Ref : Follow(ref) # None => rank[Follow(ref)] < rank[ref]

Ranked == \E rank \in [Ref -> Nat] : Ranks(rank)

LEMMA FollowTyped ==
    ASSUME Shape, Points
    PROVE  /\ \A ref \in Ref : Follow(ref) \in Body /\ ref # None
           /\ Follow(None) = None
           /\ \A ref \in Ref : Target(ref) # 0 => Follow(ref) = versions[ref.name][Target(ref)]
  <1>1. \A ref \in Ref : ref # None
    BY PromptAssumption
  <1> QED
    BY <1>1, TargetThere DEF Follow, Body

LEMMA WalkTyped ==
    ASSUME Shape, Points, Cardinality(Ref) \in Nat, NEW body \in Body
    PROVE  Includes(body) \in [0..Cardinality(Ref) -> Body]
  <1> DEFINE N == Cardinality(Ref)
             f == Includes(body)
             Odd == {i \in 0..N : f[i] \notin Body}
  <1>1. f = [n \in 0..N |-> IF n = 0 THEN body ELSE Follow(f[n - 1])]
    BY IncludesAre
  <1> HIDE DEF f
  <1>2. Odd = {}
    <2> SUFFICES ASSUME Odd # {}
                 PROVE  FALSE
      OBVIOUS
    <2>1. PICK i \in Odd : \A j \in Odd : i <= j
      <3>1. Odd \in SUBSET Nat
        OBVIOUS
      <3> HIDE DEF Odd
      <3> QED
        BY <3>1, LeastOf
    <2>2. i # 0 /\ f[i] = Follow(f[i - 1])
      BY <1>1
    <2>3. f[i - 1] \in Body
      BY <2>1, <2>2
    <2> QED
      BY <2>2, <2>3, FollowTyped DEF Body
  <1> QED
    BY <1>1, <1>2 DEF f

(* The walk goes down with the ranks.                                      *)
LEMMA WalkDescends ==
    ASSUME Shape, Points, Cardinality(Ref) \in Nat, NEW body \in Body,
           NEW rank \in [Ref -> Nat], Ranks(rank)
    PROVE  \A i, j \in 0..Cardinality(Ref) : i < j /\ Includes(body)[j] # None =>
              /\ Includes(body)[i] \in Ref /\ Includes(body)[j] \in Ref
              /\ rank[Includes(body)[j]] < rank[Includes(body)[i]]
  <1> DEFINE N == Cardinality(Ref)
             f == Includes(body)
             Goes(i, j) == f[i] \in Ref /\ rank[f[j]] < rank[f[i]]
             Odd == {j \in 0..N : f[j] # None /\ \E i \in 0..(j - 1) : ~Goes(i, j)}
  <1>1. f = [n \in 0..N |-> IF n = 0 THEN body ELSE Follow(f[n - 1])]
    BY IncludesAre
  <1>2. f \in [0..N -> Body]
    BY WalkTyped
  <1> HIDE DEF f
  <1>3. Odd = {}
    <2> SUFFICES ASSUME Odd # {}
                 PROVE  FALSE
      OBVIOUS
    <2>1. PICK j \in Odd : \A k \in Odd : j <= k
      <3>1. Odd \in SUBSET Nat
        OBVIOUS
      <3> HIDE DEF Odd
      <3> QED
        BY <3>1, LeastOf
    <2>2. PICK i \in 0..(j - 1) : ~Goes(i, j)
      OBVIOUS
    <2>3. j # 0 /\ j - 1 \in 0..N /\ f[j] # None /\ f[j] = Follow(f[j - 1])
      BY <1>1, <2>2
    <2>4. f[j - 1] \in Ref
      BY <1>2, <2>3, FollowTyped DEF Body
    <2>5. Goes(j - 1, j)
      BY <2>3, <2>4 DEF Ranks
    <2>6. i < j - 1 /\ i \in 0..(j - 2)
      BY <2>2, <2>3, <2>5
    <2>7. Goes(i, j - 1)
      <3>1. j - 1 \notin Odd
        <4>1. \A k \in Odd : k \in Nat /\ j <= k
          BY <2>1
        <4> HIDE DEF Odd
        <4> QED
          BY <4>1, <2>3
      <3>2. f[j - 1] # None
        BY <2>4, FollowTyped
      <3> HIDE DEF Goes
      <3> QED
        BY <2>3, <2>6, <3>1, <3>2
    <2>8. f[j] \in Ref
      BY <1>2, <2>3 DEF Body
    <2>9. rank[f[j]] \in Nat /\ rank[f[j - 1]] \in Nat /\ rank[f[i]] \in Nat
      BY <2>4, <2>7, <2>8
    <2> QED
      BY <2>2, <2>5, <2>7, <2>9
  <1> SUFFICES ASSUME NEW i \in 0..N, NEW j \in 0..N, i < j, f[j] # None
               PROVE  f[j] \in Ref /\ Goes(i, j)
    BY DEF f
  <1>4. i \in 0..(j - 1) /\ j \notin Odd
    BY <1>3
  <1>5. f[j] \in Ref
    BY <1>2 DEF Body
  <1> HIDE DEF Goes
  <1> QED
    BY <1>4, <1>5

(* So it ends before it runs out of references.                            *)
LEMMA WalkEnds ==
    ASSUME Shape, Points, IsFiniteSet(Ref), NEW body \in Body, Ranked
    PROVE  \E i \in 0..Cardinality(Ref) : Includes(body)[i] = None
  <1> DEFINE N == Cardinality(Ref)
             f == Includes(body)
  <1> SUFFICES ASSUME \A i \in 0..N : f[i] # None
               PROVE  FALSE
    OBVIOUS
  <1>1. N \in Nat
    BY FS_CardinalityType
  <1>2. PICK rank \in [Ref -> Nat] : Ranks(rank)
    BY DEF Ranked
  <1>3. f \in [0..N -> Ref]
    BY <1>1, WalkTyped DEF Body
  <1>4. \A i, j \in 0..N : i < j => rank[f[j]] < rank[f[i]]
    BY <1>1, <1>2, WalkDescends
  <1>5. IsFiniteSet(0..N) /\ Cardinality(0..N) = N + 1
    BY <1>1, FS_Interval
  <1> HIDE DEF f
  <1>6. PICK i, j \in 0..N : i # j /\ f[i] = f[j]
    BY <1>1, <1>3, <1>5, FS_PigeonHole
  <1>7. rank[f[i]] \in Nat /\ (i < j \/ j < i)
    BY <1>1, <1>3, <1>6
  <1> QED
    BY <1>4, <1>6, <1>7

(* Ranks, and a channel whose reference stands for its version's include:  *)
(* the channel is not part of a cycle.                                     *)
LEMMA RankedAcyclic ==
    ASSUME Shape, Points, IsFiniteSet(Ref), Ranked,
           \A n \in Name, l \in Label : channel[n][l] # None => channel[n][l].split = None,
           NEW n \in Name, NEW l \in Label
    PROVE  ~Cyclic(n, l)
  <1> SUFFICES ASSUME Cyclic(n, l)
               PROVE  FALSE
    OBVIOUS
  <1> DEFINE N == Cardinality(Ref)
             v == channel[n][l].version
             body == versions[n][v]
             f == Includes(body)
             self == [name |-> n, label |-> l, version |-> 0]
  <1>1. N \in Nat
    BY FS_CardinalityType
  <1>2. PICK rank \in [Ref -> Nat] : Ranks(rank)
    BY DEF Ranked
  <1>3. channel[n][l] # None /\ channel[n][l].split = None
    BY DEF Cyclic
  <1>4. self \in Ref /\ self.label # None /\ Target(self) = v /\ v # 0
    <2>1. l # None
      BY PromptAssumption
    <2>2. v \in 1..Len(versions[n]) /\ Len(versions[n]) \in Nat
      BY <1>3, Lengths DEF Points
    <2> QED
      BY <1>3, <2>1, <2>2 DEF Ref, Target
  <1>5. body \in Body /\ Follow(self) = body
    BY <1>4, TargetThere, FollowTyped
  <1>6. f = [i \in 0..N |-> IF i = 0 THEN body ELSE Follow(f[i - 1])] /\ f \in [0..N -> Body]
    BY <1>1, <1>5, IncludesAre, WalkTyped
  <1>7. /\ \E i \in 0..N : f[i] = None
        /\ \A i, j \in 0..N : i < j /\ f[j] # None =>
              f[i] \in Ref /\ f[j] \in Ref /\ rank[f[j]] < rank[f[i]]
    BY <1>1, <1>2, <1>5, WalkEnds, WalkDescends
  <1>8. \/ \A i \in DOMAIN f : f[i] # None
        \/ \E i \in DOMAIN f : f[i] # None /\ f[i].name = n /\ f[i].label = l
    BY <1>3 DEF Cyclic
  <1> HIDE DEF f
  <1>9. PICK i \in 0..N : f[i] # None /\ f[i].name = n /\ f[i].label = l
    BY <1>6, <1>7, <1>8
  <1>10. f[i] = self
    <2>1. f[i] \in Ref /\ f[i].label # None
      BY <1>4, <1>6, <1>9 DEF Body
    <2> QED
      BY <1>9, <2>1 DEF Ref
  <1>11. f[0] = body /\ body # None /\ body \in Ref
    <2>1. f[0] = body
      BY <1>1, <1>6
    <2>2. body # None
      <3>1. CASE i = 0
        BY <1>9, <2>1, <3>1
      <3>2. CASE i # 0
        BY <1>1, <1>4, <1>5, <1>7, <1>9, <2>1, <3>2, FollowTyped
      <3> QED
        BY <3>1, <3>2
    <2> QED
      BY <1>5, <2>1, <2>2 DEF Body
  <1>12. rank[body] < rank[self]
    BY <1>2, <1>4, <1>5, <1>11 DEF Ranks
  <1>13. i # 0 => rank[self] < rank[body]
    BY <1>1, <1>7, <1>9, <1>10, <1>11
  <1>14. i = 0 => self = body
    BY <1>10, <1>11
  <1>15. rank[self] \in Nat /\ rank[body] \in Nat
    BY <1>2, <1>4, <1>11
  <1> HIDE DEF self, body
  <1> QED
    BY <1>12, <1>13, <1>14, <1>15

(* References that come to stand for body, none of them on the walk from   *)
(* body: everything off that walk moves up.                                *)
LEMMA RanksMove ==
    ASSUME Shape, Points, Ranked, NEW body \in Ref, NEW W \in SUBSET Ref, body \in W,
           \A ref \in W : Follow(ref) \in W \union {None},
           \A ref \in Ref : \/ Follow(ref)' \in {Follow(ref), None}
                            \/ Follow(ref)' = body /\ ref \notin W
    PROVE  Ranked'
  <1>1. PICK rank \in [Ref -> Nat] : Ranks(rank)
    BY DEF Ranked
  <1> DEFINE moved == [ref \in Ref |-> IF ref \in W THEN rank[ref] ELSE rank[ref] + rank[body] + 1]
  <1>2. moved \in [Ref -> Nat]
    BY <1>1
  <1>3. ASSUME NEW ref \in Ref, Follow(ref)' # None
        PROVE  moved[Follow(ref)'] < moved[ref]
    <2>1. rank[ref] \in Nat /\ rank[body] \in Nat
      BY <1>1
    <2>2. CASE Follow(ref)' = Follow(ref)
      <3>1. Follow(ref) \in Ref /\ rank[Follow(ref)] < rank[ref]
        BY <1>1, <1>3, <2>2, FollowTyped DEF Ranks, Body
      <3>2. rank[Follow(ref)] \in Nat
        BY <1>1, <3>1
      <3>3. ref \in W => Follow(ref) \in W
        BY <1>3, <2>2
      <3> HIDE DEF Ranked
      <3> QED
        BY <2>1, <2>2, <3>1, <3>2, <3>3
    <2>3. CASE Follow(ref)' = body /\ ref \notin W
      BY <2>1, <2>3
    <2> QED
      BY <1>3, <2>2, <2>3
  <1>4. Ranks(moved)'
    BY <1>3 DEF Ranks
  <1> QED
    BY <1>2, <1>4 DEF Ranked

(* No reference comes to stand for anything.                               *)
LEMMA RanksStay ==
    ASSUME Ranked, \A ref \in Ref : Follow(ref)' \in {Follow(ref), None}
    PROVE  Ranked'
  <1>1. PICK rank \in [Ref -> Nat] : Ranks(rank)
    BY DEF Ranked
  <1>2. Ranks(rank)'
    BY <1>1 DEF Ranks
  <1> QED
    BY <1>2 DEF Ranked

-----------------------------------------------------------------------------
(* What the walk of a save has found, while calls take turns: from its     *)
(* body on, nothing it occupies, and an end.                               *)
Free(e, ref) == Target(ref) # 0 /\ ~Occupied(e, ref)

Clear(e) ==
    \E W \in SUBSET Ref :
        /\ call[e].body \in W
        /\ \A ref \in W : Free(e, ref) /\ Follow(ref) \in W \union {None}

Walking(e) ==
    /\ call[e].body \in ToSet(call[e].path) \union {call[e].next}
    /\ \A ref \in ToSet(call[e].path) :
          Free(e, ref) /\ Follow(ref) \in ToSet(call[e].path) \union {call[e].next}

Checked(e) ==
    /\ call[e].at = "compose" => Walking(e)
    /\ call[e].at \in {"number", "create", "label"} /\ call[e].body # None => Clear(e)
    /\ call[e].at = "stop" => \A l \in call[e].labels :
          /\ channel[call[e].name][l] # None
          /\ channel[call[e].name][l].version = call[e].version

\* There never was an experiment.
Unsplit ==
    /\ \A n \in Name, l \in Label : channel[n][l] # None => channel[n][l].split = None
    /\ \A e \in Editor : call[e].at # "start"

AcyclicInv ==
    ~raced /\ spent["trials"] = 0 => Ranked /\ Unsplit /\ \A e \in Editor : Checked(e)

LEMMA TrialsStay ==
    ASSUME Shape, [Next]_vars, spent'["trials"] = 0
    PROVE  spent["trials"] = 0 /\ \A e \in Editor : ~StartExperiment(e)
  <1>1. ASSUME NEW kind \in Kinds, Spend(kind)
        PROVE  spent'["trials"] >= spent["trials"] /\ (kind = "trials" => spent'["trials"] > 0)
    <2>1. spent' = [spent EXCEPT ![kind] = spent[kind] + 1] /\ spent \in [Kinds -> Nat]
      BY <1>1 DEF Spend, Shape
    <2>2. "trials" \in Kinds
      BY DEF Kinds
    <2> QED
      BY <2>1, <2>2
  <1>2. "trials" \in Kinds /\ "saves" \in Kinds /\ "stops" \in Kinds /\ "errors" \in Kinds
    BY DEF Kinds
  <1>3. \A e \in Editor : ~StartExperiment(e)
    <2> SUFFICES ASSUME NEW e \in Editor, StartExperiment(e)
                 PROVE  FALSE
      OBVIOUS
    <2>1. Spend("trials")
      BY DEF StartExperiment
    <2> QED
      BY <1>1, <1>2, <2>1
  <1>4. spent["trials"] \in Nat
    BY <1>2 DEF Shape
  <1>5. spent' = spent \/ \E kind \in Kinds : Spend(kind)
    BY <1>2 DEF Next, vars, CreatePromptVersion, Save, Compose, Number, Create, PointLabel,
                StartExperiment, WriteSplit, StopExperiment, WriteWinner, Abort
  <1> QED
    BY <1>1, <1>3, <1>4, <1>5

\* A step after which nothing stands for anything else.
LEMMA FollowRests ==
    ASSUME versions' = versions, channel' = channel
    PROVE  \A ref : Target(ref)' = Target(ref) /\ Follow(ref)' = Follow(ref)
  BY DEF Target, Follow

\* A call that is done with its walk, and one that is over.
LEMMA ClearStays ==
    ASSUME NEW e \in Editor, Clear(e), call'[e].name = call[e].name, call'[e].body = call[e].body,
           call'[e].labels \subseteq call[e].labels,
           \A ref \in Ref : Free(e, ref) => Target(ref)' = Target(ref) /\ Follow(ref)' = Follow(ref)
    PROVE  Clear(e)'
  <1>1. PICK W \in SUBSET Ref :
           /\ call[e].body \in W
           /\ \A ref \in W : Free(e, ref) /\ Follow(ref) \in W \union {None}
    BY DEF Clear
  <1>2. call'[e].body \in W
    BY <1>1
  <1>3. \A ref \in W : Free(e, ref)' /\ Follow(ref)' \in W \union {None}
    BY <1>1 DEF Free, Occupied
  <1> QED
    BY <1>2, <1>3 DEF Clear

LEMMA CheckedIdle ==
    ASSUME NEW e \in Editor, call'[e].at = "idle"
    PROVE  Checked(e)'
  BY DEF Checked

-----------------------------------------------------------------------------
(* The steps of a save.                                                    *)

(* One include more on the walk.                                           *)
LEMMA ComposeChecked ==
    ASSUME Shape, Points, NEW e \in Editor, PlaceOf(e), Checked(e), Compose(e)
    PROVE  Checked(e)' /\ Others(e)
  <1> DEFINE ref == call[e].next
             walked == call[e].path
             path == Append(walked, ref)
             refused == \/ ref \in ToSet(walked) \/ Occupied(e, ref)
                        \/ Target(ref) = 0 \/ Len(path) > MaxDepth
             next == versions[ref.name][Target(ref)]
             onward == [call[e] EXCEPT !.path = path, !.next = next]
             over == [call[e] EXCEPT !.at = "number", !.path = <<>>, !.next = None]
  <1>1. call[e] \in CallType /\ call[e].at = "compose" /\ ref \in Ref /\ walked \in Seq(Ref)
    BY DEF Shape, CallType, PlaceOf, Compose, Body
  <1>2. Walking(e)
    BY <1>1 DEF Checked
  <1>3. ToSet(path) = ToSet(walked) \union {ref} /\ ToSet(walked) \subseteq Ref /\ path \in Seq(Ref)
    <2> HIDE DEF walked, ref
    <2>1. /\ path \in Seq(Ref) /\ Len(path) = Len(walked) + 1 /\ Len(walked) \in Nat
          /\ \A i \in 1..Len(walked) : path[i] = walked[i]
          /\ path[Len(walked) + 1] = ref
          /\ DOMAIN path = 1..Len(path) /\ DOMAIN walked = 1..Len(walked)
      BY <1>1, AppendProperties, LenProperties
    <2>2. \A i \in 1..Len(walked) : walked[i] \in Ref
      BY <1>1, ElementOfSeq
    <2> HIDE DEF path
    <2> QED
      BY <2>1, <2>2 DEF ToSet
  <1>4. \A r : Target(r)' = Target(r) /\ Follow(r)' = Follow(r)
    BY FollowRests DEF Compose
  <1>5. CASE refused
    <2>1. call' = [call EXCEPT ![e] = Idle]
      BY <1>5 DEF Compose
    <2>2. call'[e] = Idle /\ Others(e)
      BY <2>1, CallSet, IdleTyped
    <2> QED
      BY <2>2, IdleTyped, CheckedIdle
  <1>6. ASSUME ~refused
        PROVE  /\ Free(e, ref) /\ Follow(ref) = next /\ next \in Body
               /\ call[e].body \in ToSet(path)
               /\ \A r \in ToSet(path) : Free(e, r) /\ Follow(r) \in ToSet(path) \union {next}
    <2>1. Free(e, ref) /\ Follow(ref) = next /\ next \in Body
      BY <1>1, <1>6, FollowTyped, TargetThere DEF Free
    <2> HIDE DEF ref, walked, next, path
    <2> QED
      BY <1>2, <1>3, <2>1 DEF Walking, walked, ref
  <1>7. CASE ~refused /\ next # None
    <2>1. call' = [call EXCEPT ![e] = onward]
      BY <1>7 DEF Compose
    <2>2. onward \in CallType
      BY <1>1, <1>3, <1>6, <1>7 DEF CallType
    <2>3. call'[e] = onward /\ Others(e)
      BY <2>1, <2>2, CallSet
    <2>4. /\ onward.at = "compose" /\ onward.next = next /\ onward.path = path
          /\ onward.name = call[e].name /\ onward.body = call[e].body /\ onward.labels = call[e].labels
      BY <1>1 DEF CallType
    <2> HIDE DEF onward, next, path
    <2>5. \A r : Free(e, r)' = Free(e, r)
      BY <1>4, <2>3, <2>4 DEF Free, Occupied
    <2>6. Walking(e)'
      BY <1>4, <1>6, <1>7, <2>3, <2>4, <2>5 DEF Walking
    <2> QED
      BY <2>3, <2>4, <2>6 DEF Checked
  <1>8. CASE ~refused /\ next = None
    <2>1. call' = [call EXCEPT ![e] = over]
      BY <1>8 DEF Compose
    <2>2. over \in CallType
      BY <1>1, EmptySeq, PlacesHas DEF CallType, Body
    <2>3. call'[e] = over /\ Others(e)
      BY <2>1, <2>2, CallSet
    <2>4. /\ over.at = "number" /\ over.name = call[e].name
          /\ over.body = call[e].body /\ over.labels = call[e].labels
      BY <1>1 DEF CallType
    <2> HIDE DEF over, next, path
    <2>5. Clear(e)
      BY <1>3, <1>6, <1>8, <1>1 DEF Clear
    <2>6. Clear(e)'
      BY <1>4, <2>3, <2>4, <2>5, ClearStays
    <2> QED
      BY <2>3, <2>4, <2>6 DEF Checked
  <1> QED
    BY <1>5, <1>7, <1>8

(* A version is added: the one reference that comes to stand for something *)
(* names it by number, and was not on the walk.                            *)
LEMMA CreateChecked ==
    ASSUME Shape, Points, Ranked, NEW e \in Editor, PlaceOf(e), Checked(e), Create(e)
    PROVE  Ranked' /\ Checked(e)' /\ Others(e)
  <1> DEFINE n == call[e].name
             body == call[e].body
  <1>1. n \in Name /\ body \in Body /\ call[e] \in CallType /\ call[e].at = "create"
    BY DEF PlaceOf, Create, Shape, CallType
  <1>2. channel' = channel /\ Others(e) /\ call'[e] = IF IsNew(e) THEN [call[e] EXCEPT !.at = "label"] ELSE Idle
    BY CreateSets DEF Create
  <1>3. CASE ~IsNew(e)
    <2>1. versions' = versions
      BY <1>3, VersionsGrow
    <2>2. \A ref : Follow(ref)' = Follow(ref)
      BY <1>2, <2>1, FollowRests
    <2>3. Ranked'
      BY <2>2, RanksStay
    <2> QED
      BY <1>2, <1>3, <2>3, IdleTyped, CheckedIdle
  <1>4. CASE IsNew(e)
    <2>1. /\ \A m \in Name : Len(versions'[m]) \in Nat /\ Len(versions[m]) \in Nat
          /\ \A m \in Name : \A v \in 1..Len(versions[m]) : versions'[m][v] = versions[m][v]
          /\ \A m \in Name \ {n} : versions'[m] = versions[m]
          /\ Len(versions'[n]) = Len(versions[n]) + 1
          /\ versions'[n][Len(versions[n]) + 1] = body
      <3>1. versions' \in [Name -> Seq(Body)]
        BY VersionsGrow
      <3>2. \A m \in Name : versions'[m] \in Seq(Body) /\ versions[m] \in Seq(Body)
        BY <3>1 DEF Shape
      <3>3. \A m \in Name : Len(versions'[m]) \in Nat /\ Len(versions[m]) \in Nat
        BY <3>2, LenProperties
      <3>4. Len(versions'[n]) = Len(versions[n]) + 1 /\ versions'[n][Len(versions[n]) + 1] = body
        BY <1>4, VersionsGrow
      <3> QED
        BY <3>3, <3>4, VersionsGrow
    <2>2. ASSUME NEW ref \in Ref, Target(ref) # 0
          PROVE  Target(ref)' = Target(ref) /\ Follow(ref)' = Follow(ref)
      <3>1. ref.name \in Name /\ Target(ref) \in 1..Len(versions[ref.name]) /\ ref # None
        BY <2>2, TargetThere, FollowTyped
      <3>2. Target(ref)' = Target(ref)
        <4>1. CASE ref.label = None
          <5>1. ref.version \in Nat
            BY <4>1, PromptAssumption DEF Ref
          <5>2. ref.version <= Len(versions[ref.name])
            BY <2>2, <4>1 DEF Target
          <5>3. ref.version <= Len(versions'[ref.name])
            BY <1>1, <2>1, <3>1, <5>1, <5>2
          <5> QED
            BY <4>1, <5>2, <5>3 DEF Target
        <4>2. CASE ref.label # None
          BY <1>2, <4>2 DEF Target
        <4> QED
          BY <4>1, <4>2
      <3> QED
        BY <2>1, <2>2, <3>1, <3>2 DEF Follow
    <2>3. ASSUME NEW ref \in Ref, Target(ref) = 0
          PROVE  Follow(ref)' \in {None, body}
      <3>1. ref.name \in Name /\ ref # None
        BY FollowTyped DEF Ref
      <3>2. CASE ref.label = None
        <4>1. ref.version \in Nat \ {0}
          BY <3>2, PromptAssumption DEF Ref
        <4>2. ref.version > Len(versions[ref.name])
          BY <2>1, <2>3, <3>1, <3>2, <4>1 DEF Target
        <4>3. CASE ref.version <= Len(versions'[ref.name])
          <5>1. ref.name = n /\ ref.version = Len(versions[n]) + 1
            BY <2>1, <3>1, <4>1, <4>2, <4>3
          <5>2. Target(ref)' = ref.version
            BY <3>2, <4>3 DEF Target
          <5> QED
            BY <2>1, <3>1, <5>1, <5>2 DEF Follow
        <4>4. CASE ~(ref.version <= Len(versions'[ref.name]))
          BY <3>2, <4>4 DEF Target, Follow
        <4> QED
          BY <4>3, <4>4
      <3>3. CASE ref.label # None
        <4>1. Target(ref)' = 0
          BY <1>2, <2>3, <3>3 DEF Target
        <4> QED
          BY <4>1 DEF Follow
      <3> QED
        BY <3>2, <3>3
    <2>4. Ranked'
      <3>1. CASE body = None
        <4>1. \A ref \in Ref : Follow(ref)' \in {Follow(ref), None}
          BY <2>2, <2>3, <3>1
        <4> QED
          BY <4>1, RanksStay
      <3>2. CASE body # None
        <4>1. Clear(e)
          BY <1>1, <3>2 DEF Checked
        <4>2. PICK W \in SUBSET Ref :
                 /\ body \in W
                 /\ \A ref \in W : Free(e, ref) /\ Follow(ref) \in W \union {None}
          BY <4>1 DEF Clear
        <4>3. \A ref \in Ref : \/ Follow(ref)' \in {Follow(ref), None}
                               \/ Follow(ref)' = body /\ ref \notin W
          BY <2>2, <2>3, <4>2 DEF Free
        <4>4. body \in Ref
          BY <4>2
        <4> HIDE DEF body
        <4> QED
          BY <4>2, <4>3, <4>4, RanksMove
      <3> QED
        BY <3>1, <3>2
    <2>5. /\ call'[e].at = "label" /\ call'[e].name = n /\ call'[e].body = body
          /\ call'[e].labels = call[e].labels
      BY <1>1, <1>2, <1>4 DEF CallType
    <2>6. body # None => Clear(e)'
      <3>1. body # None => Clear(e)
        BY <1>1 DEF Checked
      <3>2. \A ref \in Ref : Free(e, ref) => Target(ref)' = Target(ref) /\ Follow(ref)' = Follow(ref)
        BY <2>2 DEF Free
      <3> QED
        BY <2>5, <3>1, <3>2, ClearStays
    <2> QED
      BY <1>2, <2>4, <2>5, <2>6 DEF Checked
  <1> QED
    BY <1>3, <1>4

(* A channel is pointed at the version of the save: it was not on the walk *)
(* from the version's body.                                                *)
LEMMA PointChecked ==
    ASSUME Shape, Points, Ranked, NEW e \in Editor, PlaceOf(e), Checked(e), PointLabel(e)
    PROVE  /\ Ranked' /\ Checked(e)' /\ Others(e)
           /\ \E l \in Label : /\ \A m \in Name, k \in Label :
                                     m # call[e].name \/ k # l => channel'[m][k] = channel[m][k]
                               /\ channel'[call[e].name][l].split =
                                     IF channel[call[e].name][l] = None THEN None
                                     ELSE channel[call[e].name][l].split
  <1> DEFINE n == call[e].name
             body == call[e].body
  <1>1. /\ n \in Name /\ body \in Body /\ call[e] \in CallType /\ call[e].at = "label"
        /\ call[e].version \in 1..Len(versions[n]) /\ Len(versions[n]) \in Nat
        /\ versions[n][call[e].version] = body
    BY Lengths DEF PlaceOf, PointLabel, Shape, CallType
  <1>2. PICK l \in call[e].labels :
           /\ l \in Label
           /\ LET old == channel[n][l]
                  new == [version |-> call[e].version, split |-> IF old = None THEN None ELSE old.split]
              IN  new # None /\ new \in ChannelType /\ Pointed(n, l, new)
           /\ \/ call'[e] = Idle
              \/ call'[e] = [call[e] EXCEPT !.labels = call[e].labels \ {l}]
    BY PointSets
  <1>3. Others(e) /\ versions' = versions
    BY PointSets DEF PointLabel
  <1>4. channel'[n][l] # None /\ channel'[n][l].version = call[e].version
    BY <1>2 DEF Pointed
  <1>5. l # None
    BY <1>2, PromptAssumption
  <1>6. ASSUME NEW ref \in Ref, ref.name # n \/ ref.label # l
        PROVE  Target(ref)' = Target(ref) /\ Follow(ref)' = Follow(ref)
    <2>1. ref.name \in Name /\ ref.label \in Label \union {None}
      BY DEF Ref
    <2>2. ref.label # None => channel'[ref.name][ref.label] = channel[ref.name][ref.label]
      BY <1>2, <1>6, <2>1 DEF Pointed
    <2>3. Target(ref)' = Target(ref)
      BY <1>3, <2>2 DEF Target
    <2> QED
      BY <1>3, <2>3 DEF Follow
  <1>7. ASSUME NEW ref \in Ref, ref.name = n, ref.label = l
        PROVE  Follow(ref)' = body /\ Occupied(e, ref)
    <2>1. Target(ref)' = call[e].version
      BY <1>4, <1>5, <1>7 DEF Target
    <2>2. ref # None /\ call[e].version # 0
      BY <1>1, FollowTyped
    <2> QED
      BY <1>1, <1>2, <1>3, <1>7, <2>1, <2>2 DEF Follow, Occupied
  <1>8. Ranked'
    <2>1. CASE body = None
      <3>1. \A ref \in Ref : Follow(ref)' \in {Follow(ref), None}
        BY <1>6, <1>7, <2>1
      <3> QED
        BY <3>1, RanksStay
    <2>2. CASE body # None
      <3>1. Clear(e)
        BY <1>1, <2>2 DEF Checked
      <3>2. PICK W \in SUBSET Ref :
               /\ body \in W
               /\ \A ref \in W : Free(e, ref) /\ Follow(ref) \in W \union {None}
        BY <3>1 DEF Clear
      <3>3. \A ref \in Ref : \/ Follow(ref)' \in {Follow(ref), None}
                             \/ Follow(ref)' = body /\ ref \notin W
        BY <1>6, <1>7, <3>2 DEF Free
      <3>4. body \in Ref
        BY <3>2
      <3> HIDE DEF body
      <3> QED
        BY <3>2, <3>3, <3>4, RanksMove
    <2> QED
      BY <2>1, <2>2
  <1>9. Checked(e)'
    <2>1. CASE call'[e] = Idle
      BY <2>1, IdleTyped, CheckedIdle
    <2>2. CASE call'[e] = [call[e] EXCEPT !.labels = call[e].labels \ {l}]
      <3>1. /\ call'[e].at = "label" /\ call'[e].name = n /\ call'[e].body = body
            /\ call'[e].labels \subseteq call[e].labels
        BY <1>1, <2>2 DEF CallType
      <3>2. body # None => Clear(e)
        BY <1>1 DEF Checked
      <3>3. \A ref \in Ref : Free(e, ref) => Target(ref)' = Target(ref) /\ Follow(ref)' = Follow(ref)
        BY <1>6, <1>7 DEF Free
      <3>4. body # None => Clear(e)'
        BY <3>1, <3>2, <3>3, ClearStays
      <3> QED
        BY <3>1, <3>4 DEF Checked
    <2> QED
      BY <1>2, <2>1, <2>2
  <1>10. /\ \A m \in Name, k \in Label : m # n \/ k # l => channel'[m][k] = channel[m][k]
         /\ channel'[n][l].split = IF channel[n][l] = None THEN None ELSE channel[n][l].split
    BY <1>2 DEF Pointed
  <1> QED
    BY <1>2, <1>3, <1>8, <1>9, <1>10

-----------------------------------------------------------------------------
(* The other steps: nothing comes to stand for anything else.              *)

(* A call begins: a save has not walked yet, a stop has what it read.      *)
LEMMA BeginChecked ==
    ASSUME Shape, Points, Unsplit, NEW e \in Editor, Save(e) \/ StopExperiment(e)
    PROVE  Checked(e)' /\ Others(e) /\ call'[e].at # "start"
  <1>1. channel' = channel /\ versions' = versions
    BY DEF Save, StopExperiment
  <1>2. CASE Save(e)
    <2>1. PICK n \in Name, labels \in SUBSET Labels, body \in Body :
             call' = [call EXCEPT ![e] =
                [Idle EXCEPT !.at = IF body = None THEN "number" ELSE "compose",
                             !.name = n, !.body = body, !.labels = SaveLabels(labels), !.next = body]]
      BY <1>2 DEF Save
    <2> DEFINE c == [Idle EXCEPT !.at = IF body = None THEN "number" ELSE "compose",
                                 !.name = n, !.body = body, !.labels = SaveLabels(labels), !.next = body]
    <2>2. SaveLabels(labels) \in SUBSET Label
      BY DEF SaveLabels, Label
    <2>3. c \in CallType
      BY <2>2, IdleTyped, PlacesHas DEF CallType
    <2>4. Others(e) /\ call'[e] = c
      BY <2>1, <2>3, CallSet
    <2>5. /\ c.at = IF body = None THEN "number" ELSE "compose"
          /\ c.body = body /\ c.next = body /\ c.path = <<>>
      BY DEF Idle
    <2> HIDE DEF c
    <2>6. ToSet(call'[e].path) = {}
      BY <2>4, <2>5 DEF ToSet
    <2>7. Walking(e)'
      BY <2>4, <2>5, <2>6 DEF Walking
    <2> QED
      BY <2>4, <2>5, <2>7 DEF Checked
  <1>3. CASE StopExperiment(e)
    <2>1. PICK n \in Name, l \in Label, promote \in BOOLEAN :
             /\ channel[n][l] # None
             /\ call' = [call EXCEPT ![e] =
                   [Idle EXCEPT !.at = "stop", !.name = n, !.labels = {l}, !.promote = promote,
                                !.version = Winner(channel[n][l], promote)]]
      BY <1>3 DEF StopExperiment
    <2> DEFINE c == [Idle EXCEPT !.at = "stop", !.name = n, !.labels = {l}, !.promote = promote,
                                 !.version = Winner(channel[n][l], promote)]
    <2>2. Winner(channel[n][l], promote) = channel[n][l].version /\ channel[n][l].version \in Nat
      BY <2>1 DEF Winner, Unsplit, Shape, ChannelType
    <2>3. c \in CallType
      BY <2>2, IdleTyped, PlacesHas DEF CallType
    <2>4. Others(e) /\ call'[e] = c
      BY <2>1, <2>3, CallSet
    <2>5. c.at = "stop" /\ c.name = n /\ c.labels = {l} /\ c.version = channel[n][l].version
      BY <2>2 DEF Idle
    <2> HIDE DEF c
    <2> QED
      BY <1>1, <2>1, <2>4, <2>5 DEF Checked
  <1> QED
    BY <1>2, <1>3

(* A stop writes back the version that is there.                           *)
LEMMA WinnerRests ==
    ASSUME Shape, Points, Unsplit, NEW e \in Editor, PlaceOf(e), Checked(e), WriteWinner(e)
    PROVE  /\ \A ref \in Ref : Follow(ref)' = Follow(ref)
           /\ \A n \in Name, l \in Label : channel'[n][l] # None => channel'[n][l].split = None
           /\ Others(e) /\ call'[e] = Idle
  <1> DEFINE n == call[e].name
  <1>1. PICK l \in call[e].labels, c \in ChannelType :
           /\ l \in Label /\ c # None /\ Pointed(n, l, c)
           /\ c.version = call[e].version /\ c.split = None
    BY WriteSets
  <1>2. n \in Name /\ channel[n][l] # None /\ channel[n][l].version = call[e].version
    BY <1>1 DEF PlaceOf, WriteWinner, Checked
  <1>3. versions' = versions
    BY DEF WriteWinner
  <1>4. ASSUME NEW ref \in Ref
        PROVE  Target(ref)' = Target(ref)
    <2>1. ref.name \in Name /\ ref.label \in Label \union {None}
      BY DEF Ref
    <2>2. CASE ref.label = None
      BY <1>3, <2>2 DEF Target
    <2>3. CASE ref.label # None /\ ref.name = n /\ ref.label = l
      BY <1>1, <1>2, <2>3 DEF Target, Pointed
    <2>4. CASE ref.label # None /\ (ref.name # n \/ ref.label # l)
      BY <1>1, <2>1, <2>4 DEF Target, Pointed
    <2> QED
      BY <2>2, <2>3, <2>4
  <1>5. \A ref \in Ref : Follow(ref)' = Follow(ref)
    BY <1>3, <1>4 DEF Follow
  <1>6. \A m \in Name, k \in Label : channel'[m][k] # None => channel'[m][k].split = None
    <2> TAKE m \in Name, k \in Label
    <2>1. CASE m = n /\ k = l
      BY <1>1, <2>1 DEF Pointed
    <2>2. CASE m # n \/ k # l
      BY <1>1, <2>2 DEF Pointed, Unsplit
    <2> QED
      BY <2>1, <2>2
  <1>7. Others(e) /\ call'[e] = Idle
    BY CallSet, IdleTyped DEF WriteWinner
  <1> QED
    BY <1>5, <1>6, <1>7

LEMMA AcyclicInvInductive ==
    ASSUME TypeInv, ArmsInv, AcyclicInv, [Next]_vars
    PROVE  AcyclicInv'
  <1> SUFFICES ASSUME ~raced', spent'["trials"] = 0
               PROVE  Ranked' /\ Unsplit' /\ \A e \in Editor : Checked(e)'
    BY DEF AcyclicInv
  <1>1. Shape /\ Points /\ \A e \in Editor : PlaceOf(e)
    BY DEF TypeInv
  <1>2. spent["trials"] = 0 /\ \A e \in Editor : ~StartExperiment(e)
    BY <1>1, TrialsStay
  <1>3. Idle.at = "idle" /\ Idle \in CallType
    BY IdleTyped
  <1>4. CASE UNCHANGED vars
    <2>1. Ranked /\ Unsplit /\ \A e \in Editor : Checked(e)
      BY <1>2, <1>4 DEF vars, AcyclicInv
    <2>2. \A ref : Target(ref)' = Target(ref) /\ Follow(ref)' = Follow(ref)
      BY <1>4, FollowRests DEF vars
    <2>3. Ranked'
      BY <2>1, <2>2, RanksStay
    <2>4. \A e \in Editor : Checked(e)'
      BY <1>4, <2>1, <2>2 DEF vars, Checked, Walking, Clear, Free, Occupied
    <2>5. Unsplit'
      BY <1>4, <2>1 DEF vars, Unsplit
    <2> QED
      BY <2>3, <2>4, <2>5
  <1>5. ASSUME NEW e \in Editor, Others(e),
               CreatePromptVersion(e) \/ StartExperiment(e) \/ WriteSplit(e) \/ StopExperiment(e)
                  \/ WriteWinner(e) \/ Abort(e)
        PROVE  /\ Ranked /\ Unsplit /\ \A f \in Editor : Checked(f)
               /\ \A f \in Editor \ {e} : Checked(f)' /\ call'[f].at # "start"
    <2>1. ~raced /\ \A f \in Editor \ {e} : call'[f].at = "idle"
      BY <1>5, InTurn
    <2> QED
      BY <1>2, <2>1, CheckedIdle DEF AcyclicInv
  <1>6. ASSUME NEW e \in Editor, Others(e), channel' = channel, versions' = versions,
               Checked(e)', call'[e].at # "start",
               CreatePromptVersion(e) \/ StopExperiment(e) \/ Abort(e)
        PROVE  Ranked' /\ Unsplit' /\ \A f \in Editor : Checked(f)'
    <2>1. /\ Ranked /\ Unsplit
          /\ \A f \in Editor \ {e} : Checked(f)' /\ call'[f].at # "start"
      BY <1>5, <1>6
    <2>2. Ranked'
      BY <1>6, <2>1, FollowRests, RanksStay
    <2> QED
      BY <1>6, <2>1, <2>2 DEF Unsplit
  <1>7. ASSUME NEW e \in Editor, Save(e) \/ StopExperiment(e)
        PROVE  Ranked' /\ Unsplit' /\ \A f \in Editor : Checked(f)'
    <2>1. channel' = channel /\ versions' = versions /\ Others(e)
      BY <1>1, <1>7, BeginSets DEF Save, StopExperiment
    <2>2. Unsplit
      BY <1>5, <1>7, <2>1 DEF CreatePromptVersion
    <2>3. Checked(e)' /\ call'[e].at # "start"
      BY <1>1, <1>7, <2>2, BeginChecked
    <2> QED
      BY <1>6, <1>7, <2>1, <2>3 DEF CreatePromptVersion
  <1>8. ASSUME NEW e \in Editor, Compose(e)
        PROVE  Ranked' /\ Unsplit' /\ \A f \in Editor : Checked(f)'
    <2>1. channel' = channel /\ versions' = versions
      BY <1>8 DEF Compose
    <2>2. Others(e) /\ call'[e].at # "start"
      <3>1. Others(e) /\ call'[e].at \in {"idle", "compose", "number"}
        BY <1>1, <1>3, <1>8, ComposeSets
      <3> QED
        BY <3>1
    <2>3. Checked(e)
      BY <1>5, <1>8, <2>2 DEF CreatePromptVersion
    <2>4. Checked(e)'
      BY <1>1, <1>8, <2>3, ComposeChecked
    <2> QED
      BY <1>6, <1>8, <2>1, <2>2, <2>4 DEF CreatePromptVersion
  <1>9. ASSUME NEW e \in Editor, Number(e)
        PROVE  Ranked' /\ Unsplit' /\ \A f \in Editor : Checked(f)'
    <2>1. channel' = channel /\ versions' = versions /\ call[e].at = "number"
      BY <1>9 DEF Number
    <2>2. /\ Others(e) /\ call[e] \in CallType
          /\ call'[e] = [call[e] EXCEPT !.at = "create", !.version = Len(versions[call[e].name]) + 1]
      BY <1>1, <1>9, NumberSets DEF Shape
    <2>3. /\ call'[e].at = "create" /\ call'[e].name = call[e].name
          /\ call'[e].body = call[e].body /\ call'[e].labels = call[e].labels
      BY <2>2 DEF CallType
    <2>4. Checked(e)
      BY <1>5, <1>9, <2>2 DEF CreatePromptVersion
    <2>5. call[e].body # None => Clear(e)
      BY <2>1, <2>4 DEF Checked
    <2>6. call[e].body # None => Clear(e)'
      BY <2>1, <2>3, <2>5, FollowRests, ClearStays
    <2>7. Checked(e)'
      BY <2>3, <2>6 DEF Checked
    <2> QED
      BY <1>6, <1>9, <2>1, <2>2, <2>3, <2>7 DEF CreatePromptVersion
  <1>10. ASSUME NEW e \in Editor, Create(e)
         PROVE  Ranked' /\ Unsplit' /\ \A f \in Editor : Checked(f)'
    <2>1. Others(e) /\ channel' = channel /\ call'[e].at # "start"
      <3>1. Others(e) /\ call'[e] = IF IsNew(e) THEN [call[e] EXCEPT !.at = "label"] ELSE Idle
        BY <1>1, <1>10, CreateSets
      <3>2. call[e] \in CallType
        BY <1>1 DEF Shape
      <3>3. call'[e].at \in {"label", "idle"}
        BY <1>3, <3>1, <3>2 DEF CallType
      <3> QED
        BY <1>10, <3>1, <3>3 DEF Create
    <2>2. /\ Ranked /\ Unsplit /\ Checked(e)
          /\ \A f \in Editor \ {e} : Checked(f)' /\ call'[f].at # "start"
      BY <1>5, <1>10, <2>1 DEF CreatePromptVersion
    <2>3. Ranked' /\ Checked(e)'
      BY <1>1, <1>10, <2>2, CreateChecked
    <2> QED
      BY <2>1, <2>2, <2>3 DEF Unsplit
  <1>11. ASSUME NEW e \in Editor, PointLabel(e)
         PROVE  Ranked' /\ Unsplit' /\ \A f \in Editor : Checked(f)'
    <2>1. Others(e) /\ call'[e].at # "start"
      <3>1. /\ Others(e) /\ call[e] \in CallType /\ call[e].at = "label"
            /\ \E l \in call[e].labels :
                  call'[e] = Idle \/ call'[e] = [call[e] EXCEPT !.labels = call[e].labels \ {l}]
        BY <1>1, <1>11, PointSets DEF Shape, PointLabel
      <3>2. call'[e].at \in {"label", "idle"}
        BY <1>3, <3>1 DEF CallType
      <3> QED
        BY <3>1, <3>2
    <2>2. /\ Ranked /\ Unsplit /\ Checked(e)
          /\ \A f \in Editor \ {e} : Checked(f)' /\ call'[f].at # "start"
      BY <1>5, <1>11, <2>1 DEF CreatePromptVersion
    <2>3. /\ Ranked' /\ Checked(e)'
          /\ \E l \in Label : /\ \A m \in Name, k \in Label :
                                    m # call[e].name \/ k # l => channel'[m][k] = channel[m][k]
                              /\ channel'[call[e].name][l].split =
                                    IF channel[call[e].name][l] = None THEN None
                                    ELSE channel[call[e].name][l].split
      BY <1>1, <1>11, <2>2, PointChecked
    <2>4. call[e].name \in Name
      BY <1>1, <1>11 DEF PlaceOf, PointLabel
    <2>5. \A m \in Name, k \in Label : channel'[m][k] # None => channel'[m][k].split = None
      BY <2>2, <2>3, <2>4 DEF Unsplit
    <2> QED
      BY <2>1, <2>2, <2>3, <2>5 DEF Unsplit
  <1>12. ASSUME NEW e \in Editor, WriteWinner(e)
         PROVE  Ranked' /\ Unsplit' /\ \A f \in Editor : Checked(f)'
    <2>1. Others(e) /\ call'[e] = Idle
      BY <1>1, <1>3, <1>12, CallSet DEF WriteWinner
    <2>2. /\ Ranked /\ Unsplit /\ Checked(e)
          /\ \A f \in Editor \ {e} : Checked(f)' /\ call'[f].at # "start"
      BY <1>5, <1>12, <2>1
    <2>3. /\ \A ref \in Ref : Follow(ref)' = Follow(ref)
          /\ \A n \in Name, l \in Label : channel'[n][l] # None => channel'[n][l].split = None
      BY <1>1, <1>12, <2>2, WinnerRests
    <2>4. Ranked'
      BY <2>2, <2>3, RanksStay
    <2> QED
      BY <1>3, <2>1, <2>2, <2>3, <2>4, CheckedIdle DEF Unsplit
  <1>13. ASSUME NEW e \in Editor, WriteSplit(e)
         PROVE  FALSE
    <2>1. Others(e) /\ call[e].at = "start"
      BY <1>1, <1>3, <1>13, CallSet DEF WriteSplit
    <2>2. Unsplit
      BY <1>5, <1>13, <2>1
    <2> QED
      BY <2>1, <2>2 DEF Unsplit
  <1>14. ASSUME NEW e \in Editor, Abort(e)
         PROVE  Ranked' /\ Unsplit' /\ \A f \in Editor : Checked(f)'
    <2>1. Others(e) /\ call'[e] = Idle /\ channel' = channel /\ versions' = versions
      BY <1>1, <1>3, <1>14, CallSet DEF Abort
    <2> QED
      BY <1>3, <1>6, <1>14, <2>1, CheckedIdle
  <1> QED
    BY <1>2, <1>4, <1>7, <1>8, <1>9, <1>10, <1>11, <1>12, <1>13, <1>14 DEF Next, CreatePromptVersion

LEMMA AcyclicInvHolds == Spec => []AcyclicInv
  <1>1. ASSUME Init
        PROVE  AcyclicInv
    <2>1. \A ref \in Ref : Follow(ref) = None
      <3> SUFFICES ASSUME NEW ref \in Ref
                   PROVE  Target(ref) = 0
        BY DEF Follow
      <3>1. ref.name \in Name /\ ref.label \in Label \union {None} /\ Len(versions[ref.name]) = 0
        BY <1>1, EmptySeq DEF Init, Ref
      <3>2. ref.label = None => ref.version \in Nat \ {0}
        BY PromptAssumption DEF Ref
      <3> QED
        BY <1>1, <3>1, <3>2 DEF Target, Init
    <2>2. Ranked
      <3> DEFINE rank == [ref \in Ref |-> 0]
      <3>1. rank \in [Ref -> Nat] /\ Ranks(rank)
        BY <2>1 DEF Ranks
      <3> QED
        BY <3>1 DEF Ranked
    <2> QED
      BY <1>1, <2>2 DEF AcyclicInv, Init, Unsplit, Checked, Idle
  <1>2. TypeInv /\ ArmsInv /\ AcyclicInv /\ [Next]_vars => AcyclicInv'
    BY AcyclicInvInductive
  <1> QED
    BY <1>1, <1>2, TypeInvHolds, ArmsInvHolds, PTL DEF Spec

(* Saves and stops that take turns leave no cycle among the includes,      *)
(* however many prompts, channels and saves there were and wherever a save *)
(* failed: the walk before a save ends, and misses every channel the save  *)
(* is about to point at its version (createPromptVersion: willOccupy).     *)
THEOREM SavesStayAcyclic ==
    ASSUME IsFiniteSet(Ref)
    PROVE  Spec => []SavesAcyclic
  <1>1. TypeInv /\ AcyclicInv => SavesAcyclic
    <2> SUFFICES ASSUME TypeInv, AcyclicInv, ~raced, spent["trials"] = 0,
                        NEW n \in Name, NEW l \in Label
                 PROVE  ~Cyclic(n, l)
      BY DEF SavesAcyclic
    <2> QED
      BY RankedAcyclic DEF TypeInv, AcyclicInv, Unsplit
  <1> QED
    BY <1>1, TypeInvHolds, AcyclicInvHolds, PTL

=============================================================================
