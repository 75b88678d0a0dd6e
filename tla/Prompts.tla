------------------------------- MODULE Prompts -------------------------------
(***************************************************************************)
(* The prompt registry: a save appends an immutable version and points     *)
(* channels at it, an experiment splits a channel between two versions and *)
(* may end by promoting the challenger.  A version's body may include      *)
(* another prompt by channel or by version; a save walks the includes to   *)
(* refuse a cycle.  Every await of these handlers lets the others in: none *)
(* of them runs in a transaction or takes a lock.                          *)
(*                                                                         *)
(* A body includes one prompt at most (bound).                             *)
(***************************************************************************)
EXTENDS Naturals, FiniteSets, Sequences, SequencesExt

CONSTANTS
    Editor,    \* the calls that may be under way at once (bound)
    Name,      \* prompts
    None,      \* nothing: no include, no channel, no challenger
    Labels,    \* channels besides "latest"
    Pins,      \* versions a body may include by number (bound)
    MaxDepth,  \* MAX_COMPOSITION_DEPTH
    Plans      \* bound: the events of a behaviour stay within one of these

Kinds == {"saves", "trials", "stops", "errors"}

Label == Labels \union {"latest"}

\* A reference names a channel, or a version (then its label is None).
Ref == [name : Name, label : Label, version : {0}] \union [name : Name, label : {None}, version : Pins]

Body == Ref \union {None}

ASSUME PromptAssumption ==
    /\ None \notin Label \union Nat \union Ref
    /\ None \notin [version : Nat, split : Nat \union {None}]
    /\ Pins \subseteq Nat \ {0}
    /\ MaxDepth \in Nat
    /\ Plans \subseteq [Kinds -> Nat]

VARIABLES
    versions,  \* the bodies of each prompt; its version is the index
    channel,   \* of each prompt and label: None, or its version and challenger
    call,      \* createPromptVersion, startExperiment or stopExperiment
    raced,     \* ghost: some two calls overlapped
    settled,   \* ghost: the last call on a prompt was a save with no other beside it
    spent      \* events so far, by kind

vars == <<versions, channel, call, raced, settled, spent>>

Places == {"idle", "compose", "number", "create", "label", "start", "stop"}

Idle == [at |-> "idle", name |-> None, body |-> None, labels |-> {}, path |-> <<>>,
         next |-> None, version |-> 0, promote |-> FALSE]

Spend(kind) ==
    /\ spent' = [spent EXCEPT ![kind] = @ + 1]
    /\ \E plan \in Plans : \A k \in Kinds : spent'[k] <= plan[k]

Busy == {e \in Editor : call[e].at # "idle"}
BusyOn(n) == {e \in Busy : call[e].name = n}

\* Ghosts at the begin of a call on prompt n.
Begins(n, save) ==
    /\ raced' = (raced \/ Busy # {})
    /\ settled' = [settled EXCEPT ![n] = save /\ BusyOn(n) = {}]

Init ==
    /\ versions = [n \in Name |-> <<>>]
    /\ channel = [n \in Name |-> [l \in Label |-> None]]
    /\ call = [e \in Editor |-> Idle]
    /\ raced = FALSE
    /\ settled = [n \in Name |-> TRUE]
    /\ spent = [k \in Kinds |-> 0]

-----------------------------------------------------------------------------
(* createPromptVersion                                                     *)

\* Explicit labels instead of "latest".
LabelsOnly(labels) == IF labels = {} THEN {"latest"} ELSE labels

\* The channels a save points at its version.
SaveLabels(labels) == {"latest"} \union labels

\* A body that includes its own prompt is refused at once.
Save(e) ==
    /\ call[e].at = "idle"
    /\ Spend("saves")
    /\ \E n \in Name, labels \in SUBSET Labels : \E body \in {b \in Body : b = None \/ b.name # n} :
          /\ call' = [call EXCEPT ![e] =
                [Idle EXCEPT !.at = IF body = None THEN "number" ELSE "compose",
                             !.name = n, !.body = body, !.labels = SaveLabels(labels), !.next = body]]
          /\ Begins(n, TRUE)
    /\ UNCHANGED <<versions, channel>>

\* refResolver: the version a reference stands for, 0 if there is none.  It
\* knows nothing of challengers.
Target(ref) ==
    IF ref.label = None
    THEN IF ref.version <= Len(versions[ref.name]) THEN ref.version ELSE 0
    ELSE IF channel[ref.name][ref.label] # None THEN channel[ref.name][ref.label].version ELSE 0

\* Includes of the prompt as it was are not in the way.
NothingOccupied(e, ref) == FALSE

\* willOccupy: what this save is about to change.
Occupied(e, ref) == ref.name = call[e].name /\ ref.label \in call[e].labels

\* One include: refused if it closes a cycle, is not there, or is too deep.
Compose(e) ==
    LET ref == call[e].next
        path == Append(call[e].path, ref)
        refused == \/ ref \in ToSet(call[e].path) \/ Occupied(e, ref)
                   \/ Target(ref) = 0
                   \/ Len(path) > MaxDepth
        next == versions[ref.name][Target(ref)]
    IN /\ call[e].at = "compose"
       /\ call' = [call EXCEPT ![e] =
             CASE refused -> Idle
               [] ~refused /\ next # None -> [@ EXCEPT !.path = path, !.next = next]
               [] OTHER -> [@ EXCEPT !.at = "number", !.path = <<>>, !.next = None]]
       /\ settled' = IF refused THEN [settled EXCEPT ![call[e].name] = FALSE] ELSE settled
       /\ UNCHANGED <<versions, channel, raced, spent>>

NextVersion(n) == Len(versions[n]) + 1

\* findFirst: the highest version.
Number(e) ==
    /\ call[e].at = "number"
    /\ call' = [call EXCEPT ![e].at = "create", ![e].version = NextVersion(call[e].name)]
    /\ UNCHANGED <<versions, channel, raced, settled, spent>>

\* A conflict taken for an earlier attempt of the same save.
GoesOnAnyway(e) == TRUE

\* The unique index on prompt and version lets one of two saves through.
IsNew(e) == call[e].version > Len(versions[call[e].name])

Create(e) ==
    LET n == call[e].name
    IN /\ call[e].at = "create"
       /\ IF IsNew(e)
          THEN /\ versions' = [versions EXCEPT ![n] = Append(@, call[e].body)]
               /\ call' = [call EXCEPT ![e].at = "label"]
               /\ UNCHANGED settled
          ELSE /\ call' = [call EXCEPT ![e] = Idle]
               /\ settled' = [settled EXCEPT ![n] = FALSE]
               /\ UNCHANGED versions
       /\ UNCHANGED <<channel, raced, spent>>

\* The next label, "latest" first: the channel moves whatever it is at, and a
\* challenger stays.
PointLabel(e) ==
    LET n == call[e].name
        rest(l) == call[e].labels \ {l}
    IN /\ call[e].at = "label"
       /\ \E l \in call[e].labels :
             /\ "latest" \in call[e].labels => l = "latest"
             /\ channel' = [channel EXCEPT ![n][l] =
                   [version |-> call[e].version, split |-> IF @ = None THEN None ELSE @.split]]
             /\ call' = [call EXCEPT ![e] =
                   IF rest(l) = {} THEN Idle ELSE [@ EXCEPT !.labels = rest(l)]]
       /\ UNCHANGED <<versions, raced, settled, spent>>

-----------------------------------------------------------------------------
(* startExperiment, stopExperiment                                         *)

\* Any version of the prompt.
AnyVersion(n, l) == DOMAIN versions[n]

\* The challenger exists and is not the control.
Challengers(n, l) == DOMAIN versions[n] \ {channel[n][l].version}

StartExperiment(e) ==
    /\ call[e].at = "idle"
    /\ Spend("trials")
    /\ \E n \in Name, l \in Label :
          /\ channel[n][l] # None
          /\ \E v \in Challengers(n, l) :
                call' = [call EXCEPT ![e] = [Idle EXCEPT !.at = "start", !.name = n, !.labels = {l}, !.version = v]]
          /\ Begins(n, FALSE)
    /\ UNCHANGED <<versions, channel>>

WriteSplit(e) ==
    /\ call[e].at = "start"
    /\ \E l \in call[e].labels : channel' = [channel EXCEPT ![call[e].name][l].split = call[e].version]
    /\ call' = [call EXCEPT ![e] = Idle]
    /\ UNCHANGED <<versions, raced, settled, spent>>

Winner(c, promote) == IF promote /\ c.split # None THEN c.split ELSE c.version

\* A channel without an experiment may be stopped as well.
StopExperiment(e) ==
    /\ call[e].at = "idle"
    /\ Spend("stops")
    /\ \E n \in Name, l \in Label, promote \in BOOLEAN :
          /\ channel[n][l] # None
          /\ call' = [call EXCEPT ![e] =
                [Idle EXCEPT !.at = "stop", !.name = n, !.labels = {l}, !.promote = promote,
                             !.version = Winner(channel[n][l], promote)]]
          /\ Begins(n, FALSE)
    /\ UNCHANGED <<versions, channel>>

WriteWinner(e) ==
    /\ call[e].at = "stop"
    /\ \E l \in call[e].labels :
          channel' = [channel EXCEPT ![call[e].name][l] = [version |-> call[e].version, split |-> None]]
    /\ call' = [call EXCEPT ![e] = Idle]
    /\ UNCHANGED <<versions, raced, settled, spent>>

\* Postgres fails, or the process dies: what is written stays.
Abort(e) ==
    /\ e \in Busy
    /\ Spend("errors")
    /\ call' = [call EXCEPT ![e] = Idle]
    /\ settled' = [settled EXCEPT ![call[e].name] = FALSE]
    /\ UNCHANGED <<versions, channel, raced>>

CreatePromptVersion(e) == Save(e) \/ Compose(e) \/ Number(e) \/ Create(e) \/ PointLabel(e)

Next ==
    \E e \in Editor :
        \/ CreatePromptVersion(e)
        \/ StartExperiment(e) \/ WriteSplit(e) \/ StopExperiment(e) \/ WriteWinner(e)
        \/ Abort(e)

Spec == Init /\ [][Next]_vars

-----------------------------------------------------------------------------
(* Types: no channel points at a version that is not there.                *)
VersionOf(n) == DOMAIN versions[n]

TypeOK ==
    /\ versions \in [Name -> Seq(Body)]
    /\ \A n \in Name, l \in Label :
          channel[n][l] # None =>
              /\ channel[n][l].version \in VersionOf(n)
              /\ channel[n][l].split \in VersionOf(n) \union {None}
    /\ \A e \in Editor :
          /\ call[e].at \in Places /\ call[e].name \in Name \union {None}
          /\ call[e].body \in Body /\ call[e].next \in Body
          /\ call[e].labels \subseteq Label /\ call[e].path \in Seq(Ref)
          /\ call[e].version \in Nat /\ call[e].promote \in BOOLEAN
    /\ raced \in BOOLEAN /\ settled \in [Name -> BOOLEAN] /\ spent \in [Kinds -> Nat]

(* Of two saves that took the same number one fails: the version a save    *)
(* points its channels at has the body it was given.                       *)
ChannelsGetOwnBody ==
    \A e \in Editor : call[e].at = "label" =>
        /\ call[e].version \in VersionOf(call[e].name)
        /\ versions[call[e].name][call[e].version] = call[e].body

(* "latest" is the newest version after every save that had its prompt to  *)
(* itself, whatever raced or failed before it.                             *)
LatestTracks ==
    \A n \in Name : settled[n] /\ BusyOn(n) = {} /\ versions[n] # <<>> =>
        channel[n]["latest"] # None /\ channel[n]["latest"].version = Len(versions[n])

\* The include in the body that a reference stands for.
Follow(ref) == IF ref = None \/ Target(ref) = 0 THEN None ELSE versions[ref.name][Target(ref)]

\* The includes from body on, as many as there are references.
Includes(body) ==
    LET f[n \in 0..Cardinality(Ref)] == IF n = 0 THEN body ELSE Follow(f[n - 1])
    IN f

\* Resolving a channel, by its version or its challenger, ends in a cycle.
Cyclic(n, l) ==
    channel[n][l] # None /\
    \E v \in {channel[n][l].version, channel[n][l].split} \ {None} :
        LET f == Includes(versions[n][v])
        IN \/ \A i \in DOMAIN f : f[i] # None
           \/ \E i \in DOMAIN f : f[i] # None /\ f[i].name = n /\ f[i].label = l

(* Saves that do not overlap leave no cycle: the channels a save occupies  *)
(* are part of its walk.                                                   *)
SavesAcyclic ==
    ~raced /\ spent["trials"] = 0 => \A n \in Name, l \in Label : ~Cyclic(n, l)

(* The challenger of a channel differs from its control, unless the        *)
(* control moved between the check and the write.                          *)
ArmsDiffer ==
    raced \/ \A n \in Name, l \in Label :
        channel[n][l] # None => channel[n][l].split # channel[n][l].version

(* Stopping without promoting leaves the live version where it is, unless  *)
(* a save moved it after the channel was read.                             *)
StopKeepsControl ==
    raced \/ \A e \in Editor : call[e].at = "stop" /\ ~call[e].promote =>
        \A l \in call[e].labels : channel[call[e].name][l].version = call[e].version

(* Experiments that take turns with every other call keep their arms.      *)
ArmsHold == ArmsDiffer /\ StopKeepsControl

(* "Cycles have to be impossible": resolving a channel never runs into     *)
(* one.  Nothing looks for a cycle when a challenger goes live.            *)
CyclesImpossible == \A n \in Name, l \in Label : ~Cyclic(n, l)

=============================================================================
