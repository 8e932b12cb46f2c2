------------------------------- MODULE YamlTree ------------------------------
(***************************************************************************)
(* What the commands set, unset and --extract do to a YAML value (app.rs). *)
(***************************************************************************)
EXTENDS YamlValue

\* The elements of a list, comments aside.
ElemsOf(v) == SelectSeq([k \in 1..Len(v.items) |-> k],
                        LAMBDA k : v.items[k].t = "elem")

SetValue(v, k, value) == [v EXCEPT !.items[k].value = value]

IsKey(step) == step.t = "key"
Key(k)      == [t |-> "key", key |-> k]
Index(n)    == [t |-> "index", at |-> n]

(***************************************************************************)
(* The last step of a path: an existing value is replaced, a new key or    *)
(* the next element appended; unset takes every pair of the key, or the    *)
(* one element, and leaves the comments.                                   *)
(***************************************************************************)
SetKey(v, key, new) ==
    CASE v.t # "map"           -> Error("not traversable")
      [] Named(v, key) = {}    -> Mapping(Append(v.items, Pair(key, new)))
      [] OTHER                 -> SetValue(v, Min(Named(v, key)), new)

UnsetKey(v, key) ==
    CASE v.t # "map"                -> Error("not traversable")
      [] Named(v, key) = {}         -> Error("not found")
      [] OTHER -> Mapping(SelectSeq(v.items,
                            LAMBDA i : ~(i.t = "pair" /\ i.key = key)))

SetIndex(v, n, new) ==
    LET at == ElemsOf(v) IN
    CASE v.t # "seq"   -> Error("not traversable")
      [] n < Len(at)   -> SetValue(v, at[n + 1], new)
      [] n = Len(at)   -> List(Append(v.items, Elem(new)))
      [] OTHER         -> Error("sparse index")

UnsetIndex(v, n) ==
    LET at == ElemsOf(v) IN
    CASE v.t # "seq"   -> Error("not traversable")
      [] n >= Len(at)  -> Error("not found")
      [] OTHER         -> List(RemoveAt(v.items, at[n + 1]))

\* Mutant: a missing key makes a mapping of its own.
DescendAlone(v, step, creating) ==
    IF IsKey(step) /\ v.t = "map"
    THEN IF Named(v, step.key) # {} THEN v
         ELSE Mapping(<<Pair(step.key, Mapping(<<>>))>>)
    ELSE IF v.t = "seq" /\ step.at < Len(ElemsOf(v)) THEN v ELSE Error("not found")

\* One step down: where it leads, a missing key made a mapping when setting.
Descend(v, step, creating) ==
    IF IsKey(step)
    THEN CASE v.t # "map"                     -> Error("not traversable")
           [] Named(v, step.key) # {}         -> v
           [] creating -> Mapping(Append(v.items, Pair(step.key, Mapping(<<>>))))
           [] OTHER                           -> Error("not found")
    ELSE CASE v.t # "seq"                     -> Error("not traversable")
           [] step.at < Len(ElemsOf(v))       -> v
           [] OTHER -> Error(IF creating THEN "sparse index" ELSE "not found")

Slot(v, step) == IF IsKey(step) THEN Min(Named(v, step.key))
                 ELSE ElemsOf(v)[step.at + 1]

\* apply_mutation: new is the value to set, or None to unset.
RECURSIVE Mutate(_, _, _)
Mutate(v, steps, new) ==
    LET step == Head(steps) IN
    IF Len(steps) = 1
    THEN CASE IsKey(step) /\ new # None -> SetKey(v, step.key, new)
           [] IsKey(step)               -> UnsetKey(v, step.key)
           [] new # None                -> SetIndex(v, step.at, new)
           [] OTHER                     -> UnsetIndex(v, step.at)
    ELSE LET d == Descend(v, step, new # None) IN
         IF IsError(d) THEN d
         ELSE LET k == Slot(d, step)
                  r == Mutate(d.items[k].value, Tail(steps), new)
              IN  IF IsError(r) THEN r ELSE SetValue(d, k, r)

\* extract(): what a bracket path names.
RECURSIVE Extract(_, _)
Extract(v, steps) ==
    IF steps = <<>> THEN v
    ELSE LET d == Descend(v, Head(steps), FALSE) IN
         IF IsError(d) THEN Error("not found")
         ELSE Extract(d.items[Slot(d, Head(steps))].value, Tail(steps))
=============================================================================
