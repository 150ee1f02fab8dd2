-------------------------- MODULE Telemetry_proofs --------------------------
(***************************************************************************)
(* Proofs about Telemetry for any number of runs, ids, concurrent calls    *)
(* and rounds.                                                             *)
(***************************************************************************)
EXTENDS Telemetry, Selection_proofs, TLAPS

Active(r) == pc[r] # "new" /\ pc[r] # "over"

(* The key under which the span of that name is held.                      *)
KeyOf(name) ==
    Key(name[1], idOf[name[2]], IF name[1] = "tool" THEN <<name[2], name[3]>> ELSE None)

RunKey(id) == Key("run", id, None)

(* Names are used once: each is behind the control of its run.             *)
Named ==
    \A s \in spans :
        /\ s.name[2] \in Runs
        /\ s.name[1] = "run" => pc[s.name[2]] # "new"
        /\ s.name[1] = "llm" => s.name[3] \in Nat /\ s.name[3] <= rounds[s.name[2]]
        /\ s.name[1] = "tool" => /\ s.name[3] \in Calls
                                 /\ call[s.name[2]][s.name[3]] # "idle"
                                 /\ call[s.name[2]][s.name[3]] # "queued"

(* What the tables hold is open, and under its own key.                    *)
Tables ==
    /\ ended \subseteq spans
    /\ \A h \in held : h.span \in spans \ ended /\ h.key = KeyOf(h.span.name)

(* An open span is held, and so is its parent.                             *)
Found ==
    \A s \in spans \ ended :
        idOf[s.name[2]] \notin raced =>
            /\ \E h \in held : h.span = s
            /\ s.parent \subseteq HeldAt(RunKey(idOf[s.name[2]]))

(* Some run accounts for what is held as a run or as a model call.         *)
Behind ==
    /\ \A h \in held : \A id \in Ids :
          h.key = RunKey(id) => \E r \in Runs : idOf[r] = id /\ Active(r)
    /\ \A h \in held : \A id \in Ids :
          h.key = Key("llm", id, None) => \E r \in Runs : idOf[r] = id /\ pc[r] = "model"

Overlaps ==
    \A r, u \in Runs : r # u /\ idOf[r] = idOf[u] /\ Active(r) /\ Active(u)
                          => idOf[r] \in raced

Control ==
    /\ idOf \in [Runs -> Ids]
    /\ pc \in [Runs -> {"new", "deciding", "model", "tools", "closing", "over"}]
    /\ rounds \in [Runs -> Nat]
    /\ call \in [Runs -> [Calls -> {"idle", "queued", "open", "screening", "done", "raised"}]]

IInv == Control /\ Named /\ Tables /\ Found /\ Behind /\ Overlaps

-----------------------------------------------------------------------------
LEMMA OpenInv ==
    ASSUME Tables, Found, NEW key, NEW name,
           NEW parent, parent \subseteq Under(idOf[name[2]]), OpenSpan(key, name, parent),
           UNCHANGED idOf, raced \subseteq raced', key = KeyOf(name),
           SpanOf(name, parent) \notin spans,
           idOf[name[2]] \notin raced' => HeldAt(key) = {}
    PROVE  Tables' /\ Found'
<1> DEFINE new == SpanOf(name, parent)
<1>1. new.name = name /\ new.parent \subseteq HeldAt(RunKey(idOf[name[2]]))
  BY DEF SpanOf, RunKey, Under
<1>2. /\ spans' = spans \cup {new} /\ ended' = ended
      /\ held' = {h \in held : h.key # key} \cup {[key |-> key, span |-> new]}
  BY DEF OpenSpan
<1>3. \A n : KeyOf(n)' = KeyOf(n)
  BY DEF KeyOf, Key
<1>4. Tables'
  BY <1>1, <1>2, <1>3 DEF Tables
<1>5. ASSUME NEW s \in spans' \ ended', idOf[s.name[2]] \notin raced'
      PROVE  /\ \E h \in held' : h.span = s
             /\ s.parent \subseteq HeldAt(RunKey(idOf[s.name[2]]))'
  <2>1. CASE s = new
    <3>1. \E h \in held' : h.span = s
      <4>1. [key |-> key, span |-> new] \in held'
        BY <1>2
      <4>2. [key |-> key, span |-> new].span = s
        BY <2>1
      <4> QED
        BY <4>1, <4>2, Zenon
    <3>2. \A h \in held : h.key # key
      BY <1>1, <1>5, <2>1 DEF HeldAt
    <3>3. \A h \in held : h \in held'
      BY <1>2, <3>2
    <3>4. HeldAt(RunKey(idOf[s.name[2]])) \subseteq HeldAt(RunKey(idOf[s.name[2]]))'
      BY <3>3 DEF HeldAt, RunKey, Key
    <3> QED
      BY <1>1, <2>1, <3>1, <3>4
  <2>2. CASE s # new
    <3>1. s \in spans \ ended /\ idOf[s.name[2]] \notin raced
      BY <1>2, <1>5, <2>2
    <3>2. PICK h \in held : h.span = s
      BY <3>1 DEF Found
    <3>3. h.key = KeyOf(s.name)
      BY <3>2 DEF Tables
    <3>4. idOf[s.name[2]] = idOf[name[2]] => \A g \in held : g.key # key
      BY <1>5 DEF HeldAt
    <3>5. idOf[s.name[2]] # idOf[name[2]] =>
             \A g \in held : g.key[2] = idOf[s.name[2]] => g.key # key
      BY DEF KeyOf, Key
    <3>6. \A g \in held : g.key[2] = idOf[s.name[2]] => g \in held'
      BY <1>2, <3>4, <3>5
    <3>7. h \in held'
      BY <3>3, <3>6 DEF KeyOf, Key
    <3>8. HeldAt(RunKey(idOf[s.name[2]])) \subseteq HeldAt(RunKey(idOf[s.name[2]]))'
      BY <3>6 DEF HeldAt, RunKey, Key
    <3> QED
      BY <3>1, <3>2, <3>7, <3>8 DEF Found
  <2> QED
    BY <2>1, <2>2
<1>6. Found'
  BY <1>5 DEF Found
<1> QED
  BY <1>4, <1>6

LEMMA CloseInv ==
    ASSUME Tables, Found, NEW key, CloseSpan(key), key[1] # "run", UNCHANGED <<idOf, raced>>
    PROVE  Tables' /\ Found'
<1>1. /\ ended' = ended \cup HeldAt(key) /\ held' = {h \in held : h.key # key}
      /\ spans' = spans
  BY DEF CloseSpan
<1>2. \A n : KeyOf(n)' = KeyOf(n)
  BY DEF KeyOf, Key
<1>3. Tables'
  BY <1>1, <1>2 DEF Tables, HeldAt
<1>4. ASSUME NEW id
      PROVE  HeldAt(RunKey(id))' = HeldAt(RunKey(id))
  BY <1>1 DEF HeldAt, RunKey, Key
<1>5. ASSUME NEW s \in spans' \ ended', idOf[s.name[2]] \notin raced'
      PROVE  /\ \E h \in held' : h.span = s
             /\ s.parent \subseteq HeldAt(RunKey(idOf[s.name[2]]))'
  <2>1. s \in spans \ ended /\ idOf[s.name[2]] \notin raced
    BY <1>1, <1>5
  <2>2. PICK h \in held : h.span = s
    BY <2>1 DEF Found
  <2>3. h.key # key
    BY <1>1, <1>5, <2>2 DEF HeldAt
  <2>4. s.parent \subseteq HeldAt(RunKey(idOf[s.name[2]]))
    BY <2>1 DEF Found
  <2> QED
    BY <1>1, <1>4, <2>2, <2>3, <2>4
<1>6. Found'
  BY <1>5 DEF Found
<1> QED
  BY <1>3, <1>6

LEMMA CloseRunInv ==
    ASSUME Tables, Found, NEW id, CloseRun(id), UNCHANGED <<idOf, raced>>
    PROVE  Tables' /\ Found'
<1>1. /\ ended' = ended \cup {h.span : h \in {h \in held : h.key[2] = id}}
      /\ held' = {h \in held : h.key[2] # id} /\ spans' = spans
  BY DEF CloseRun
<1>2. \A n : KeyOf(n)' = KeyOf(n) /\ KeyOf(n)[2] = idOf[n[2]]
  BY DEF KeyOf, Key
<1>3. Tables'
  BY <1>1, <1>2 DEF Tables
<1>4. ASSUME NEW i, i # id
      PROVE  HeldAt(RunKey(i))' = HeldAt(RunKey(i))
  BY <1>1, <1>4 DEF HeldAt, RunKey, Key
<1>5. ASSUME NEW s \in spans' \ ended', idOf[s.name[2]] \notin raced'
      PROVE  /\ \E h \in held' : h.span = s
             /\ s.parent \subseteq HeldAt(RunKey(idOf[s.name[2]]))'
  <2>1. PICK h \in held : h.span = s
    BY <1>1, <1>5 DEF Found
  <2>2. h.key[2] = idOf[s.name[2]]
    BY <1>2, <2>1 DEF Tables
  <2>3. h.key[2] # id
    BY <1>1, <1>5, <2>1
  <2>4. s.parent \subseteq HeldAt(RunKey(idOf[s.name[2]]))
    BY <1>1, <1>5 DEF Found
  <2> QED
    BY <1>1, <1>4, <2>1, <2>2, <2>3, <2>4
<1>6. Found'
  BY <1>5 DEF Found
<1> QED
  BY <1>3, <1>6

-----------------------------------------------------------------------------
LEMMA InitInv == Init => IInv
<1> SUFFICES ASSUME Init PROVE IInv
  OBVIOUS
<1>1. Control
  BY DEF Init, Control
<1>2. Named /\ Tables /\ Found /\ Behind
  BY DEF Init, Named, Tables, Found, Behind
<1>3. Overlaps
  BY DEF Init, Overlaps, Active
<1> QED
  BY <1>1, <1>2, <1>3 DEF IInv

LEMMA BehindKept ==
    ASSUME Behind, UNCHANGED <<idOf, pc>>, \A h \in held' : h \in held \/ h.key[1] = "tool"
    PROVE  Behind'
<1>1. \A h \in held', id \in Ids :
         h.key = RunKey(id) \/ h.key = Key("llm", id, None) => h \in held
  BY DEF RunKey, Key
<1> QED
  BY <1>1 DEF Behind, Active, RunKey, Key

LEMMA RunStartInv ==
    ASSUME IInv, NEW r \in Runs, RunStart(r)
    PROVE  IInv'
<1> DEFINE id == idOf[r]
           name == <<"run", r, 0>>
<1>1. /\ pc[r] = "new" /\ pc' = [pc EXCEPT ![r] = "deciding"]
      /\ raced' = raced \cup {idOf[u] : u \in {u \in Runs \ {r} :
                      idOf[u] = idOf[r] /\ pc[u] \notin {"new", "over"}}}
      /\ OpenSpan(RunKey(id), name, Root) /\ UNCHANGED <<idOf, rounds, call>>
  BY DEF RunStart, RunKey
<1>2. Control' /\ Overlaps'
  BY <1>1 DEF IInv, Control, Overlaps, Active
<1>3. RunKey(id) = KeyOf(name) /\ id = idOf[name[2]]
  BY DEF RunKey, KeyOf, Key
<1>4. SpanOf(name, Root) \notin spans
  BY <1>1 DEF IInv, Named, SpanOf
<1>5. id \notin raced' => HeldAt(RunKey(id)) = {}
  BY <1>1 DEF IInv, Control, Behind, Active, HeldAt
<1>6. Tables' /\ Found'
  BY <1>1, <1>3, <1>4, <1>5, OpenInv DEF IInv, Root
<1>7. Named'
  BY <1>1 DEF IInv, Control, Named, OpenSpan, SpanOf
<1>8. Behind'
  <2>1. held' = {h \in held : h.key # RunKey(id)}
                  \cup {[key |-> RunKey(id), span |-> SpanOf(name, Root)]}
    BY <1>1 DEF OpenSpan
  <2>2. \A u \in Runs : (Active(u) => Active(u)') /\ (pc[u] = "model" => pc'[u] = "model")
    BY <1>1 DEF IInv, Control, Active
  <2>3. Active(r)'
    BY <1>1 DEF IInv, Control, Active
  <2>4. \A i \in Ids : RunKey(id) # Key("llm", i, None) /\ (RunKey(id) = RunKey(i) => i = id)
    BY DEF RunKey, Key
  <2>5. \A i : RunKey(i)' = RunKey(i) /\ Key("llm", i, None)' = Key("llm", i, None)
    BY DEF RunKey, Key
  <2> QED
    BY <1>1, <2>1, <2>2, <2>3, <2>4, <2>5 DEF IInv, Behind
<1> QED
  BY <1>2, <1>6, <1>7, <1>8 DEF IInv

LEMMA RunEndInv ==
    ASSUME IInv, NEW r \in Runs, RunEnd(r), UNCHANGED raced
    PROVE  IInv'
<1>1. /\ pc' = [pc EXCEPT ![r] = "over"] /\ CloseRun(idOf[r])
      /\ UNCHANGED <<idOf, rounds, call, raced>>
  BY DEF RunEnd
<1>2. Control' /\ Overlaps'
  BY <1>1 DEF IInv, Control, Overlaps, Active
<1>3. Tables' /\ Found'
  BY <1>1, CloseRunInv DEF IInv
<1>4. Named'
  BY <1>1 DEF IInv, Control, Named, CloseRun
<1>5. Behind'
  <2>1. held' = {h \in held : h.key[2] # idOf[r]}
    BY <1>1 DEF CloseRun
  <2>2. \A u \in Runs : idOf[u] # idOf[r] => (Active(u) => Active(u)') /\ pc'[u] = pc[u]
    BY <1>1 DEF IInv, Control, Active
  <2>3. \A i : RunKey(i)' = RunKey(i) /\ Key("llm", i, None)' = Key("llm", i, None)
    BY DEF RunKey, Key
  <2>4. \A i : RunKey(i)[2] = i /\ Key("llm", i, None)[2] = i
    BY DEF RunKey, Key
  <2> QED
    BY <1>1, <2>1, <2>2, <2>3, <2>4 DEF IInv, Behind
<1> QED
  BY <1>2, <1>3, <1>4, <1>5 DEF IInv

LEMMA LlmStartInv ==
    ASSUME IInv, NEW r \in Runs, LlmStart(r), UNCHANGED raced
    PROVE  IInv'
<1> DEFINE id == idOf[r]
           name == <<"llm", r, rounds[r] + 1>>
<1>1. /\ pc[r] = "deciding" /\ pc' = [pc EXCEPT ![r] = "model"]
      /\ rounds' = [rounds EXCEPT ![r] = @ + 1]
      /\ OpenSpan(Key("llm", id, None), name, Under(id)) /\ UNCHANGED <<idOf, call, raced>>
  BY DEF LlmStart, IInv, Control
<1>2. Control' /\ Overlaps'
  BY <1>1 DEF IInv, Control, Overlaps, Active
<1>3. Key("llm", id, None) = KeyOf(name) /\ id = idOf[name[2]]
  BY DEF KeyOf, Key
<1>4. SpanOf(name, Under(id)) \notin spans
  BY <1>1 DEF IInv, Control, Named, SpanOf
<1>5. id \notin raced' => HeldAt(Key("llm", id, None)) = {}
  <2> SUFFICES ASSUME NEW h \in held, h.key = Key("llm", id, None)
               PROVE  id \in raced'
    BY DEF HeldAt
  <2>1. id \in Ids
    BY DEF IInv, Control
  <2>2. PICK u \in Runs : idOf[u] = id /\ pc[u] = "model"
    BY <2>1 DEF IInv, Behind
  <2>3. u # r /\ Active(u) /\ Active(r)
    BY <1>1, <2>2 DEF Active
  <2> QED
    BY <1>1, <2>2, <2>3 DEF IInv, Overlaps
<1>6. Tables' /\ Found'
  BY <1>1, <1>3, <1>4, <1>5, OpenInv DEF IInv
<1>7. Named'
  <2>1. spans' = spans \cup {SpanOf(name, Under(id))} /\ SpanOf(name, Under(id)).name = name
    BY <1>1 DEF OpenSpan, SpanOf
  <2>2. ASSUME NEW u \in Runs
        PROVE  rounds[u] \in Nat /\ rounds'[u] \in Nat /\ rounds[u] <= rounds'[u]
    BY <1>1 DEF IInv, Control
  <2>3. ASSUME NEW s \in spans, s.name[1] = "llm"
        PROVE  s.name[3] \in Nat /\ s.name[3] <= rounds'[s.name[2]]
    BY <2>2, <2>3 DEF IInv, Named
  <2>4. rounds'[r] = rounds[r] + 1
    BY <1>1 DEF IInv, Control
  <2>5. ASSUME NEW s \in spans, s.name[1] = "tool" \/ s.name[1] = "run"
        PROVE  /\ s.name[1] = "run" => pc'[s.name[2]] # "new"
               /\ s.name[1] = "tool" => /\ s.name[3] \in Calls
                                        /\ call'[s.name[2]][s.name[3]] # "idle"
                                        /\ call'[s.name[2]][s.name[3]] # "queued"
    BY <1>1 DEF IInv, Control, Named
  <2>6. name[1] = "llm" /\ name[2] = r /\ name[3] \in Nat /\ name[3] <= rounds'[r]
    BY <2>2, <2>4
  <2> QED
    BY <2>1, <2>3, <2>5, <2>6 DEF IInv, Named
<1>8. Behind'
  <2>1. held' = {h \in held : h.key # Key("llm", id, None)}
                  \cup {[key |-> Key("llm", id, None), span |-> SpanOf(name, Under(id))]}
    BY <1>1 DEF OpenSpan
  <2>2. \A u \in Runs : (Active(u) => Active(u)') /\ (pc[u] = "model" => pc'[u] = "model")
    BY <1>1 DEF IInv, Control, Active
  <2>3. pc'[r] = "model"
    BY <1>1 DEF IInv, Control
  <2>4. \A i \in Ids : Key("llm", id, None) # RunKey(i)
    BY DEF RunKey, Key
  <2>5. \A i \in Ids : Key("llm", id, None) = Key("llm", i, None) => i = id
    BY DEF Key
  <2>6. \A i : RunKey(i)' = RunKey(i) /\ Key("llm", i, None)' = Key("llm", i, None)
    BY DEF RunKey, Key
  <2> QED
    BY <1>1, <2>1, <2>2, <2>3, <2>4, <2>5, <2>6 DEF IInv, Behind
<1> QED
  BY <1>2, <1>6, <1>7, <1>8 DEF IInv

LEMMA LlmEndInv ==
    ASSUME IInv, NEW r \in Runs, LlmEnd(r), UNCHANGED raced
    PROVE  IInv'
<1>1. /\ pc[r] = "model" /\ pc' \in {[pc EXCEPT ![r] = "deciding"], [pc EXCEPT ![r] = "tools"]}
      /\ call' \in {call, [call EXCEPT ![r] = [c \in Calls |-> "queued"]]}
      /\ call' # call => \A c \in Calls : call[r][c] = "idle"
      /\ CloseSpan(Key("llm", idOf[r], None)) /\ UNCHANGED <<idOf, rounds, raced>>
  BY DEF LlmEnd
<1>2. Control' /\ Overlaps'
  <2>1. pc' \in [Runs -> {"new", "deciding", "model", "tools", "closing", "over"}]
    BY <1>1 DEF IInv, Control
  <2>2. call' \in [Runs -> [Calls -> {"idle", "queued", "open", "screening", "done",
                                      "raised"}]]
    BY <1>1 DEF IInv, Control
  <2>3. Overlaps'
    BY <1>1 DEF IInv, Control, Overlaps, Active
  <2> QED
    BY <1>1, <2>1, <2>2, <2>3 DEF IInv, Control
<1>3. Tables' /\ Found'
  BY <1>1, CloseInv DEF IInv, Key
<1>4. Named'
  BY <1>1 DEF IInv, Control, Named, CloseSpan
<1>5. Behind'
  BY <1>1 DEF IInv, Control, Behind, Active, CloseSpan, RunKey, Key
<1> QED
  BY <1>2, <1>3, <1>4, <1>5 DEF IInv

LEMMA ToolStartInv ==
    ASSUME IInv, NEW r \in Runs, NEW c \in Calls, ToolStart(r, c), UNCHANGED raced
    PROVE  IInv'
<1> DEFINE id == idOf[r]
           name == <<"tool", r, c>>
           key == Key("tool", id, <<r, c>>)
<1>1. /\ call[r][c] = "queued" /\ call' = [call EXCEPT ![r][c] = "open"]
      /\ OpenSpan(key, name, Under(id)) /\ UNCHANGED <<idOf, pc, rounds, raced>>
  BY DEF ToolStart, Step
<1>2. Control' /\ Overlaps'
  BY <1>1 DEF IInv, Control, Overlaps, Active
<1>3. key = KeyOf(name) /\ id = idOf[name[2]]
  BY DEF KeyOf, Key
<1>4. SpanOf(name, Under(id)) \notin spans
  BY <1>1 DEF IInv, Control, Named, SpanOf
<1>5. HeldAt(key) = {}
  <2> SUFFICES ASSUME NEW h \in held, h.key = key
               PROVE  FALSE
    BY DEF HeldAt
  <2>1. h.span \in spans /\ KeyOf(h.span.name) = key
    BY DEF IInv, Tables
  <2>2. h.span.name[1] = "tool" /\ h.span.name[2] = r /\ h.span.name[3] = c
    BY <2>1 DEF KeyOf, Key
  <2> QED
    BY <1>1, <2>1, <2>2 DEF IInv, Named
<1>6. Tables' /\ Found'
  BY <1>1, <1>3, <1>4, <1>5, OpenInv DEF IInv
<1>7. Named'
  BY <1>1 DEF IInv, Control, Named, OpenSpan, SpanOf
<1>8. Behind'
  BY <1>1, BehindKept DEF IInv, OpenSpan, Key
<1> QED
  BY <1>2, <1>6, <1>7, <1>8 DEF IInv

LEMMA ToolEndInv ==
    ASSUME IInv, NEW r \in Runs, NEW c \in Calls, ToolEnd(r, c), UNCHANGED raced
    PROVE  IInv'
<1>1. /\ call[r][c] = "open" /\ call' = [call EXCEPT ![r][c] = "screening"]
      /\ CloseSpan(Key("tool", idOf[r], <<r, c>>)) /\ UNCHANGED <<idOf, pc, rounds, raced>>
  BY DEF ToolEnd, Step
<1>2. Control' /\ Overlaps'
  BY <1>1 DEF IInv, Control, Overlaps, Active
<1>3. Tables' /\ Found'
  BY <1>1, CloseInv DEF IInv, Key
<1>4. Named'
  BY <1>1 DEF IInv, Control, Named, CloseSpan
<1>5. Behind'
  BY <1>1, BehindKept DEF IInv, CloseSpan
<1> QED
  BY <1>2, <1>3, <1>4, <1>5 DEF IInv

(* A step that only moves a run or a call on.                              *)
Quiet ==
    /\ UNCHANGED <<idOf, rounds, spans, ended, held, raced>>
    /\ Control'
    /\ \A r \in Runs :
          \/ pc'[r] = pc[r]
          \/ pc[r] # "model" /\ Active(r) /\ pc'[r] # "new" /\ pc'[r] # "over"
    /\ \A r \in Runs, c \in Calls :
          call'[r][c] = call[r][c] \/ (call'[r][c] # "idle" /\ call'[r][c] # "queued")

LEMMA QuietInv == ASSUME IInv, Quiet PROVE IInv'
<1>1. Named'
  <2>1. \A s \in spans : s.name[2] \in Runs /\ (s.name[1] = "run" => pc'[s.name[2]] # "new")
    BY DEF Quiet, IInv, Named, Active
  <2>2. \A s \in spans : s.name[1] = "tool" =>
            /\ s.name[3] \in Calls
            /\ call'[s.name[2]][s.name[3]] # "idle" /\ call'[s.name[2]][s.name[3]] # "queued"
    BY DEF Quiet, IInv, Named
  <2> QED
    BY <2>1, <2>2 DEF Quiet, IInv, Named
<1>2. \A n : KeyOf(n)' = KeyOf(n) /\ HeldAt(RunKey(n))' = HeldAt(RunKey(n))
  BY DEF Quiet, KeyOf, HeldAt, RunKey, Key
<1>3. Tables'
  BY <1>2 DEF Quiet, IInv, Tables
<1>4. Found'
  BY <1>2 DEF Quiet, IInv, Found
<1>5. Behind'
  BY DEF Quiet, IInv, Behind, Active, RunKey, Key
<1>6. Overlaps'
  BY DEF Quiet, IInv, Overlaps, Active
<1> QED
  BY <1>1, <1>3, <1>4, <1>5, <1>6 DEF IInv, Quiet

LEMMA RunMoves ==
    ASSUME IInv, NEW r \in Runs, NEW to \in {"deciding", "closing"},
           pc[r] # "model", Active(r), pc' = [pc EXCEPT ![r] = to],
           UNCHANGED <<idOf, rounds, call, spans, ended, held, raced>>
    PROVE  Quiet
<1>1. pc' \in [Runs -> {"new", "deciding", "model", "tools", "closing", "over"}]
  BY DEF IInv, Control
<1>2. Control'
  BY <1>1 DEF IInv, Control
<1>3. pc'[r] = to /\ \A u \in Runs : u # r => pc'[u] = pc[u]
  BY DEF IInv, Control
<1>4. \A u \in Runs :
         \/ pc'[u] = pc[u]
         \/ pc[u] # "model" /\ Active(u) /\ pc'[u] # "new" /\ pc'[u] # "over"
  BY <1>3 DEF Active
<1>5. \A u \in Runs, d \in Calls : call'[u][d] = call[u][d]
  OBVIOUS
<1> QED
  BY <1>2, <1>4, <1>5 DEF Quiet

LEMMA CallMoves ==
    ASSUME IInv, NEW r \in Runs, NEW c \in Calls, NEW to \in {"done", "raised"},
           call' = [call EXCEPT ![r][c] = to],
           UNCHANGED <<idOf, pc, rounds, spans, ended, held, raced>>
    PROVE  Quiet
<1>1. Control'
  BY DEF IInv, Control
<1>2. \A u \in Runs, d \in Calls :
         call'[u][d] = call[u][d] \/ (call'[u][d] # "idle" /\ call'[u][d] # "queued")
  BY DEF IInv, Control
<1>3. \A u \in Runs : pc'[u] = pc[u]
  OBVIOUS
<1> QED
  BY <1>1, <1>2, <1>3 DEF Quiet

LEMMA StepInv == IInv /\ [Next]_vars => IInv'
<1> SUFFICES ASSUME IInv, [Next]_vars
             PROVE  IInv'
  OBVIOUS
<1>1. ASSUME NEW r \in Runs, RunStep(r), UNCHANGED raced
      PROVE  IInv'
  <2>1. CASE LlmStart(r) \/ LlmEnd(r)
    BY <1>1, <2>1, LlmStartInv, LlmEndInv
  <2>2. CASE LlmFail(r) \/ Leave(r) \/ ToolsRaise(r)
    BY <1>1, <2>2, RunEndInv DEF LlmFail, Leave, ToolsRaise
  <2>3. CASE Trip(r)
    <3>1. Quiet
      BY <1>1, <2>3, RunMoves DEF Trip, trace, Active
    <3> QED
      BY <3>1, QuietInv
  <2>4. CASE ToolsReturn(r)
    <3>1. Quiet
      BY <1>1, <2>4, RunMoves DEF ToolsReturn, trace, Active
    <3> QED
      BY <3>1, QuietInv
  <2>5. ASSUME NEW c \in Calls, ToolStart(r, c) \/ ToolEnd(r, c)
        PROVE  IInv'
    BY <1>1, <2>5, ToolStartInv, ToolEndInv
  <2>6. ASSUME NEW c \in Calls, ToolRaise(r, c) \/ Screen(r, c)
        PROVE  IInv'
    <3>1. Quiet
      BY <1>1, <2>6, CallMoves DEF ToolRaise, Screen, Step, trace
    <3> QED
      BY <3>1, QuietInv
  <2> QED
    BY <1>1, <2>1, <2>2, <2>3, <2>4, <2>5, <2>6 DEF RunStep
<1>2. CASE UNCHANGED vars
  <2>1. Quiet
    <3>1. UNCHANGED <<idOf, pc, rounds, call, spans, ended, held, raced>>
      BY <1>2 DEF vars, run, trace
    <3>2. Control'
      BY <3>1 DEF IInv, Control
    <3>3. /\ \A u \in Runs : pc'[u] = pc[u]
          /\ \A u \in Runs, d \in Calls : call'[u][d] = call[u][d]
      BY <3>1
    <3> QED
      BY <3>1, <3>2, <3>3 DEF Quiet
  <2> QED
    BY <2>1, QuietInv
<1> QED
  BY <1>1, <1>2, RunStartInv DEF Next

LEMMA Invariance == Spec => []IInv
  BY InitInv, StepInv, PTL DEF Spec

-----------------------------------------------------------------------------
(* However many runs interleave, on however many ids, and whenever the     *)
(* calls of a run that has ended report: a span that has not ended is held *)
(* where an end event finds it, and its parent is open (TracingHooks).     *)
THEOREM SpansAreClosed == Spec => []SpansCloseInOrder
<1>1. IInv => SpansCloseInOrder
  BY DEF IInv, Tables, Found, SpansCloseInOrder, HeldAt
<1> QED
  BY Invariance, <1>1, PTL

-----------------------------------------------------------------------------
(* The accountant.  Tallies are added field by field.                      *)
Fields == {"llm", "tools", "errors", "trips"}
Tallies == [Fields -> Nat]

LEMMA ZeroFields == DOMAIN Zero = Fields /\ Zero \in Tallies /\ \A f \in Fields : Zero[f] = 0
  BY DEF Zero, Fields, Tallies

LEMMA PlusFields ==
    ASSUME NEW a, NEW b
    PROVE  Plus(a, b) = [f \in Fields |-> a[f] + b[f]]
  BY ZeroFields, Zenon DEF Plus

LEMMA PlusTypes == ASSUME NEW a \in Tallies, NEW b \in Tallies PROVE Plus(a, b) \in Tallies
  BY PlusFields DEF Tallies

LEMMA PlusAssociates ==
    ASSUME NEW a \in Tallies, NEW b \in Tallies, NEW c \in Tallies
    PROVE  Plus(Plus(a, b), c) = Plus(a, Plus(b, c))
<1>1. \A f \in Fields : (a[f] + b[f]) + c[f] = a[f] + (b[f] + c[f])
  BY DEF Tallies
<1> QED
  BY <1>1, PlusFields DEF Tallies

LEMMA PlusZero == ASSUME NEW a \in Tallies PROVE Plus(a, Zero) = a
<1>1. \A f \in Fields : a[f] + Zero[f] = a[f]
  BY ZeroFields DEF Tallies
<1> QED
  BY <1>1, PlusFields DEF Tallies

(* Tallies are tallies, of known ids, and the scorecards add up.           *)
Accounts ==
    /\ idOf \in [Runs -> Ids]
    /\ emitted \in [Ids -> Tallies] /\ logged \in [Ids -> Tallies]
    /\ DOMAIN tallies \subseteq Ids /\ tallies = [i \in DOMAIN tallies |-> tallies[i]]
    /\ \A i \in DOMAIN tallies : tallies[i] \in Tallies
    /\ ScorecardsAdd

LEMMA TallyAdds ==
    ASSUME Accounts, NEW id \in Ids, NEW what \in Tallies, Tally(id, what), UNCHANGED idOf
    PROVE  Accounts'
<1>1. /\ tallies' = [i \in DOMAIN tallies \cup {id} |->
            IF i = id THEN Plus(OrZero(tallies, id), what) ELSE tallies[i]]
      /\ emitted' = [emitted EXCEPT ![id] = Plus(@, what)] /\ logged' = logged
  BY DEF Tally, Add
<1>2. OrZero(tallies, id) \in Tallies
  BY ZeroFields DEF Accounts, OrZero
<1>3. emitted' \in [Ids -> Tallies]
  BY <1>1, PlusTypes DEF Accounts
<1>4. /\ DOMAIN tallies' \subseteq Ids /\ tallies' = [i \in DOMAIN tallies' |-> tallies'[i]]
      /\ \A i \in DOMAIN tallies' : tallies'[i] \in Tallies
  BY <1>1, <1>2, PlusTypes DEF Accounts
<1>5. OrZero(tallies', id) = Plus(OrZero(tallies, id), what)
  BY <1>1 DEF OrZero
<1>6. \A i \in Ids : i # id => OrZero(tallies', i) = OrZero(tallies, i)
  BY <1>1 DEF OrZero
<1>7. emitted'[id] = Plus(logged'[id], OrZero(tallies', id))
  <2>1. emitted'[id] = Plus(Plus(logged[id], OrZero(tallies, id)), what)
    BY <1>1 DEF Accounts, ScorecardsAdd
  <2>2. logged[id] \in Tallies
    BY DEF Accounts
  <2> QED
    BY <1>1, <1>2, <1>5, <2>1, <2>2, PlusAssociates
<1>8. \A i \in Ids : i # id => emitted'[i] = Plus(logged'[i], OrZero(tallies', i))
  BY <1>1, <1>6 DEF Accounts, ScorecardsAdd
<1> QED
  BY <1>1, <1>3, <1>4, <1>7, <1>8 DEF Accounts, ScorecardsAdd

LEMMA CloseAdds ==
    ASSUME Accounts, NEW id \in Ids, CloseTally(id), UNCHANGED idOf
    PROVE  Accounts'
<1>1. /\ tallies' = [i \in DOMAIN tallies \ {id} |-> tallies[i]]
      /\ logged' = [logged EXCEPT ![id] = Plus(@, OrZero(tallies, id))] /\ emitted' = emitted
  BY DEF CloseTally
<1>2. OrZero(tallies, id) \in Tallies
  BY ZeroFields DEF Accounts, OrZero
<1>3. logged' \in [Ids -> Tallies]
  BY <1>1, <1>2, PlusTypes DEF Accounts
<1>4. /\ DOMAIN tallies' \subseteq Ids /\ tallies' = [i \in DOMAIN tallies' |-> tallies'[i]]
      /\ \A i \in DOMAIN tallies' : tallies'[i] \in Tallies
  BY <1>1 DEF Accounts
<1>5. OrZero(tallies', id) = Zero
  BY <1>1 DEF OrZero
<1>6. \A i \in Ids : i # id => OrZero(tallies', i) = OrZero(tallies, i)
  BY <1>1 DEF OrZero
<1>7. emitted'[id] = Plus(logged'[id], OrZero(tallies', id))
  <2>1. logged'[id] = Plus(logged[id], OrZero(tallies, id)) /\ logged'[id] \in Tallies
    BY <1>1, <1>3 DEF Accounts
  <2> QED
    BY <1>1, <1>5, <2>1, PlusZero DEF Accounts, ScorecardsAdd
<1>8. \A i \in Ids : i # id => emitted'[i] = Plus(logged'[i], OrZero(tallies', i))
  BY <1>1, <1>6 DEF Accounts, ScorecardsAdd
<1> QED
  BY <1>1, <1>3, <1>4, <1>7, <1>8 DEF Accounts, ScorecardsAdd

LEMMA AccountsInit == Init => Accounts
<1> SUFFICES ASSUME Init PROVE Accounts
  OBVIOUS
<1>1. \A id \in Ids : OrZero(tallies, id) = Zero
  BY DEF Init, OrZero
<1>2. Plus(Zero, Zero) = Zero
  BY ZeroFields, PlusZero
<1> QED
  BY <1>1, <1>2, ZeroFields DEF Init, Accounts, ScorecardsAdd

LEMMA AccountsKept == ASSUME Accounts, UNCHANGED <<idOf, account>> PROVE Accounts'
  BY DEF Accounts, account, ScorecardsAdd, OrZero

(* What a step does to the accounts: it adds one event, or closes one      *)
(* tally, or leaves them alone.                                            *)
Moves ==
    /\ UNCHANGED idOf
    /\ \/ \E id \in Ids, what \in Tallies : Tally(id, what)
       \/ \E id \in Ids : CloseTally(id)
       \/ UNCHANGED account

LEMMA AccountMoves ==
    ASSUME idOf \in [Runs -> Ids], [Next]_vars
    PROVE  Moves
<1>1. ASSUME NEW r \in Runs, RunStep(r)
      PROVE  Moves
  <2>1. idOf[r] \in Ids
    OBVIOUS
  <2>2. CASE LlmStart(r) \/ ToolsReturn(r)
    BY <2>2 DEF Moves, LlmStart, ToolsReturn
  <2>3. CASE LlmFail(r) \/ Leave(r) \/ ToolsRaise(r)
    BY <2>1, <2>3 DEF Moves, LlmFail, Leave, ToolsRaise, RunEnd
  <2>4. CASE LlmEnd(r)
    <3>1. [Zero EXCEPT !.llm = 1] \in Tallies
      BY DEF Zero, Tallies, Fields
    <3> QED
      BY <2>1, <2>4, <3>1 DEF Moves, LlmEnd
  <2>5. [Zero EXCEPT !.trips = 1] \in Tallies
    BY DEF Zero, Tallies, Fields
  <2>6. CASE Trip(r)
    BY <2>1, <2>5, <2>6 DEF Moves, Trip
  <2>7. ASSUME NEW c \in Calls, ToolStart(r, c) \/ ToolRaise(r, c)
        PROVE  Moves
    BY <2>7 DEF Moves, ToolStart, ToolRaise, Step
  <2>8. ASSUME NEW c \in Calls, ToolEnd(r, c)
        PROVE  Moves
    <3>1. PICK errors \in {0, 1} : Tally(idOf[r], [Zero EXCEPT !.tools = 1, !.errors = errors])
      BY <2>8 DEF ToolEnd
    <3>2. [Zero EXCEPT !.tools = 1, !.errors = errors] \in Tallies
      <4>1. errors \in Nat
        OBVIOUS
      <4>2. [Zero EXCEPT !.tools = 1] \in Tallies
        BY DEF Zero, Tallies, Fields
      <4>3. \A t \in Tallies : [t EXCEPT !.errors = errors] \in Tallies
        BY <4>1 DEF Tallies, Fields
      <4>4. [Zero EXCEPT !.tools = 1, !.errors = errors]
               = [[Zero EXCEPT !.tools = 1] EXCEPT !.errors = errors]
        BY DEF Zero
      <4> QED
        BY <4>2, <4>3, <4>4
    <3> QED
      BY <2>1, <2>8, <3>1, <3>2 DEF Moves, ToolEnd, Step
  <2>9. ASSUME NEW c \in Calls, Screen(r, c)
        PROVE  Moves
    BY <2>1, <2>5, <2>9 DEF Moves, Screen, Step
  <2> QED
    BY <1>1, <2>2, <2>3, <2>4, <2>6, <2>7, <2>8, <2>9 DEF RunStep
<1>2. ASSUME NEW r \in Runs, RunStart(r)
      PROVE  Moves
  BY <1>2 DEF Moves, RunStart
<1>3. CASE UNCHANGED vars
  BY <1>3 DEF Moves, vars, run
<1> QED
  BY <1>1, <1>2, <1>3 DEF Next

LEMMA AccountsStep == Accounts /\ [Next]_vars => Accounts'
<1> SUFFICES ASSUME Accounts, [Next]_vars
             PROVE  Accounts'
  OBVIOUS
<1>1. Moves
  BY AccountMoves DEF Accounts
<1> QED
  BY <1>1, TallyAdds, CloseAdds, AccountsKept DEF Moves

(* However the runs interleave and whenever stray calls report: what an id *)
(* has emitted is what its logged scorecards and its open tally hold       *)
(* (CostAccountant).                                                       *)
THEOREM NothingIsLostPerId == Spec => []ScorecardsAdd
<1>1. Accounts => ScorecardsAdd
  BY DEF Accounts
<1> QED
  BY AccountsInit, AccountsStep, <1>1, PTL DEF Spec
-----------------------------------------------------------------------------
(* The grand total.  A sum over a finite set is a fold that takes its      *)
(* elements in some order; adding to one of them adds to the sum.          *)
Pick(T) == CHOOSE x \in T : TRUE

Folds(g, f, S) ==
    g = [T \in SUBSET S |-> IF T = {} THEN 0 ELSE f[Pick(T)] + g[T \ {Pick(T)}]]

LEMMA FoldExists ==
    ASSUME NEW S, IsFiniteSet(S), NEW f \in [S -> Nat]
    PROVE  \E g \in [SUBSET S -> Nat] : Folds(g, f, S)
<1> DEFINE pick == [T \in SUBSET S |-> Pick(T)]
           step == [T \in SUBSET S |-> [n \in Nat |-> IF T = {} THEN n ELSE f[Pick(T)] + n]]
<1>1. \A T \in SUBSET S : T # {} => Pick(T) \in T
  BY DEF Pick
<1>2. \A T \in SUBSET S : T # {} => pick[T] \in T
  BY <1>1
<1>3. step \in [SUBSET S -> [Nat -> Nat]]
  <2>1. \A T \in SUBSET S, n \in Nat : (IF T = {} THEN n ELSE f[Pick(T)] + n) \in Nat
    BY <1>1
  <2> QED
    BY <2>1
<1>4. PICK g \in [SUBSET S -> Nat] : FoldsBy(g, S, 0, pick, step)
  <2> HIDE DEF pick, step
  <2> QED
    BY <1>2, <1>3, FoldRecursion
<1>5. \A T \in SUBSET S :
          (IF T = {} THEN 0 ELSE step[T][g[T \ {pick[T]}]])
             = IF T = {} THEN 0 ELSE f[Pick(T)] + g[T \ {Pick(T)}]
  BY <1>1
<1> QED
  <2> HIDE DEF step, pick
  <2> QED
    BY <1>4, <1>5 DEF FoldsBy, Folds

Adds(g, f, S) ==
    /\ g \in [SUBSET S -> Nat] /\ g[{}] = 0
    /\ \A T \in SUBSET S : T # {} =>
          Pick(T) \in T /\ g[T] = f[Pick(T)] + g[T \ {Pick(T)}]

LEMMA FoldType ==
    ASSUME NEW S, IsFiniteSet(S), NEW f \in [S -> Nat], NEW g, Folds(g, f, S)
    PROVE  Adds(g, f, S)
<1> DEFINE U == {T \in SUBSET S : g[T] \in Nat}
<1>1. g[{}] = 0
  <2>1. {} \in SUBSET S
    OBVIOUS
  <2> QED
    BY <2>1, Zenon DEF Folds
<1>2. ASSUME NEW T \in SUBSET S, T # {}
      PROVE  Pick(T) \in T /\ g[T] = f[Pick(T)] + g[T \ {Pick(T)}]
  <2>1. Pick(T) \in T
    BY <1>2 DEF Pick
  <2>2. g[T] = IF T = {} THEN 0 ELSE f[Pick(T)] + g[T \ {Pick(T)}]
    BY Zenon DEF Folds
  <2> QED
    BY <1>2, <2>1, <2>2, Zenon
<1>3. ASSUME NEW T \in SUBSET S, \A x \in T : T \ {x} \in U
      PROVE  T \in U
  <2>1. CASE T = {}
    BY <1>1, <2>1
  <2>2. CASE T # {}
    <3>1. Pick(T) \in T /\ g[T] = f[Pick(T)] + g[T \ {Pick(T)}]
      BY <1>2, <2>2
    <3>2. f[Pick(T)] \in Nat /\ g[T \ {Pick(T)}] \in Nat
      BY <1>3, <3>1
    <3> QED
      BY <3>1, <3>2
  <2> QED
    BY <2>1, <2>2
<1>4. SUBSET S \subseteq U
  <2> HIDE DEF U
  <2> QED
    BY <1>3, SubsetInduction
<1>5. g \in [SUBSET S -> Nat]
  BY <1>4 DEF Folds
<1> QED
  BY <1>1, <1>2, <1>5 DEF Adds

LEMMA TotalIs ==
    ASSUME NEW S, IsFiniteSet(S), NEW f \in [S -> Nat]
    PROVE  \E g : Adds(g, f, S) /\ SumFunction(f) = g[S]
<1>1. SumFunction(f) = (CHOOSE k : Folds(k, f, S))[S]
  <2>1. DOMAIN f = S
    OBVIOUS
  <2> QED
    BY <2>1, Zenon DEF Folds, Pick, SumFunction, SumFunctionOnSet, FoldFunctionOnSet, MapThenFoldSet
<1>2. PICK g \in [SUBSET S -> Nat] : Folds(g, f, S)
  BY FoldExists
<1>3. Folds(CHOOSE k : Folds(k, f, S), f, S)
  BY <1>2, Zenon
<1> QED
  BY <1>1, <1>3, FoldType, Zenon

LEMMA TotalOfZeros ==
    ASSUME NEW S, IsFiniteSet(S), NEW f \in [S -> Nat], \A x \in S : f[x] = 0
    PROVE  SumFunction(f) = 0
<1>1. PICK g : Adds(g, f, S) /\ SumFunction(f) = g[S]
  BY TotalIs
<1>2. /\ g[{}] = 0
      /\ \A T \in SUBSET S : T # {} =>
            Pick(T) \in T /\ g[T] = f[Pick(T)] + g[T \ {Pick(T)}]
  BY <1>1 DEF Adds
<1> DEFINE U == {T \in SUBSET S : g[T] = 0}
<1>3. ASSUME NEW T \in SUBSET S, \A x \in T : T \ {x} \in U
      PROVE  T \in U
  <2>1. CASE T = {}
    BY <1>2, <2>1
  <2>2. CASE T # {}
    <3>1. Pick(T) \in T /\ g[T] = f[Pick(T)] + g[T \ {Pick(T)}]
      BY <1>2, <2>2
    <3>2. f[Pick(T)] = 0 /\ g[T \ {Pick(T)}] = 0
      BY <1>3, <3>1
    <3> QED
      BY <3>1, <3>2
  <2> QED
    BY <2>1, <2>2
<1>4. SUBSET S \subseteq U
  <2> HIDE DEF U
  <2> QED
    BY <1>3, SubsetInduction
<1> QED
  <2>1. g[S] = 0
    BY <1>4
  <2> QED
    BY <1>1, <2>1, Zenon

LEMMA TotalGrows ==
    ASSUME NEW S, IsFiniteSet(S), NEW f \in [S -> Nat], NEW h \in [S -> Nat],
           NEW i \in S, NEW d \in Nat, h[i] = f[i] + d,
           \A x \in S : x # i => h[x] = f[x]
    PROVE  SumFunction(h) = SumFunction(f) + d
<1>1. PICK g : Adds(g, f, S) /\ SumFunction(f) = g[S]
  BY TotalIs
<1>2. PICK k : Adds(k, h, S) /\ SumFunction(h) = k[S]
  BY TotalIs
<1> DEFINE U == {T \in SUBSET S : k[T] = IF i \in T THEN g[T] + d ELSE g[T]}
<1>3. /\ g \in [SUBSET S -> Nat] /\ g[{}] = 0
      /\ \A T \in SUBSET S : T # {} =>
            Pick(T) \in T /\ g[T] = f[Pick(T)] + g[T \ {Pick(T)}]
  BY <1>1 DEF Adds
<1>4. /\ k \in [SUBSET S -> Nat] /\ k[{}] = 0
      /\ \A T \in SUBSET S : T # {} => k[T] = h[Pick(T)] + k[T \ {Pick(T)}]
  BY <1>2 DEF Adds
<1>5. ASSUME NEW T \in SUBSET S, \A x \in T : T \ {x} \in U
      PROVE  T \in U
  <2>1. CASE T = {}
    BY <1>3, <1>4, <2>1
  <2>2. CASE T # {}
    <3>1. Pick(T) \in T /\ g[T] = f[Pick(T)] + g[T \ {Pick(T)}]
      BY <1>3, <2>2
    <3>2. k[T] = h[Pick(T)] + k[T \ {Pick(T)}]
      BY <1>4, <2>2
    <3> DEFINE p == Pick(T)
    <3> HIDE DEF p
    <3>3. p \in S /\ T \ {p} \in SUBSET S /\ g[T \ {p}] \in Nat /\ f[p] \in Nat
      BY <1>3, <3>1 DEF p
    <3>4. k[T \ {p}] = IF i \in T \ {p} THEN g[T \ {p}] + d ELSE g[T \ {p}]
      BY <1>5, <3>1 DEF p
    <3>5. CASE p = i
      <4>1. k[T] = (f[p] + d) + g[T \ {p}]
        BY <3>2, <3>4, <3>5 DEF p
      <4> QED
        BY <3>1, <3>3, <3>5, <4>1 DEF p
    <3>6. CASE p # i
      <4>1. h[p] = f[p] /\ (i \in T <=> i \in T \ {p})
        BY <3>3, <3>6
      <4> QED
        BY <3>1, <3>2, <3>3, <3>4, <4>1 DEF p
    <3> QED
      BY <3>5, <3>6
  <2> QED
    BY <2>1, <2>2
<1>6. SUBSET S \subseteq U
  <2> HIDE DEF U
  <2> QED
    BY <1>5, SubsetInduction
<1> QED
  <2>1. k[S] = g[S] + d
    BY <1>6
  <2> QED
    BY <1>1, <1>2, <2>1, Zenon

(* What has been emitted, field by field, adds up to the grand total.      *)
Counts(f) == [id \in Ids |-> emitted[id][f]]

Totals == Accounts /\ grand \in Tallies /\ \A f \in Fields : grand[f] = SumFunction(Counts(f))

LEMMA TallyTotals ==
    ASSUME Totals, NEW id \in Ids, NEW what \in Tallies, Tally(id, what), UNCHANGED idOf
    PROVE  Totals'
<1>1. Accounts'
  BY TallyAdds DEF Totals
<1>2. grand' = Plus(grand, what) /\ emitted' = [emitted EXCEPT ![id] = Plus(@, what)]
  BY DEF Tally
<1>3. grand' \in Tallies
  BY <1>2, PlusTypes DEF Totals
<1>4. ASSUME NEW f \in Fields
      PROVE  grand'[f] = SumFunction(Counts(f)')
  <2>1. emitted \in [Ids -> Tallies] /\ emitted' \in [Ids -> Tallies]
    BY <1>1 DEF Totals, Accounts
  <2>2. Counts(f) \in [Ids -> Nat] /\ Counts(f)' \in [Ids -> Nat]
    BY <2>1 DEF Counts, Tallies
  <2>3. emitted'[id][f] = emitted[id][f] + what[f]
    BY <1>2, <2>1, PlusFields
  <2>4. /\ Counts(f)'[id] = Counts(f)[id] + what[f]
        /\ \A i \in Ids : i # id => Counts(f)'[i] = Counts(f)[i]
    BY <1>2, <2>1, <2>3 DEF Counts
  <2>5. IsFiniteSet(Ids) /\ what[f] \in Nat
    BY TelemetryAssumption DEF Tallies
  <2>6. SumFunction(Counts(f)') = SumFunction(Counts(f)) + what[f]
    BY <2>2, <2>4, <2>5, TotalGrows
  <2>7. grand'[f] = grand[f] + what[f]
    BY <1>2, PlusFields
  <2> QED
    BY <2>6, <2>7 DEF Totals
<1> QED
  BY <1>1, <1>3, <1>4 DEF Totals

LEMMA TotalsKept == ASSUME Totals, Accounts', UNCHANGED <<grand, emitted>> PROVE Totals'
  BY DEF Totals, Counts

LEMMA TotalsInit == Init => Totals
<1> SUFFICES ASSUME Init PROVE Totals
  OBVIOUS
<1>1. Accounts
  BY AccountsInit
<1>2. ASSUME NEW f \in Fields
      PROVE  grand[f] = SumFunction(Counts(f))
  <2>1. Counts(f) \in [Ids -> Nat] /\ \A i \in Ids : Counts(f)[i] = 0
    BY ZeroFields DEF Init, Counts
  <2>2. SumFunction(Counts(f)) = 0
    BY <2>1, TelemetryAssumption, TotalOfZeros
  <2> QED
    BY <2>2, ZeroFields DEF Init
<1> QED
  BY <1>1, <1>2, ZeroFields DEF Totals, Init

LEMMA TotalsStep == Totals /\ [Next]_vars => Totals'
<1> SUFFICES ASSUME Totals, [Next]_vars
             PROVE  Totals'
  OBVIOUS
<1>1. Moves
  BY AccountMoves DEF Totals, Accounts
<1>2. Accounts'
  BY AccountsStep DEF Totals
<1>3. CASE UNCHANGED account \/ \E id \in Ids : CloseTally(id)
  BY <1>2, <1>3, TotalsKept DEF account, CloseTally
<1>4. CASE \E id \in Ids, what \in Tallies : Tally(id, what)
  BY <1>1, <1>4, TallyTotals DEF Moves
<1> QED
  BY <1>1, <1>3, <1>4 DEF Moves

(* No event is lost or counted twice: under each id the scorecards and the *)
(* open tally add up to what was emitted, and over all ids what was        *)
(* emitted adds up to the grand total (CostAccountant), for any finite set *)
(* of ids.                                                                 *)
THEOREM NothingLost == Spec => []NothingIsLost
<1>1. Totals => NothingIsLost
  <2> SUFFICES ASSUME Totals PROVE NothingIsLost
    OBVIOUS
  <2>1. Sum(emitted) = [f \in Fields |-> SumFunction(Counts(f))]
    BY ZeroFields, Zenon DEF Sum, Counts
  <2>2. grand = [f \in Fields |-> grand[f]]
    BY DEF Totals, Tallies
  <2>3. grand = Sum(emitted)
    BY <2>1, <2>2 DEF Totals
  <2> QED
    BY <2>3 DEF Totals, Accounts, NothingIsLost
<1> QED
  BY TotalsInit, TotalsStep, <1>1, PTL DEF Spec
=============================================================================
