-------------------------- MODULE ValidationProofs ---------------------------
(***************************************************************************)
(* Theorems about Validation, for any tree, machine, options and changes:  *)
(* what a run that passed says of the tree, and that the parity harness    *)
(* leaves no process behind.                                               *)
(***************************************************************************)
EXTENDS Validation, TLAPS

-----------------------------------------------------------------------------
(* The harness.                                                            *)

\* The run of the harness ends, and its directory is removed, behind the end of the
\* broker's process, or with an exception behind its kill: run_authority_parity.py waits
\* for it in every way out.
LEMMA HarnessKeeps == NoBrokerLeft /\ [Next]_vars => NoBrokerLeft'
<1> SUFFICES ASSUME NoBrokerLeft, [Next]_vars
             PROVE  NoBrokerLeft'
  OBVIOUS
<1> USE DEF NoBrokerLeft
<1>1. CASE UNCHANGED harness
  BY <1>1 DEF harness
<1>2. CASE StartBroker
  BY <1>2 DEF StartBroker
<1>3. CASE HarnessStep
  BY <1>3 DEF HarnessStep, BrokerSeen, BrokerDiedEarly, StartTimeout, Ask, Compare, CallFails,
              AllCompared, Shutdown, WaitReturns, WaitKills, KilledWaitTimesOut, Cleanup
<1>4. CASE BrokerStep \/ BrokerResumes \/ BrokerEnds
  BY <1>4 DEF BrokerStep, BrokerReady, BrokerAnswers, BrokerStops, BrokerResumes, BrokerEnds
<1>5. CASE BrokerFault
  BY <1>5 DEF BrokerFault, BrokerHangs, BrokerDies, BrokerDisagrees, BrokerServesOn, CleanupFails
<1>6. UNCHANGED harness \/ StartBroker \/ HarnessStep \/ BrokerStep \/ BrokerResumes \/ BrokerEnds \/ BrokerFault
  BY DEF Next, vars, Edit, WriteManifest, EditDuringRun, StepNotRun, RunStep, StartParity,
         EndParity, Report, Harness, Broker, BrokerRecovers, BrokerFails
<1> QED
  BY <1>1, <1>2, <1>3, <1>4, <1>5, <1>6

\* No broker runs on behind the harness: one that the system has not ended by then was
\* killed, and the run failed.
THEOREM BrokerIsGone == Spec => []NoBrokerLeft
<1>1. Init => NoBrokerLeft
  BY DEF Init, HarnessInit, NoBrokerLeft
<1> QED
  BY <1>1, HarnessKeeps, PTL DEF Spec

-----------------------------------------------------------------------------
(* The results.                                                            *)

Sequence(s) == \E S : s \in Seq(S)

\* In a run whose tree stays as it is, a step that passed has found nothing in it.
FoundNothing ==
    /\ Sequence(results)
    /\ ~touched => \A i \in DOMAIN results :
           results[i].status = "passed" /\ results[i].name # "broker_authority_parity" =>
               StepErrors(results[i].name, tree, host, options) = {}

\* Appending keeps the old elements of a sequence and adds the new one.
LEMMA AppendKeeps ==
    ASSUME NEW s, NEW x, Sequence(s)
    PROVE  /\ Sequence(Append(s, x))
           /\ \A i \in DOMAIN Append(s, x) :
                  (i \in DOMAIN s /\ Append(s, x)[i] = s[i]) \/ Append(s, x)[i] = x
<1>1. PICK S : s \in Seq(S)
  BY DEF Sequence
<1>2. s \in Seq(S \union {x})
  BY <1>1
<1>3. Append(s, x) \in Seq(S \union {x})
  BY <1>2
<1>4. \A i \in DOMAIN Append(s, x) :
          (i \in DOMAIN s /\ Append(s, x)[i] = s[i]) \/ Append(s, x)[i] = x
  BY <1>2
<1> QED
  BY <1>3, <1>4 DEF Sequence

\* A result is added: it is one of a step that found nothing, unless it did not pass.
LEMMA TakeKeeps ==
    ASSUME FoundNothing, NEW x, Take(x), UNCHANGED <<tree, host, options, touched>>,
           x.status = "passed" /\ x.name # "broker_authority_parity" =>
               StepErrors(x.name, tree, host, options) = {}
    PROVE  FoundNothing'
<1>1. results' = Append(results, x)
  BY DEF Take
<1>2. Sequence(results')
  BY <1>1, AppendKeeps DEF FoundNothing
<1>3. \A i \in DOMAIN results' : (i \in DOMAIN results /\ results'[i] = results[i]) \/ results'[i] = x
  BY <1>1, AppendKeeps DEF FoundNothing
<1>4. ASSUME ~touched, NEW i \in DOMAIN results', results'[i].status = "passed",
             results'[i].name # "broker_authority_parity"
      PROVE  StepErrors(results'[i].name, tree, host, options) = {}
  BY <1>3, <1>4 DEF FoundNothing
<1> QED
  BY <1>2, <1>4 DEF FoundNothing

\* FoundNothing is inductive: a step passes an untouched tree only without errors.
LEMMA FoundKeeps == FoundNothing /\ [Next]_vars => FoundNothing'
<1> SUFFICES ASSUME FoundNothing, [Next]_vars
             PROVE  FoundNothing'
  OBVIOUS
<1>1. CASE UNCHANGED <<tree, host, options, results, touched>>
  BY <1>1 DEF FoundNothing
<1>2. CASE Edit \/ WriteManifest
  <2>1. results = <<>> /\ UNCHANGED results
    BY <1>2 DEF Edit, WriteManifest, Running, run
  <2> QED
    BY <2>1 DEF FoundNothing
<1>3. CASE EditDuringRun
  BY <1>3 DEF EditDuringRun, run, FoundNothing
<1>4. CASE StepNotRun
  BY <1>4, TakeKeeps DEF StepNotRun, not_run
<1>5. CASE RunStep
  BY <1>5, TakeKeeps DEF RunStep, Outcome
<1>6. CASE EndParity
  BY <1>6, TakeKeeps DEF EndParity, Outcome
<1> QED
  BY <1>1, <1>2, <1>3, <1>4, <1>5, <1>6
  DEF Next, vars, run, StartParity, Report, Harness, Broker, BrokerRecovers, BrokerFails

\* FoundNothing holds in every reachable state.
LEMMA Found == Spec => []FoundNothing
<1>1. Init => FoundNothing
  <2>1. <<>> \in Seq({}) /\ DOMAIN <<>> = {}
    OBVIOUS
  <2> QED
    BY <2>1 DEF Init, FoundNothing, Sequence
<1> QED
  BY <1>1, FoundKeeps, PTL DEF Spec

\* What a step that passed has found.
LEMMA PassedFound ==
    ASSUME FoundNothing, ~touched, NEW name, name # "broker_authority_parity", Passed(name)
    PROVE  StepErrors(name, tree, host, options) = {}
BY DEF FoundNothing, Passed

-----------------------------------------------------------------------------
(* The steps of a run.                                                     *)

\* What the comparisons of the harness come to, and that it passes only with all of them.
HarnessInv ==
    /\ compared \in Seq({Comparisons[i] : i \in 1..4}) /\ Len(compared) <= 4
    /\ \A i \in 1..Len(compared) : compared[i] = Comparisons[i]
    /\ hpc = "start" => link = "idle"
    /\ hpc = "call" /\ link # "idle" => Len(compared) < 4
    /\ hpc \in {"shutdown", "wait", "killed", "cleanup", "ended"} /\ ~raised => Len(compared) = 4

\* What is done and what is left are the steps of the run; the steps in scope that did
\* not pass are blockers; and the parity step passes only with the harness.
StepsInv ==
    /\ Sequence(results) /\ Sequence(todo)
    /\ \A i \in DOMAIN results :
           results[i].name = "broker_authority_parity" /\ results[i].status = "passed" =>
               hpc = "ended" /\ HarnessPassed
    /\ ~touched =>
           LET steps == build_steps(tree, host, options) IN
           /\ Len(results) + Len(todo) = Len(steps)
           /\ \A i \in 1..Len(todo) : todo[i] = steps[Len(results) + i]
           /\ \A i \in 1..Len(results) :
                  /\ results[i].name = steps[i].name
                  /\ steps[i].in_release_scope /\ results[i].classification # "release_blocker" =>
                         results[i].status = "passed"
           /\ verdict = "pass" =>
                  /\ todo = <<>>
                  /\ \A i \in DOMAIN results : results[i].classification # "release_blocker"

\* The parity harness makes four comparisons.
LEMMA ComparisonsLength == Len(Comparisons) = 4
BY DEF Comparisons

\* The steps of the harness and of its broker.
Actors == StartBroker \/ HarnessStep \/ BrokerStep \/ BrokerResumes \/ BrokerEnds \/ BrokerFault

\* Every step of the system is one of the actors, or leaves them alone.
LEMMA StepIsActor == [Next]_vars => UNCHANGED harness \/ Actors
BY DEF Next, vars, run, Edit, WriteManifest, EditDuringRun, StepNotRun, RunStep, StartParity,
       EndParity, Report, Harness, Broker, BrokerRecovers, BrokerFails, Actors

\* HarnessInv is inductive: the harness makes its comparisons in order, up to the last.
LEMMA HarnessInvKeeps == HarnessInv /\ [Next]_vars => HarnessInv'
<1> SUFFICES ASSUME HarnessInv, [Next]_vars
             PROVE  HarnessInv'
  OBVIOUS
<1>1. CASE UNCHANGED harness
  BY <1>1 DEF harness, HarnessInv
<1>2. CASE StartBroker
  BY <1>2 DEF StartBroker, HarnessInv
<1>3. CASE Compare
  <2>1. CASE link = "refused"
    BY <1>3, <2>1 DEF Compare, HarnessInv
  <2>2. CASE link # "refused"
    <3>1. /\ compared' = Append(compared, Comparisons[Len(compared) + 1])
          /\ hpc' = hpc /\ hpc = "call" /\ link' = "idle" /\ Len(compared) < 4
      BY <1>3, <2>2 DEF Compare, HarnessInv
    <3>2. Comparisons[Len(compared) + 1] \in {Comparisons[i] : i \in 1..4}
      BY <3>1 DEF HarnessInv
    <3>3. /\ compared' \in Seq({Comparisons[i] : i \in 1..4}) /\ Len(compared') = Len(compared) + 1
          /\ \A i \in 1..Len(compared') : compared'[i] = Comparisons[i]
      BY <3>1, <3>2 DEF HarnessInv
    <3> QED
      BY <3>1, <3>3 DEF HarnessInv
  <2> QED
    BY <2>1, <2>2
<1>4. CASE AllCompared \/ Ask
  BY <1>4, ComparisonsLength DEF AllCompared, Ask, HarnessInv
<1>5. CASE BrokerSeen \/ BrokerDiedEarly \/ StartTimeout \/ CallFails \/ Shutdown \/ WaitReturns
           \/ WaitKills \/ KilledWaitTimesOut \/ Cleanup
  BY <1>5 DEF BrokerSeen, BrokerDiedEarly, StartTimeout, CallFails, Shutdown, WaitReturns,
              WaitKills, KilledWaitTimesOut, Cleanup, HarnessInv
<1>6. CASE BrokerStep \/ BrokerResumes \/ BrokerEnds
  BY <1>6 DEF BrokerStep, BrokerReady, BrokerAnswers, BrokerStops, BrokerResumes, BrokerEnds, HarnessInv
<1>7. CASE BrokerFault
  BY <1>7 DEF BrokerFault, BrokerHangs, BrokerDies, BrokerDisagrees, BrokerServesOn, CleanupFails,
              HarnessInv
<1> QED
  BY <1>1, <1>2, <1>3, <1>4, <1>5, <1>6, <1>7, StepIsActor DEF Actors, HarnessStep

\* A harness that has ended stays as it is.
LEMMA EndedStays ==
    [Next]_vars /\ hpc = "ended" => hpc' = "ended" /\ (HarnessPassed => HarnessPassed')
<1> SUFFICES ASSUME [Next]_vars, hpc = "ended"
             PROVE  hpc' = "ended" /\ UNCHANGED <<raised, differs>>
  BY DEF HarnessPassed
<1>1. CASE UNCHANGED harness
  BY <1>1 DEF harness
<1>2. CASE Actors
  BY <1>2 DEF Actors, StartBroker, HarnessStep, BrokerSeen, BrokerDiedEarly, StartTimeout, Ask,
              Compare, CallFails, AllCompared, Shutdown, WaitReturns, WaitKills, KilledWaitTimesOut, Cleanup,
              BrokerStep, BrokerReady, BrokerAnswers, BrokerStops, BrokerResumes, BrokerEnds, BrokerFault,
              BrokerHangs, BrokerDies, BrokerDisagrees, BrokerServesOn, CleanupFails
<1> QED
  BY <1>1, <1>2, StepIsActor

\* The sequences that a run is built from.
LEMMA ConcatKeeps ==
    ASSUME NEW s, NEW u, Sequence(s), Sequence(u)
    PROVE  /\ Sequence(s \o u) /\ Len(s \o u) = Len(s) + Len(u)
           /\ Len(s) \in Nat /\ Len(u) \in Nat
           /\ \A i \in 1..Len(s) : (s \o u)[i] = s[i]
           /\ \A i \in 1..Len(u) : (s \o u)[Len(s) + i] = u[i]
<1>1. PICK S : s \in Seq(S)
  BY DEF Sequence
<1>2. PICK U : u \in Seq(U)
  BY DEF Sequence
<1>3. s \in Seq(S \union U) /\ u \in Seq(S \union U)
  BY <1>1, <1>2
<1>4. s \o u \in Seq(S \union U) /\ Len(s \o u) = Len(s) + Len(u)
  BY <1>3
<1>5. \A i \in 1..Len(s) : (s \o u)[i] = s[i]
  BY <1>3
<1>6. \A i \in 1..Len(u) : (s \o u)[Len(s) + i] = u[i]
  BY <1>3
<1> QED
  BY <1>3, <1>4, <1>5, <1>6 DEF Sequence

\* A concatenation is a sequence as long as its two parts.
LEMMA ConcatType ==
    ASSUME NEW u, NEW v, Sequence(u), Sequence(v)
    PROVE  Sequence(u \o v) /\ Len(u \o v) = Len(u) + Len(v) /\ Len(v) \in Nat
BY ConcatKeeps

\* What a concatenation holds at an index, from the left or the right part.
LEMMA ConcatAt ==
    ASSUME NEW u, NEW v, Sequence(u), Sequence(v), Len(v) >= 2
    PROVE  (u \o v)[Len(u) + 1] = v[1]
<1>1. Len(v) \in Nat /\ \A i \in 1..Len(v) : (u \o v)[Len(u) + i] = v[i]
  BY ConcatKeeps
<1> QED
  BY <1>1

\* A concatenation begins with the first element of its left part.
LEMMA ConcatFirst ==
    ASSUME NEW u, NEW v, Sequence(u), Sequence(v), Len(u) >= 2
    PROVE  Sequence(u \o v) /\ Len(u \o v) >= 2 /\ (u \o v)[1] = u[1]
<1>1. /\ Sequence(u \o v) /\ Len(u \o v) = Len(u) + Len(v)
      /\ Len(u) \in Nat /\ Len(v) \in Nat
      /\ \A i \in 1..Len(u) : (u \o v)[i] = u[i]
  BY ConcatKeeps
<1> QED
  BY <1>1

\* Two sequences of one length with the same elements are equal.
LEMMA SameSequence ==
    ASSUME NEW s, NEW u, Sequence(s), Sequence(u), Len(s) = Len(u),
           \A i \in 1..Len(u) : s[i] = u[i]
    PROVE  s = u
<1>1. PICK S : s \in Seq(S)
  BY DEF Sequence
<1>2. PICK U : u \in Seq(U)
  BY DEF Sequence
<1>3. s \in [1..Len(s) -> S] /\ u \in [1..Len(u) -> U]
  BY <1>1, <1>2
<1>4. s = [i \in 1..Len(u) |-> s[i]] /\ u = [i \in 1..Len(u) |-> u[i]]
  BY <1>3
<1> QED
  BY <1>4

\* The steps made of a sequence of names: as many, in order, each in release scope.
LEMMA StepsOf ==
    ASSUME NEW names, NEW n \in Nat, DOMAIN names = 1..n, NEW tool
    PROVE  /\ Sequence(Steps(names, tool)) /\ Len(Steps(names, tool)) = n
           /\ \A i \in 1..n : Steps(names, tool)[i] = Step(names[i], tool, TRUE)
<1> DEFINE S == {Step(names[i], tool, TRUE) : i \in 1..n}
<1>1. Steps(names, tool) = [i \in 1..n |-> Step(names[i], tool, TRUE)]
  BY DEF Steps
<1>2. [i \in 1..n |-> Step(names[i], tool, TRUE)] \in [1..n -> S]
  OBVIOUS
<1>3. Steps(names, tool) \in [1..n -> S]
  BY <1>1, <1>2
<1> HIDE DEF S
<1>4. Steps(names, tool) \in Seq(S)
  BY <1>3
<1>5. Len(Steps(names, tool)) = n
  BY <1>3
<1> QED
  BY <1>1, <1>4, <1>5 DEF Sequence

\* A run has steps, and one that is not confined to Python has the parity step.
LEMMA BuildSteps ==
    ASSUME NEW t, NEW h, NEW o
    PROVE  /\ Sequence(build_steps(t, h, o)) /\ Len(build_steps(t, h, o)) > 0
           /\ ~o.python_only => \E i \in DOMAIN build_steps(t, h, o) :
                  /\ build_steps(t, h, o)[i].name = "broker_authority_parity"
                  /\ build_steps(t, h, o)[i].in_release_scope
<1> DEFINE cargo   == Steps(<<"broker_authority_parity", "rust_helper_cargo_test">>, "cargo")
           flutter == Steps(<<"desktop_flutter_analyze", "desktop_flutter_test">>, "flutter")
           linux   == When(Target(o, h, "linux") /\ h.platform = "linux",
                           Steps(<<"desktop_flutter_build_linux">>, "flutter"))
           mobile  == When(Below(t, <<"apps", "mobile_flutter">>),
                           <<Step("mobile_flutter_analyze", "flutter", o.include_mobile_release)>>)
           rest    == cargo \o flutter \o linux \o mobile
           python  == Steps(PythonSteps, None)
           others  == When(~o.python_only, rest)
<1>1. Sequence(<<>>) /\ \A x : Sequence(<<x>>)
  <2>1. <<>> \in Seq({}) /\ \A x : <<x>> \in Seq({x})
    OBVIOUS
  <2> QED
    BY <2>1 DEF Sequence
<1>2. Sequence(python) /\ Len(python) = 9
  <2>1. DOMAIN PythonSteps = 1..9
    BY DEF PythonSteps
  <2> QED
    BY <2>1, StepsOf
<1>3. Sequence(cargo) /\ Len(cargo) = 2 /\ cargo[1] = Step("broker_authority_parity", "cargo", TRUE)
  <2> DEFINE names == <<"broker_authority_parity", "rust_helper_cargo_test">>
  <2>1. DOMAIN names = 1..2 /\ names[1] = "broker_authority_parity"
    OBVIOUS
  <2> HIDE DEF names
  <2>2. /\ Sequence(Steps(names, "cargo")) /\ Len(Steps(names, "cargo")) = 2
        /\ \A i \in 1..2 : Steps(names, "cargo")[i] = Step(names[i], "cargo", TRUE)
    BY <2>1, StepsOf
  <2>5. 1 \in 1..2
    OBVIOUS
  <2>3. cargo = Steps(names, "cargo")
    BY DEF names
  <2> HIDE DEF cargo
  <2>4. cargo[1] = Step(names[1], "cargo", TRUE)
    BY <2>2, <2>3, <2>5, Zenon
  <2> QED
    BY <2>1, <2>2, <2>3, <2>4
<1>4. Sequence(flutter)
  <2>1. DOMAIN <<"desktop_flutter_analyze", "desktop_flutter_test">> = 1..2
    OBVIOUS
  <2> QED
    BY <2>1, StepsOf
<1>5. Sequence(linux)
  <2>1. DOMAIN <<"desktop_flutter_build_linux">> = 1..1
    OBVIOUS
  <2>2. Sequence(Steps(<<"desktop_flutter_build_linux">>, "flutter"))
    BY <2>1, StepsOf
  <2> QED
    BY <1>1, <2>2 DEF When
<1>6. Sequence(mobile)
  BY <1>1 DEF When
<1> HIDE DEF cargo, flutter, linux, mobile, python, rest, others
<1>7. Sequence(cargo \o flutter) /\ Len(cargo \o flutter) >= 2 /\ (cargo \o flutter)[1] = cargo[1]
  <2>1. Len(cargo) >= 2
    BY <1>3
  <2> QED
    BY <1>3, <1>4, <2>1, ConcatFirst, Zenon
<1>8. /\ Sequence((cargo \o flutter) \o linux) /\ Len((cargo \o flutter) \o linux) >= 2
      /\ ((cargo \o flutter) \o linux)[1] = cargo[1]
  BY <1>5, <1>7, ConcatFirst, Zenon
<1>9. Sequence(rest) /\ Len(rest) >= 2 /\ rest[1] = cargo[1]
  BY <1>6, <1>8, ConcatFirst, Zenon DEF rest
<1>10. Sequence(others) /\ (~o.python_only => others = rest)
  BY <1>1, <1>9 DEF When, others
<1>11. build_steps(t, h, o) = python \o others
  BY DEF build_steps, python, others, rest, cargo, flutter, linux, mobile
<1>12. Sequence(python \o others) /\ Len(python \o others) = 9 + Len(others) /\ Len(others) \in Nat
  <2>1. /\ Sequence(python \o others) /\ Len(python \o others) = Len(python) + Len(others)
        /\ Len(others) \in Nat
    BY <1>2, <1>10, ConcatType, Zenon
  <2> QED
    BY <1>2, <2>1
<1>13. DOMAIN (python \o others) = 1..(9 + Len(others))
  BY <1>12 DEF Sequence
<1>14. ASSUME ~o.python_only
       PROVE  /\ 10 \in DOMAIN (python \o others)
              /\ (python \o others)[10] = Step("broker_authority_parity", "cargo", TRUE)
  <2>1. Len(others) >= 2 /\ others[1] = Step("broker_authority_parity", "cargo", TRUE)
    BY <1>3, <1>9, <1>10, <1>14
  <2>3. (python \o others)[Len(python) + 1] = others[1]
    BY <1>2, <1>10, <2>1, ConcatAt, Zenon
  <2>4. Len(python) + 1 = 10 /\ 10 \in 1..(9 + Len(others))
    BY <1>2, <1>12, <2>1
  <2> QED
    BY <1>13, <2>1, <2>3, <2>4
<1> QED
  BY <1>11, <1>12, <1>14 DEF Step

\* One step is taken from those that are left and its result added.
LEMMA TakeStep ==
    ASSUME StepsInv, todo # <<>>, NEW x, Take(x),
           UNCHANGED <<tree, host, options, verdict, touched>>,
           hpc = "ended" => hpc' = "ended" /\ (HarnessPassed => HarnessPassed'),
           x.name = Head(todo).name,
           Head(todo).in_release_scope /\ x.classification # "release_blocker" =>
               x.status = "passed",
           x.name = "broker_authority_parity" /\ x.status = "passed" =>
               hpc' = "ended" /\ HarnessPassed'
    PROVE  StepsInv'
<1>1. results' = Append(results, x) /\ todo' = Tail(todo)
  BY DEF Take
<1>2. PICK S : results \in Seq(S)
  BY DEF StepsInv, Sequence
<1>3. PICK T : todo \in Seq(T)
  BY DEF StepsInv, Sequence
<1>4. /\ results' \in Seq(S \union {x}) /\ Len(results') = Len(results) + 1
      /\ \A i \in 1..Len(results) : results'[i] = results[i]
      /\ results'[Len(results) + 1] = x /\ DOMAIN results' = 1..Len(results')
  <2>1. results \in Seq(S \union {x})
    BY <1>2
  <2> QED
    BY <1>1, <2>1
<1>5. /\ todo' \in Seq(T) /\ Len(todo) > 0 /\ Len(todo') = Len(todo) - 1 /\ Head(todo) = todo[1]
      /\ \A i \in 1..Len(todo') : todo'[i] = todo[i + 1]
  BY <1>1, <1>3
<1>6. Len(results) \in Nat /\ Len(todo) \in Nat /\ DOMAIN results = 1..Len(results)
  BY <1>2, <1>3
<1>7. Sequence(results') /\ Sequence(todo')
  BY <1>4, <1>5 DEF Sequence
<1>8. \A i \in DOMAIN results' :
          results'[i].name = "broker_authority_parity" /\ results'[i].status = "passed" =>
              hpc' = "ended" /\ HarnessPassed'
  <2> SUFFICES ASSUME NEW i \in 1..(Len(results) + 1), results'[i].name = "broker_authority_parity",
                      results'[i].status = "passed"
               PROVE  hpc' = "ended" /\ HarnessPassed'
    BY <1>4
  <2>1. CASE i \in 1..Len(results)
    <3>1. hpc = "ended" /\ HarnessPassed
      BY <1>4, <1>6, <2>1 DEF StepsInv
    <3> QED
      BY <3>1
  <2>2. CASE i = Len(results) + 1
    BY <1>4, <2>2
  <2> QED
    BY <1>6, <2>1, <2>2
<1> DEFINE steps == build_steps(tree, host, options)
<1>9. ASSUME ~touched
      PROVE  /\ Len(results') + Len(todo') = Len(steps)
             /\ \A i \in 1..Len(todo') : todo'[i] = steps[Len(results') + i]
             /\ \A i \in 1..Len(results') :
                    /\ results'[i].name = steps[i].name
                    /\ (steps[i].in_release_scope
                        /\ results'[i].classification # "release_blocker") =>
                           results'[i].status = "passed"
             /\ verdict # "pass"
  <2> HIDE DEF steps
  <2>1. /\ Len(results) + Len(todo) = Len(steps)
        /\ \A i \in 1..Len(todo) : todo[i] = steps[Len(results) + i]
        /\ \A i \in 1..Len(results) :
               /\ results[i].name = steps[i].name
               /\ steps[i].in_release_scope /\ results[i].classification # "release_blocker" =>
                      results[i].status = "passed"
        /\ verdict # "pass"
    BY <1>9 DEF StepsInv, steps
  <2>2. Head(todo) = steps[Len(results) + 1]
    BY <1>5, <1>6, <2>1
  <2>3. Len(results') + Len(todo') = Len(steps)
    <3>1. Len(results') = Len(results) + 1 /\ Len(todo') = Len(todo) - 1
      BY <1>4, <1>5
    <3>2. Len(results) + Len(todo) = Len(steps)
      BY <2>1
    <3> QED
      BY <1>6, <3>1, <3>2
  <2>4. \A i \in 1..Len(todo') : todo'[i] = steps[Len(results') + i]
    <3> TAKE i \in 1..Len(todo')
    <3>1. i + 1 \in 1..Len(todo) /\ Len(results) + (i + 1) = Len(results') + i
      BY <1>4, <1>5, <1>6
    <3>2. todo[i + 1] = steps[Len(results) + (i + 1)]
      BY <2>1, <3>1
    <3> QED
      BY <1>5, <3>1, <3>2
  <2>5. ASSUME NEW i \in 1..Len(results')
        PROVE  /\ results'[i].name = steps[i].name
               /\ steps[i].in_release_scope /\ results'[i].classification # "release_blocker" =>
                      results'[i].status = "passed"
    <3>1. CASE i \in 1..Len(results)
      BY <1>4, <2>1, <3>1
    <3>2. CASE i = Len(results) + 1
      BY <1>4, <2>2, <3>2
    <3> QED
      BY <1>4, <1>6, <2>5, <3>1, <3>2
  <2> QED
    BY <2>1, <2>3, <2>4, <2>5
<1>10. (~touched)' <=> ~touched
  OBVIOUS
<1> QED
  BY <1>7, <1>8, <1>9, <1>10 DEF StepsInv

\* StepsInv is inductive: results and plan together are the steps of the run.
LEMMA StepsInvKeeps == StepsInv /\ [Next]_vars => StepsInv'
<1> SUFFICES ASSUME StepsInv, [Next]_vars
             PROVE  StepsInv'
  OBVIOUS
<1>0. hpc = "ended" => hpc' = "ended" /\ (HarnessPassed => HarnessPassed')
  BY EndedStays
<1>1. CASE UNCHANGED <<tree, host, options, todo, results, verdict, touched>>
  BY <1>0, <1>1 DEF StepsInv
<1>2. CASE Edit \/ WriteManifest
  <2>1. /\ results = <<>> /\ UNCHANGED <<host, options, results, verdict, touched>>
        /\ todo' = build_steps(tree', host, options)
    BY <1>2 DEF Edit, WriteManifest, Running
  <2>2. Sequence(todo') /\ Len(todo') > 0 /\ Sequence(results)
    BY <2>1, BuildSteps DEF StepsInv
  <2>3. Len(results) = 0
    BY <2>1
  <2>4. ~touched => verdict # "pass"
    BY <2>1, <2>3, BuildSteps DEF StepsInv
  <2>5. Len(todo') \in Nat
    BY <2>2 DEF Sequence
  <2> QED
    BY <2>1, <2>2, <2>3, <2>4, <2>5 DEF StepsInv
<1>4. CASE EditDuringRun
  BY <1>0, <1>4 DEF EditDuringRun, run, StepsInv
<1>5. CASE StepNotRun
  <2>1. UNCHANGED <<tree, host, options, verdict, touched>> /\ todo # <<>>
    BY <1>5 DEF StepNotRun
  <2> QED
    BY <1>0, <1>5, <2>1, TakeStep DEF StepNotRun, not_run, classify_not_run
<1>6. CASE RunStep
  BY <1>0, <1>6, TakeStep DEF RunStep, Outcome, Classification
<1>7. CASE EndParity
  BY <1>0, <1>7, TakeStep DEF EndParity, Outcome, Classification
<1>8. CASE Report
  BY <1>0, <1>8 DEF Report, StepsInv
<1> QED
  BY <1>1, <1>2, <1>4, <1>5, <1>6, <1>7, <1>8
  DEF Next, vars, run, StartParity, Harness, Broker, BrokerRecovers, BrokerFails

\* The two invariants hold together in every reachable state.
LEMMA StepsHold == Spec => [](HarnessInv /\ StepsInv)
<1>1. Init => HarnessInv
  BY DEF Init, HarnessInit, HarnessInv
<1>2. Init => StepsInv
  <2> SUFFICES ASSUME Init
               PROVE  StepsInv
    OBVIOUS
  <2>1. /\ todo = build_steps(tree, host, options) /\ results = <<>> /\ verdict = "none"
    BY DEF Init
  <2>2. Sequence(todo) /\ Len(todo) \in Nat
    BY <2>1, BuildSteps DEF Sequence
  <2>3. Sequence(results) /\ Len(results) = 0 /\ DOMAIN results = {}
    <3>1. <<>> \in Seq({})
      OBVIOUS
    <3> QED
      BY <2>1, <3>1 DEF Sequence
  <2> QED
    BY <2>1, <2>2, <2>3 DEF StepsInv
<1> QED
  BY <1>1, <1>2, HarnessInvKeeps, StepsInvKeeps, PTL DEF Spec

\* Types of the results, of the verdict and of what went wrong.
TypesInv ==
    /\ verdict \in {"none", "pass", "fail"} /\ faults \in 0..MaxFaults
    /\ Sequence(results)
    /\ \A i \in DOMAIN results :
           /\ results[i].status \in {"passed", "failed", "not_run"}
           /\ results[i].classification \in {"none", "release_blocker", "post_v1_scope"}

\* TypesInv is inductive: the types of the run, its tree and its results.
LEMMA TypesKeep == TypesInv /\ [Next]_vars => TypesInv'
<1> SUFFICES ASSUME TypesInv, [Next]_vars
             PROVE  TypesInv'
  OBVIOUS
<1>1. faults' \in 0..MaxFaults
  <2>1. UNCHANGED faults \/ Fault \/ faults' = MaxFaults
    BY DEF Next, vars, Edit, WriteManifest, EditDuringRun, StepNotRun, RunStep, StartParity,
           EndParity, Report, Harness, Broker, BrokerRecovers, BrokerFails, StartBroker,
           HarnessStep, BrokerSeen, BrokerDiedEarly, StartTimeout, Ask, Compare, CallFails,
           AllCompared, Shutdown, WaitReturns, WaitKills, KilledWaitTimesOut, Cleanup, BrokerStep, BrokerReady,
           BrokerAnswers, BrokerStops, BrokerResumes, BrokerEnds, BrokerFault, BrokerHangs, BrokerDies,
           BrokerDisagrees, BrokerServesOn, CleanupFails
  <2> QED
    BY <2>1, FaultsAssumption DEF TypesInv, Fault
<1>2. verdict' \in {"none", "pass", "fail"}
  BY DEF TypesInv, Next, vars, run, Edit, WriteManifest, EditDuringRun, StepNotRun, RunStep,
         StartParity, EndParity, Report, Harness, Broker, BrokerRecovers, BrokerFails
<1>3. \/ UNCHANGED results
      \/ \E x : /\ results' = Append(results, x)
                 /\ x.status \in {"passed", "failed", "not_run"}
                 /\ x.classification \in {"none", "release_blocker", "post_v1_scope"}
  <2>1. CASE UNCHANGED results
    BY <2>1
  <2>2. CASE StepNotRun
    <3> DEFINE x == not_run(Head(todo), options.strict_release)
    <3>1. results' = Append(results, x)
      BY <2>2 DEF StepNotRun, Take
    <3>2. x.status = "not_run" /\ x.classification \in {"release_blocker", "post_v1_scope"}
      BY DEF not_run, classify_not_run
    <3> QED
      BY <3>1, <3>2
  <2>3. ASSUME NEW passed, Take(Outcome(Head(todo), passed))
        PROVE  \E x : /\ results' = Append(results, x)
                      /\ x.status \in {"passed", "failed", "not_run"}
                      /\ x.classification \in {"none", "release_blocker", "post_v1_scope"}
    <3> DEFINE x == Outcome(Head(todo), passed)
    <3>1. results' = Append(results, x)
      BY <2>3 DEF Take
    <3>2. /\ x.status \in {"passed", "failed"}
          /\ x.classification \in {"none", "release_blocker", "post_v1_scope"}
      BY DEF Outcome, Classification
    <3> QED
      BY <3>1, <3>2
  <2>4. CASE RunStep
    BY <2>3, <2>4 DEF RunStep
  <2>5. CASE EndParity
    BY <2>3, <2>5 DEF EndParity
  <2> QED
    BY <2>1, <2>2, <2>4, <2>5
    DEF Next, vars, run, Edit, WriteManifest, EditDuringRun, StartParity, Report, Harness, Broker,
        BrokerRecovers, BrokerFails
<1>4. /\ Sequence(results')
      /\ \A i \in DOMAIN results' :
             /\ results'[i].status \in {"passed", "failed", "not_run"}
             /\ results'[i].classification \in {"none", "release_blocker", "post_v1_scope"}
  <2>1. CASE UNCHANGED results
    BY <2>1 DEF TypesInv
  <2>2. ASSUME NEW x, results' = Append(results, x),
               x.status \in {"passed", "failed", "not_run"},
               x.classification \in {"none", "release_blocker", "post_v1_scope"}
        PROVE  /\ Sequence(results')
               /\ \A i \in DOMAIN results' :
                      /\ results'[i].status \in {"passed", "failed", "not_run"}
                      /\ results'[i].classification \in {"none", "release_blocker", "post_v1_scope"}
    <3>1. /\ Sequence(results')
          /\ \A i \in DOMAIN results' :
                 (i \in DOMAIN results /\ results'[i] = results[i]) \/ results'[i] = x
      BY <2>2, AppendKeeps DEF TypesInv
    <3> QED
      BY <2>2, <3>1 DEF TypesInv
  <2> QED
    BY <1>3, <2>1, <2>2
<1> QED
  BY <1>1, <1>2, <1>4 DEF TypesInv

-----------------------------------------------------------------------------
(* What the single checks say of a tree in which they find nothing.        *)

\* A union of sets of errors is empty when each of them is.
LEMMA UnionEmpty ==
    ASSUME NEW S, UNION S = {}, NEW x \in S
    PROVE  x = {}
OBVIOUS

\* An entry of a manifest: its path is not excluded and leads to something, which, if it is
\* a file, has that hash.
EntryOK(t, entry) ==
    /\ ~is_excluded(entry.path) /\ exists(t, Located(entry.path))
    /\ Located(entry.path) \in DOMAIN t.files => entry.sha256 = t.files[Located(entry.path)]

\* A manifest in whose check nothing is found, read as a list of paths with hashes.
LEMMA ManifestFound ==
    ASSUME NEW t, check_manifest(t) = {}
    PROVE  LET listed == load_manifest(t) IN
           /\ listed # None
           /\ \A i \in DOMAIN listed : \A k \in 1..(i - 1) : listed[k].path # listed[i].path
           /\ \A p \in expected_files(t).files :
                  \E i \in DOMAIN listed : listed[i].path = p
           /\ \A i \in DOMAIN listed : EntryOK(t, listed[i])
           /\ \E i \in DOMAIN listed : ShellCoreFile(listed[i].path)
<1> DEFINE actual == load_manifest(t)
           listed == {actual[i].path : i \in DOMAIN actual}
<1>1. actual # None
  BY DEF check_manifest
<1>2. {<<"duplicate", actual[i].path>> :
          i \in {j \in DOMAIN actual : \E k \in 1..(j - 1) : actual[k].path = actual[j].path}} = {}
  BY <1>1 DEF check_manifest
<1>3. {<<"forbidden", p>> : p \in {q \in listed : is_excluded(q)}} = {}
  BY <1>1 DEF check_manifest
<1>4. {<<"missing", p>> : p \in {q \in listed : ~exists(t, Located(q))}} = {}
  BY <1>1 DEF check_manifest
<1>5. hash_errors(t, actual) = {}
  BY <1>1 DEF check_manifest
<1>6. {<<"unlisted", p>> : p \in expected_files(t).files \ listed} = {}
  BY <1>1 DEF check_manifest
<1>7. \E p \in listed : ShellCoreFile(p)
  BY <1>1 DEF check_manifest, Failing
<1> HIDE DEF actual
<1>8. \A i \in DOMAIN actual : \A k \in 1..(i - 1) : actual[k].path # actual[i].path
  BY <1>2
<1>9. \A p \in expected_files(t).files : \E i \in DOMAIN actual : actual[i].path = p
  BY <1>6
<1>10. \A i \in DOMAIN actual :
           ~is_excluded(actual[i].path) /\ exists(t, Located(actual[i].path))
  BY <1>3, <1>4
<1>12. \A i \in DOMAIN actual :
           Located(actual[i].path) \in DOMAIN t.files =>
               actual[i].sha256 = t.files[Located(actual[i].path)]
  BY <1>5 DEF hash_errors
<1>11. \E i \in DOMAIN actual : ShellCoreFile(actual[i].path)
  BY <1>7
<1> QED
  BY <1>1, <1>8, <1>9, <1>10, <1>11, <1>12 DEF actual, EntryOK

\* No file below lib has a token that one of the two assertions looks for.
LEMMA ShortcutsFound ==
    ASSUME NEW t, release_runtime_assertions(t) = {}, NEW p \in desktop_lib_files(t)
    PROVE  /\ {"Process.run", "Process.start", "dart:ffi", "flutter_rust_bridge",
               "MethodChannel("} \intersect Text(t.files[p]) = {}
           /\ "session secret" \in Text(t.files[p]) => p[Len(p)] = "broker_client.dart"
<1>1. p \in DOMAIN t.files /\ TextOf(t, p) = Text(t.files[p])
  BY DEF desktop_lib_files, TextOf
<1>2. assert_flutter_does_not_spawn_python_product_path(t) = {}
      /\ assert_no_ffi_or_direct_bridge_authority_path(t) = {}
      /\ assert_broker_secret_not_projected_to_ui(t) = {}
  <2>1. ReadFiles \subseteq DOMAIN t.files
    BY DEF release_runtime_assertions
  <2> QED
    BY <2>1 DEF release_runtime_assertions
<1>3. ASSUME NEW paths, NEW tokens, scan_files(t, paths, tokens) = {}, p \in paths, NEW x \in tokens
      PROVE  x \notin Text(t.files[p])
  <2>1. <<p, x>> \in paths \X tokens
    BY <1>3
  <2> QED
    BY <1>1, <1>3, <2>1 DEF scan_files
<1>4. \A x \in {"Process.run", "Process.start"} : x \notin Text(t.files[p])
  BY <1>2, <1>3 DEF assert_flutter_does_not_spawn_python_product_path
<1>5. \A x \in {"dart:ffi", "flutter_rust_bridge", "MethodChannel("} : x \notin Text(t.files[p])
  BY <1>2, <1>3 DEF assert_no_ffi_or_direct_bridge_authority_path
<1>6. p[Len(p)] # "broker_client.dart" => "session secret" \notin Text(t.files[p])
  BY <1>2, <1>3 DEF assert_broker_secret_not_projected_to_ui
<1> QED
  BY <1>4, <1>5, <1>6

\* Every file of an exception that freezes is frozen.
LEMMA AllFrozen ==
    ASSUME NEW entries, NEW frozen, NEW files, UnfrozenErrors(entries, frozen, files) = {},
           NEW p \in files, NEW j \in DOMAIN entries,
           entries[j].handling = "exclude_file", entries[j].integrity = "sha256",
           path_matches(p, entries[j].scopes)
    PROVE  \E k \in DOMAIN frozen : frozen[k].path = p
BY Zenon DEF UnfrozenErrors

\* A file of a kind that is read and that no exception takes is there, without a finding.
LEMMA NothingFound ==
    ASSUME NEW t, audit_repository(t) = {}, NEW p \in repository_paths(t),
           exception_for_path(t, p) = {}, IsScanned(p)
    PROVE  p \in DOMAIN t.files /\ ~HasFinding(t.files[p], lexical_terms_for_path(t, p))
<1> DEFINE scanned == {q \in repository_paths(t) : exception_for_path(t, q) = {} /\ IsScanned(q)}
<1>1. {<<"not there", q>> : q \in scanned \ DOMAIN t.files} = {}
  BY DEF audit_repository
<1>2. {<<"finding", q>> : q \in {r \in scanned \intersect DOMAIN t.files :
          HasFinding(t.files[r], lexical_terms_for_path(t, r))}} = {}
  BY DEF audit_repository
<1>3. p \in scanned
  OBVIOUS
<1> HIDE DEF scanned
<1>4. p \in DOMAIN t.files
  BY <1>1, <1>3
<1> QED
  BY <1>2, <1>3, <1>4

\* A file that an exception takes from the audit is generated, or frozen as it is.
LEMMA ExclusionsFound ==
    ASSUME NEW t, audit_repository(t) = {}, NEW p \in repository_paths(t),
           exception_for_path(t, p) # {}
    PROVE  LET registry == t.files[REGISTRY_PATH] IN
           \/ \E i \in DOMAIN registry.exceptions :
                  registry.exceptions[i].category = "generated"
                  /\ path_matches(p, registry.exceptions[i].scopes)
           \/ \E k \in DOMAIN registry.frozen_assets :
                  registry.frozen_assets[k].path = p
                  /\ registry.frozen_assets[k].sha256 = t.files[p]
<1> DEFINE entries == Entries(t)
           frozen  == t.files[REGISTRY_PATH].frozen_assets
<1>1. load_registry_errors(t) = {}
  BY DEF audit_repository
<1>2. REGISTRY_PATH \in DOMAIN t.files
  BY <1>1 DEF load_registry_errors
<1>3. /\ UNION {EntryErrors(entries[i], repository_paths(t)) : i \in DOMAIN entries} = {}
      /\ UNION {FrozenErrors(t, entries, frozen[k]) : k \in DOMAIN frozen} = {}
      /\ UnfrozenErrors(entries, frozen, repository_paths(t)) = {}
  BY <1>1, <1>2 DEF load_registry_errors
<1>4. entries = t.files[REGISTRY_PATH].exceptions
  BY <1>2 DEF Entries
<1>5. PICK j \in DOMAIN entries :
          entries[j].handling = "exclude_file" /\ path_matches(p, entries[j].scopes)
  BY DEF exception_for_path
<1> HIDE DEF entries, frozen
<1>6. CategoryErrors(entries[j]) = {}
  <2>1. EntryErrors(entries[j], repository_paths(t)) = {}
    BY <1>3
  <2> QED
    BY <2>1 DEF EntryErrors
<1>7. \/ entries[j].category = "generated"
      \/ entries[j].category \in {"legal text", "evidence"} /\ entries[j].integrity = "sha256"
  BY <1>5, <1>6 DEF CategoryErrors, Failing, FILE_EXCEPTION_CATEGORIES
<1>8. ASSUME entries[j].integrity = "sha256"
      PROVE  \E k \in DOMAIN frozen : frozen[k].path = p /\ frozen[k].sha256 = t.files[p]
  <2>1. PICK k \in DOMAIN frozen : frozen[k].path = p
    BY <1>3, <1>5, <1>8, AllFrozen
  <2>2. FrozenErrors(t, entries, frozen[k]) = {}
    BY <1>3
  <2>3. frozen[k].sha256 = t.files[p]
    BY <2>1, <2>2 DEF FrozenErrors, Failing
  <2> QED
    BY <2>1, <2>3
<1> QED
  BY <1>4, <1>5, <1>7, <1>8 DEF entries, frozen

\* The strict gate passes over no active blocker whose Windows evidence fails.
LEMMA BlockersFound ==
    ASSUME NEW t, NEW strict, strict, release_gate(t, strict) = {},
           NEW i \in DOMAIN Registry(t),
           Registry(t)[i].active = "true",
           Registry(t)[i].status_source = WINDOWS_EVIDENCE_STATUS_SOURCE
    PROVE  /\ Registry(t)[i].evidence_result \in WindowsResultNames
           /\ WindowsResults(t)[Registry(t)[i].evidence_result] = {}
<1> DEFINE r == Registry(t)
           results_of == WindowsResults(t)
           b == r[i]
           e == effective_release_blocker(b, results_of)
<1>1. registry_errors(t) = {} /\ unresolved_active_blockers(t) = {}
  <2> DEFINE scanned == (UNION {scan_file(t, doc) : doc \in SCAN_FILES}) \union registry_errors(t)
             synced  == IF scanned = {} THEN release_blocker_doc_sync_errors(t) ELSE {}
             counted == {<<"unresolved", u.name>> : u \in unresolved_active_blockers(t)}
  <2>1. /\ scanned = {} /\ synced = {}
        /\ (IF scanned \union synced = {} THEN counted ELSE {}) = {}
    BY DEF release_gate
  <2>2. registry_errors(t) = {}
    BY <2>1
  <2>3. counted = {}
    BY <2>1
  <2> QED
    BY <2>2, <2>3
<1>2. r # None /\ UNION {BlockerErrors(r[k]) : k \in DOMAIN r} = {}
  BY <1>1 DEF registry_errors
<1>3. BlockerErrors(b) = {}
  BY <1>2
<1>4. DOMAIN results_of = WindowsResultNames
  BY DEF WindowsResults, validate_windows_release_evidence
<1>5. e \notin unresolved_active_blockers(t)
  BY <1>1
<1> HIDE DEF r, results_of
<1>6. RegistryFields \subseteq DOMAIN b
  BY <1>3 DEF BlockerErrors
<1>7. b.classification = "release_blocker" /\ b.blocks_release = "true"
  BY <1>3, <1>6 DEF BlockerErrors, Failing
<1>8. ASSUME ~(b.evidence_result \in DOMAIN results_of /\ results_of[b.evidence_result] = {})
      PROVE  FALSE
  <2>1. e = [b EXCEPT !.status = "unresolved"]
    BY <1>8 DEF effective_release_blocker, r
  <2>2. /\ e.status = "unresolved" /\ e.active = "true"
        /\ e.classification = "release_blocker" /\ e.blocks_release = "true"
    BY <1>6, <1>7, <2>1 DEF RegistryFields, r
  <2> QED
    BY <1>5, <2>2 DEF unresolved_active_blockers, r, results_of
<1> QED
  BY <1>4, <1>8 DEF r, results_of

-----------------------------------------------------------------------------
(* The archive.                                                            *)

\* What is unpacked is a part of the tree, with the same files expected in it and the
\* same manifest.
LEMMA ArchiveIsPart ==
    ASSUME NEW t
    PROVE  /\ DOMAIN Extracted(t).files \subseteq DOMAIN t.files
           /\ \A p \in DOMAIN Extracted(t).files : Extracted(t).files[p] = t.files[p]
           /\ MANIFEST \in DOMAIN t.files => MANIFEST \in DOMAIN Extracted(t).files
           /\ expected_files(Extracted(t)).files = expected_files(t).files
           /\ load_manifest(Extracted(t)) = load_manifest(t)
<1> DEFINE x == Extracted(t)
           packed == expected_files(t).files \union ({MANIFEST} \intersect DOMAIN t.files)
<1>1. x = [files |-> [p \in packed |-> t.files[p]], git |-> FALSE, tracked |-> {}]
  BY DEF Extracted
<1>2. DOMAIN x.files = packed /\ ~x.git /\ \A p \in packed : x.files[p] = t.files[p]
  BY <1>1
<1>3. \A p \in expected_files(t).files : p \in DOMAIN t.files /\ ~is_excluded(p)
  BY DEF expected_files
<1>4. is_excluded(MANIFEST)
  BY DEF is_excluded, EXCLUDED_PATHS
<1>5. packed \subseteq DOMAIN t.files /\ (MANIFEST \in packed <=> MANIFEST \in DOMAIN t.files)
  BY <1>3, <1>4
<1>6. {p \in packed : ~is_excluded(p)} = expected_files(t).files
  BY <1>3, <1>4
<1> HIDE DEF x, packed
<1>7. expected_files(x).files = {p \in packed : ~is_excluded(p)}
  BY <1>2 DEF expected_files
<1>8. load_manifest(x) = load_manifest(t)
  BY <1>2, <1>5 DEF load_manifest
<1> QED
  BY <1>2, <1>5, <1>6, <1>7, <1>8 DEF x

\* The paths of a tree are those of files, none of which is below another.
FilesApart(t) == \A p \in DOMAIN t.files : Plain(p) /\ ~Below(t, p)

\* A path is that of a file, in every tree that a run comes to see.
PathsInv == DOMAIN tree.files \subseteq Paths

\* PathsInv is inductive: people change files at such paths only, and so does the manifest.
LEMMA PathsKeep == PathsInv /\ [Next]_vars => PathsInv'
<1> SUFFICES ASSUME PathsInv, [Next]_vars
             PROVE  PathsInv'
  OBVIOUS
<1>1. CASE UNCHANGED tree
  BY <1>1 DEF PathsInv
<1>2. ASSUME NEW path \in Paths, NEW content
      PROVE  DOMAIN With(tree, path, content).files \subseteq Paths
  BY <1>2 DEF With, PathsInv
<1>3. CASE Edit \/ EditDuringRun
  <2>1. PICK change \in Changes : tree' = Changed(tree, change)
    BY <1>3 DEF Edit, EditDuringRun
  <2>2. change.path \in Paths
    BY DEF Paths
  <2> DEFINE added == With(tree, change.path, change.content)
  <2>3. DOMAIN added.files \subseteq Paths
    BY <1>2, <2>2
  <2>4. tree'.files \in {added.files, [p \in DOMAIN tree.files \ {change.path} |-> tree.files[p]]}
    BY <2>1 DEF Changed, With
  <2> QED
    BY <2>3, <2>4 DEF PathsInv
<1>4. CASE WriteManifest
  <2>1. MANIFEST \in Paths
    BY DEF Paths
  <2>2. tree' = tree \/ \E content : tree' = With(tree, MANIFEST, content)
    BY <1>4 DEF WriteManifest, write_manifest
  <2> QED
    BY <1>2, <2>1, <2>2 DEF PathsInv
<1> QED
  BY <1>1, <1>3, <1>4 DEF Next, vars, StepNotRun, RunStep, StartParity, EndParity, Report,
     Harness, Broker, BrokerRecovers, BrokerFails

\* In every tree that a run comes to see, files are apart.
LEMMA TreeFiles == Spec => []FilesApart(tree)
<1>1. Init => PathsInv
  BY DEF Init, PathsInv, Paths
<1>2. PathsInv => FilesApart(tree)
  BY PathsAssumption DEF PathsInv, FilesApart, Below
<1> QED
  BY <1>1, <1>2, PathsKeep, PTL DEF Spec

\* A manifest that is right for the archive is right for the tree: what is there in the
\* archive is there in the tree, and what is a file in the tree is no directory in it.
LEMMA ArchiveManifest ==
    ASSUME NEW t, FilesApart(t), expected_files(t).errors = {}, check_manifest(Extracted(t)) = {}
    PROVE  check_manifest(t) = {}
<1> DEFINE x == Extracted(t)
           actual == load_manifest(t)
           listed == {actual[i].path : i \in DOMAIN actual}
<1>1. /\ DOMAIN x.files \subseteq DOMAIN t.files
      /\ \A p \in DOMAIN x.files : x.files[p] = t.files[p]
      /\ expected_files(x).files = expected_files(t).files
      /\ load_manifest(x) = actual
  BY ArchiveIsPart
<1> HIDE DEF x, actual
<1>2. /\ actual # None
      /\ \A i \in DOMAIN actual : \A k \in 1..(i - 1) : actual[k].path # actual[i].path
      /\ \A p \in expected_files(t).files : \E i \in DOMAIN actual : actual[i].path = p
      /\ \A i \in DOMAIN actual : EntryOK(x, actual[i])
      /\ \E i \in DOMAIN actual : ShellCoreFile(actual[i].path)
  <2>1. check_manifest(x) = {}
    BY DEF x
  <2> QED
    BY <1>1, <2>1, ManifestFound
<1>3. ASSUME NEW i \in DOMAIN actual
      PROVE  EntryOK(t, actual[i])
  <2> DEFINE at == Located(actual[i].path)
  <2>1. /\ ~is_excluded(actual[i].path) /\ exists(x, at)
        /\ at \in DOMAIN x.files => actual[i].sha256 = x.files[at]
    BY <1>2 DEF EntryOK
  <2>2. EntryOK(t, actual[i]) <=>
            /\ ~is_excluded(actual[i].path) /\ exists(t, at)
            /\ at \in DOMAIN t.files => actual[i].sha256 = t.files[at]
    BY DEF EntryOK
  <2> HIDE DEF at
  <2>3. CASE at \in DOMAIN x.files
    BY <1>1, <2>1, <2>2, <2>3 DEF exists
  <2>4. CASE Below(x, at)
    <3>1. Below(t, at)
      BY <1>1, <2>4 DEF Below
    <3> QED
      BY <2>1, <2>2, <3>1 DEF FilesApart, exists
  <2> QED
    BY <2>1, <2>3, <2>4 DEF exists
<1>4. {<<"duplicate", actual[i].path>> :
          i \in {j \in DOMAIN actual : \E k \in 1..(j - 1) : actual[k].path = actual[j].path}} = {}
  BY <1>2
<1>5. {<<"forbidden", p>> : p \in {q \in listed : is_excluded(q)}} = {}
  BY <1>3 DEF EntryOK
<1>6. {<<"missing", p>> : p \in {q \in listed : ~exists(t, Located(q))}} = {}
  BY <1>3 DEF EntryOK
<1>7. hash_errors(t, actual) = {}
  BY <1>3 DEF EntryOK, hash_errors
<1>8. {<<"unlisted", p>> : p \in expected_files(t).files \ listed} = {}
  BY <1>2
<1>9. Failing(~\E p \in listed : ShellCoreFile(p), <<"no shell core listed">>) = {}
  BY <1>2 DEF Failing
<1> QED
  BY <1>2, <1>4, <1>5, <1>6, <1>7, <1>8, <1>9 DEF actual, check_manifest

\* Where the gate finds nothing in the archive, it finds nothing in the tree.
LEMMA ArchiveGate ==
    ASSUME NEW t, check_manifest(t) = {}, release_gate(Extracted(t), FALSE) = {}
    PROVE  release_gate(t, FALSE) = {}
<1> DEFINE x == Extracted(t)
           scanned(u) == (UNION {scan_file(u, doc) : doc \in SCAN_FILES}) \union registry_errors(u)
           synced(u) == IF scanned(u) = {} THEN release_blocker_doc_sync_errors(u) ELSE {}
<1>1. /\ DOMAIN x.files \subseteq DOMAIN t.files
      /\ \A p \in DOMAIN x.files : x.files[p] = t.files[p]
  BY ArchiveIsPart
<1>2. /\ scanned(x) = {} /\ synced(x) = {}
      /\ Failing(release_claim_exists_without_classification(x), <<"release claim">>) = {}
      /\ macos_support_claim_errors(x) = {}
  BY DEF release_gate
<1>3. \A doc \in SCAN_FILES : scan_file(x, doc) = {}
  BY <1>2
<1>4. registry_errors(x) = {} /\ release_blocker_doc_sync_errors(x) = {}
  BY <1>2
<1> HIDE DEF x
<1>5. SCAN_FILES \subseteq DOMAIN x.files
  BY <1>3 DEF scan_file
<1>6. \A doc \in SCAN_FILES : doc \in DOMAIN t.files /\ t.files[doc] = x.files[doc]
  BY <1>1, <1>5
<1>7. \A doc \in SCAN_FILES : scan_file(t, doc) = {}
  BY <1>3, <1>5, <1>6 DEF scan_file
<1>8. Registry(t) = Registry(x)
  <2>1. Registry(x) # None
    BY <1>4 DEF registry_errors
  <2>2. RELEASE_BLOCKERS_REGISTRY \in DOMAIN x.files
    BY <2>1 DEF Registry
  <2> QED
    BY <1>1, <2>2 DEF Registry
<1>9. registry_errors(t) = {}
  BY <1>4, <1>8 DEF registry_errors
<1>10. scanned(t) = {}
  BY <1>7, <1>9
<1>11. Documents(t) = Documents(x)
  <2>1. SCAN_FILES \intersect DOMAIN t.files = SCAN_FILES
    BY <1>6
  <2>2. SCAN_FILES \intersect DOMAIN x.files = SCAN_FILES
    BY <1>5
  <2> QED
    BY <2>1, <2>2, <1>6 DEF Documents
<1>12. /\ Failing(release_claim_exists_without_classification(t), <<"release claim">>) = {}
       /\ macos_support_claim_errors(t) = {}
  BY <1>2, <1>11 DEF release_claim_exists_without_classification, macos_support_claim_errors
<1>13. release_blocker_doc_sync_errors(t) = {}
  <2>1. registry_blocker_names(t) = registry_blocker_names(x)
    BY <1>8 DEF registry_blocker_names
  <2>2. \A doc \in CURRENT_FACING_RELEASE_DOCS :
            doc \in DOMAIN t.files /\ doc \in DOMAIN x.files /\ t.files[doc] = x.files[doc]
    BY <1>5, <1>6, CurrentFacingAssumption
  <2>3. CURRENT_FACING_RELEASE_DOCS \intersect DOMAIN t.files = CURRENT_FACING_RELEASE_DOCS
        /\ CURRENT_FACING_RELEASE_DOCS \intersect DOMAIN x.files = CURRENT_FACING_RELEASE_DOCS
        /\ CURRENT_FACING_RELEASE_DOCS \ DOMAIN t.files = {}
        /\ CURRENT_FACING_RELEASE_DOCS \ DOMAIN x.files = {}
    BY <2>2
  <2>4. UNION {release_blocker_doc_blocks(t.files[doc]) : doc \in CURRENT_FACING_RELEASE_DOCS}
        = UNION {release_blocker_doc_blocks(x.files[doc]) : doc \in CURRENT_FACING_RELEASE_DOCS}
    BY <2>2
  <2> QED
    BY <1>4, <2>1, <2>3, <2>4 DEF release_blocker_doc_sync_errors
<1> QED
  BY <1>10, <1>12, <1>13 DEF release_gate

-----------------------------------------------------------------------------
(* The theorems.                                                           *)

\* A tree whose manifest check passed has a manifest that lists its files as they are, and
\* beyond them nothing but other files as they are and directories.
THEOREM ManifestMatchesTree == Spec => []ManifestIsExact
<1>1. FoundNothing /\ FilesApart(tree) => ManifestIsExact
  <2> DEFINE listed == load_manifest(tree)
  <2> SUFFICES ASSUME FoundNothing, FilesApart(tree), Passed("manifest_check"), ~touched
               PROVE  /\ \A p \in expected_files(tree).files :
                             \E i \in DOMAIN listed :
                                 listed[i].path = p /\ listed[i].sha256 = tree.files[p]
                      /\ \A i \in DOMAIN listed :
                             LET at == Located(listed[i].path) IN
                             /\ ~is_excluded(listed[i].path)
                             /\ \/ at \in DOMAIN tree.files /\ listed[i].sha256 = tree.files[at]
                                \/ Below(tree, at)
    BY DEF ManifestIsExact
  <2>1. check_manifest(tree) = {}
    BY PassedFound DEF StepErrors
  <2>2. /\ \A p \in expected_files(tree).files : \E i \in DOMAIN listed : listed[i].path = p
        /\ \A i \in DOMAIN listed : EntryOK(tree, listed[i])
    BY <2>1, ManifestFound
  <2>3. \A p \in expected_files(tree).files : p \in DOMAIN tree.files /\ Located(p) = p
    BY DEF FilesApart, expected_files, Located
  <2> HIDE DEF listed
  <2> QED
    BY <2>2, <2>3 DEF exists, EntryOK
<1> QED
  BY <1>1, Found, TreeFiles, PTL

\* A strict gate that passed has taken no registry's word for what evidence decides.
THEOREM EvidenceIsDecisive == Spec => []EvidenceDecides
<1>1. FoundNothing => EvidenceDecides
  <2> SUFFICES ASSUME FoundNothing, Passed("release_gate_check"), options.strict_release, ~touched,
                      NEW i \in DOMAIN Registry(tree), Registry(tree)[i].active = "true",
                      Registry(tree)[i].status_source = WINDOWS_EVIDENCE_STATUS_SOURCE
               PROVE  /\ Registry(tree)[i].evidence_result \in WindowsResultNames
                      /\ WindowsResults(tree)[Registry(tree)[i].evidence_result] = {}
    BY DEF EvidenceDecides
  <2>1. release_gate(tree, options.strict_release) = {}
    BY PassedFound DEF StepErrors
  <2> QED
    BY <2>1, BlockersFound
<1> QED
  BY <1>1, Found, PTL

\* What was found in order in the archive is in order in the tree.
THEOREM ArchiveSpeaksForTree == Spec => []StepsAgree
<1>1. FoundNothing /\ FilesApart(tree) => StepsAgree
  <2> SUFFICES ASSUME FoundNothing, FilesApart(tree), Passed("packaging_portability_check"), ~touched
               PROVE  check_manifest(tree) = {} /\ release_gate(tree, FALSE) = {}
    BY DEF StepsAgree
  <2>1. packaging_portability_check(tree, find_tool(host, "unzip")) = {}
    BY PassedFound DEF StepErrors
  <2>2. /\ packaging_preconditions(tree, find_tool(host, "unzip")) = {}
        /\ check_manifest(Extracted(tree)) = {} /\ release_gate(Extracted(tree), FALSE) = {}
    BY <2>1 DEF packaging_portability_check
  <2>3. expected_files(tree).errors = {}
    BY <2>2 DEF packaging_preconditions
  <2> QED
    BY <2>2, <2>3, ArchiveManifest, ArchiveGate
<1> QED
  BY <1>1, Found, TreeFiles, PTL

\* No Dart file of the desktop client, at any depth, has a way to authority but its broker
\* client.
THEOREM ShortcutsAreFound == Spec => []NoAuthorityShortcut
<1>1. FoundNothing => NoAuthorityShortcut
  <2> SUFFICES ASSUME FoundNothing, Passed("release_runtime_assertions"), ~touched,
                      NEW p \in DOMAIN tree.files, Len(p) > 3,
                      p[1] = "apps", p[2] = "desktop_flutter", p[3] = "lib",
                      Suffix(p[Len(p)]) = ".dart"
               PROVE  /\ {"Process.run", "Process.start", "dart:ffi", "flutter_rust_bridge",
                          "MethodChannel("} \intersect Text(tree.files[p]) = {}
                      /\ "session secret" \in Text(tree.files[p]) =>
                             p[Len(p)] = "broker_client.dart"
    BY DEF NoAuthorityShortcut
  <2>1. release_runtime_assertions(tree) = {}
    BY PassedFound DEF StepErrors
  <2>2. DesktopFile(p)
    <3>1. Len(p) > 3 => Len(p) > 2
      OBVIOUS
    <3> QED
      BY <3>1 DEF DesktopFile
  <2>3. p \in desktop_lib_files(tree)
    BY <2>2 DEF desktop_lib_files, DartFile
  <2> QED
    BY <2>1, <2>3, ShortcutsFound
<1> QED
  BY <1>1, Found, PTL

\* Nothing is kept from the language audit but what is generated, what is frozen as it is,
\* and files of a kind that it does not read.
THEOREM ExclusionsHaveGrounds == Spec => []ExclusionsAreJustified
<1>1. FoundNothing => ExclusionsAreJustified
  <2> SUFFICES ASSUME FoundNothing, Passed("japanese_base_audit"), ~touched
               PROVE  \A p \in repository_paths(tree) : Accounted(tree, p)
    BY DEF ExclusionsAreJustified, Accounted
  <2>1. audit_repository(tree) = {}
    BY PassedFound DEF StepErrors
  <2> QED
    BY <2>1, ExclusionsFound, NothingFound DEF Accounted
<1> QED
  BY <1>1, Found, PTL

\* The results and what is left are the run's steps in their order, whatever was not run,
\* failed or went wrong in the harness.
THEOREM ReleaseTypeCorrect == Spec => []ReleaseTypeOK
<1>1. Init => TypesInv
  <2> SUFFICES ASSUME Init
               PROVE  TypesInv
    OBVIOUS
  <2>1. <<>> \in Seq({}) /\ DOMAIN <<>> = {}
    OBVIOUS
  <2> QED
    BY <2>1, FaultsAssumption DEF Init, TypesInv, Sequence
<1>2. Spec => []TypesInv
  BY <1>1, TypesKeep, PTL DEF Spec
<1>3. TypesInv /\ StepsInv => ReleaseTypeOK
  <2> SUFFICES ASSUME TypesInv, StepsInv, ~touched
               PROVE  LET names(s) == [i \in DOMAIN s |-> s[i].name] IN
                      names(results) \o names(todo) = names(build_steps(tree, host, options))
    BY DEF TypesInv, ReleaseTypeOK
  <2> DEFINE names(s) == [i \in DOMAIN s |-> s[i].name]
             steps == build_steps(tree, host, options)
             r == names(results)
             u == names(todo)
             n == names(steps)
  <2>1. ASSUME NEW s, Sequence(s)
        PROVE  /\ DOMAIN s = 1..Len(s) /\ Len(s) \in Nat
               /\ Sequence(names(s)) /\ Len(names(s)) = Len(s)
               /\ DOMAIN names(s) = 1..Len(s) /\ \A i \in 1..Len(s) : names(s)[i] = s[i].name
    <3>1. DOMAIN s = 1..Len(s) /\ Len(s) \in Nat
      BY <2>1 DEF Sequence
    <3> DEFINE N == {s[i].name : i \in 1..Len(s)}
    <3>2. names(s) \in [1..Len(s) -> N]
      BY <3>1
    <3>3. names(s) \in Seq(N) /\ Len(names(s)) = Len(s)
      BY <3>1, <3>2
    <3> QED
      BY <3>1, <3>3 DEF Sequence
  <2>2. Sequence(results) /\ Sequence(todo) /\ Sequence(steps)
    BY BuildSteps DEF StepsInv
  <2>3. /\ Len(results) + Len(todo) = Len(steps)
        /\ \A i \in 1..Len(todo) : todo[i] = steps[Len(results) + i]
        /\ \A i \in 1..Len(results) : results[i].name = steps[i].name
    BY DEF StepsInv
  <2> HIDE DEF steps
  <2>4. /\ Len(results) \in Nat /\ Sequence(r) /\ Len(r) = Len(results)
        /\ \A i \in 1..Len(results) : r[i] = results[i].name
    BY <2>1, <2>2
  <2>5. /\ Len(todo) \in Nat /\ Sequence(u) /\ Len(u) = Len(todo)
        /\ \A i \in 1..Len(todo) : u[i] = todo[i].name
    BY <2>1, <2>2
  <2>6. /\ Len(steps) \in Nat /\ Sequence(n) /\ Len(n) = Len(steps)
        /\ \A i \in 1..Len(steps) : n[i] = steps[i].name
    BY <2>1, <2>2
  <2> HIDE DEF r, u, n, names
  <2>7. /\ Sequence(r \o u) /\ Len(r \o u) = Len(r) + Len(u)
        /\ \A i \in 1..Len(r) : (r \o u)[i] = r[i]
        /\ \A i \in 1..Len(u) : (r \o u)[Len(r) + i] = u[i]
    BY <2>4, <2>5, ConcatKeeps
  <2>8. ASSUME NEW i \in 1..Len(steps)
        PROVE  (r \o u)[i] = n[i]
    <3>1. CASE i \in 1..Len(results)
      BY <2>3, <2>4, <2>6, <2>7, <2>8, <3>1
    <3>2. CASE i \notin 1..Len(results)
      <4> DEFINE k == i - Len(results)
      <4>1. k \in 1..Len(todo) /\ i = Len(results) + k
        BY <2>3, <2>4, <2>5, <2>6, <2>8, <3>2
      <4> HIDE DEF k
      <4>2. (r \o u)[i] = todo[k].name
        BY <2>4, <2>5, <2>7, <4>1
      <4>3. todo[k] = steps[i]
        BY <2>3, <4>1
      <4> QED
        BY <2>6, <2>8, <4>2, <4>3
    <3> QED
      BY <3>1, <3>2
  <2>9. r \o u = n
    <3>1. Len(r \o u) = Len(n)
      BY <2>3, <2>4, <2>5, <2>6, <2>7
    <3>2. \A i \in 1..Len(n) : (r \o u)[i] = n[i]
      BY <2>6, <2>8
    <3> QED
      BY <2>6, <2>7, <3>1, <3>2, SameSequence
  <2> QED
    BY <2>9 DEF r, u, n, names, steps
<1> QED
  BY <1>2, <1>3, StepsHold, PTL

\* A verdict of pass stands on all steps in scope and all comparisons with the broker.
THEOREM NothingIsSkipped == Spec => []NoStepSkipped
<1>1. HarnessInv /\ StepsInv => NoStepSkipped
  <2> SUFFICES ASSUME HarnessInv, StepsInv, verdict = "pass", ~touched
               PROVE  LET steps == build_steps(tree, host, options) IN
                      /\ \A i \in DOMAIN steps : steps[i].in_release_scope => Passed(steps[i].name)
                      /\ ~options.python_only => compared = Comparisons /\ HarnessPassed
    BY DEF NoStepSkipped
  <2> DEFINE steps == build_steps(tree, host, options)
  <2>1. Sequence(results) /\ Sequence(steps)
    BY BuildSteps DEF StepsInv
  <2>2. /\ DOMAIN results = 1..Len(results) /\ Len(results) \in Nat
        /\ DOMAIN steps = 1..Len(steps) /\ Len(steps) \in Nat
    BY <2>1 DEF Sequence
  <2>3. /\ Len(results) + Len(todo) = Len(steps) /\ todo = <<>>
        /\ \A i \in 1..Len(results) :
               /\ results[i].name = steps[i].name
               /\ steps[i].in_release_scope => results[i].status = "passed"
    BY <2>2 DEF StepsInv
  <2>4. ~options.python_only => \E i \in DOMAIN steps :
            steps[i].name = "broker_authority_parity" /\ steps[i].in_release_scope
    BY BuildSteps
  <2> HIDE DEF steps
  <2>5. Len(todo) = 0
    BY <2>3
  <2>6. DOMAIN steps = DOMAIN results
    <3>1. Len(results) + 0 = Len(steps)
      BY <2>3, <2>5
    <3>2. Len(results) \in Nat /\ Len(steps) \in Nat
      BY <2>2
    <3>3. Len(results) = Len(steps)
      BY <3>1, <3>2
    <3> QED
      BY <2>2, <3>3
  <2>7. \A i \in DOMAIN steps : steps[i].in_release_scope =>
            results[i].status = "passed" /\ results[i].name = steps[i].name
    BY <2>2, <2>3, <2>6
  <2>8. ASSUME ~options.python_only
        PROVE  compared = Comparisons /\ HarnessPassed
    <3>1. hpc = "ended" /\ HarnessPassed
      BY <2>4, <2>6, <2>7, <2>8 DEF StepsInv
    <3>2. /\ Len(compared) = 4 /\ compared \in Seq({Comparisons[i] : i \in 1..4})
          /\ \A i \in 1..4 : compared[i] = Comparisons[i]
      BY <3>1 DEF HarnessInv, HarnessPassed
    <3>3. compared = [i \in 1..4 |-> Comparisons[i]]
      BY <3>2
    <3>4. Comparisons = [i \in 1..4 |-> Comparisons[i]]
      BY DEF Comparisons
    <3> QED
      BY <3>1, <3>3, <3>4
  <2> QED
    BY <2>6, <2>7, <2>8 DEF Passed, steps
<1> QED
  BY <1>1, StepsHold, PTL

=============================================================================
