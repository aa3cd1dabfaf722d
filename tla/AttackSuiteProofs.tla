-------------------------- MODULE AttackSuiteProofs --------------------------
(***************************************************************************)
(* The attack suite replayed through the structural detectors: legitimate  *)
(* sessions run clean, and the signal an attack's label stands for shows   *)
(* at its labelled call and at no call before it.  Of other signals the    *)
(* theorems say only which half of a pair stays silent.                    *)
(*                                                                         *)
(* Of the templates, schemas and attack tables the proofs use only what    *)
(* the lemmas of the second part say.  The invariant says what a session   *)
(* looks like once it carries a label, and that the store of the replay    *)
(* repeats the calls replayed so far.                                      *)
(***************************************************************************)
EXTENDS AttackSuite, FiniteSetTheorems, TLAPS

SignalNames == {"missing", "unexpected", "escalation", "rate", "evasion", "frequency", "size"}

SuiteTools == DOMAIN DrawnFields \cup DOMAIN InjectedFields

SuiteParams ==
  [fields : SUBSET Fields,
   content : {"drawn", "tampered", "fixed", "oversized", "varied"}]

SuiteCalls == [tool : SuiteTools, params : SuiteParams]

Entries == [tool : SuiteTools, params : SuiteParams,
            outcome : {"allowed", "pending_approval", "blocked"}]

AttackLabels == DOMAIN ExpectedSignal \cup {"prompt_injection_tool_output"}

Labels == {"none", "normal"} \cup AttackLabels

SuiteTypeOK ==
  /\ task \in TaskTypes
  /\ calls \in Seq(SuiteCalls)
  /\ drawn \in 0 .. Len(Templates[task])
  /\ label \in Labels /\ attack \in Nat
  /\ log \in Seq(Entries)
  /\ signals \in Seq(SUBSET SignalNames)

ToolOf(g) == Templates[task][g].tool

Positions(tool) == {i \in DOMAIN calls : calls[i].tool = tool}

\* A call the generator of legitimate sessions may have made.
IsDrawn(c) ==
  \E g \in DOMAIN Templates[task] : c = Call(ToolOf(g), DrawnFields[ToolOf(g)], "drawn")

\* What generate_session has made of the first groups of the template.
Generated ==
  /\ drawn > 0 => calls # <<>>
  /\ \A i \in DOMAIN calls : IsDrawn(calls[i])
  /\ \A g \in DOMAIN Templates[task] :
       /\ Cardinality(Positions(ToolOf(g))) <= Templates[task][g].max
       /\ g > drawn => Positions(ToolOf(g)) = {}

\* A call with exactly the fields of its schema, or of a tool without one.
WellFormed(c) == c.tool \in DOMAIN Schema => c.params.fields = Schema[c.tool]

Attacked == label \in AttackLabels

\* The attack is the last call.
AttackIsLast == attack = Len(calls) /\ attack \in DOMAIN calls

DrawnBefore == \A i \in 1..(attack - 1) : IsDrawn(calls[i])

OutboundBefore(n) == {i \in 1..(n - 1) : calls[i].tool \in OutboundTools}

\* What each generator has made of a legitimate session.
TampersMissing ==
  DrawnBefore /\ calls[attack].tool \in BaselineOf(task) /\ calls[attack].params.fields = {}

TampersUnexpected ==
  /\ DrawnBefore /\ calls[attack].tool \in BaselineOf(task)
  /\ calls[attack].params.fields = Schema[calls[attack].tool] \cup {"debug_override"}

Intrudes == DrawnBefore /\ calls[attack].tool \in DOMAIN InjectedFields

Overflows ==
  /\ \A i \in DOMAIN calls : WellFormed(calls[i]) /\ calls[i].params.content # "oversized"
  /\ calls[attack].tool \in OutboundTools
  /\ Cardinality(OutboundBefore(attack)) = OutboundThreshold - 1

Oversizes ==
  /\ DrawnBefore /\ WellFormed(calls[attack])
  /\ calls[attack].tool \in OutboundTools /\ calls[attack].params.content = "oversized"
  /\ Cardinality(OutboundBefore(attack)) < OutboundThreshold

Evades ==
  /\ attack = 1 /\ calls[1].tool \notin DOMAIN Schema
  /\ signals = <<>> => /\ Len(log) = 1 /\ log[1].tool = calls[1].tool
                       /\ log[1].outcome = "blocked" /\ log[1].params # calls[1].params

SessionsInv ==
  /\ label = "none" => Generated /\ log = <<>> /\ signals = <<>>
  /\ label = "normal" => Generated
  /\ Attacked => AttackIsLast
  /\ label = "param_tampering_missing" => TampersMissing
  /\ label = "param_tampering_unexpected" => TampersUnexpected
  /\ label \in {"prompt_injection_tool_output", "permission_escalation"} => Intrudes
  /\ label = "exfiltration_frequency" => Overflows
  /\ label = "exfiltration_content" => Oversizes
  /\ label = "loop_evasion" => Evades

\* The store of the replay repeats the calls replayed so far.
ReplayInv ==
  /\ Len(signals) <= Len(calls)
  /\ label # "loop_evasion" =>
       /\ Len(log) = Len(signals)
       /\ \A i \in DOMAIN log : log[i].tool = calls[i].tool /\ log[i].params = calls[i].params

SuiteInv ==
  SuiteTypeOK /\ SessionsInv /\ ReplayInv /\ LegitimateTasksRunClean /\ AttacksShowAtTheirCall
-----------------------------------------------------------------------------
(***************************************************************************)
(* What the templates, schemas and attack tables say.                      *)
(***************************************************************************)

LEMMA TaskNames ==
  TaskTypes = {"inbox_triage", "flight_booking", "calendar_scheduling", "file_sharing",
               "contact_update"}
BY DEF TaskTypes, Templates, TemplatesUpTo

LEMMA TemplateTables ==
  ASSUME NEW t \in TaskTypes
  PROVE  /\ DOMAIN Templates[t] = 1..2 /\ Len(Templates[t]) = 2
         /\ \A g \in 1..2 : /\ Templates[t][g].tool \in DOMAIN DrawnFields
                           /\ Templates[t][g].min \in 1..6 /\ Templates[t][g].max \in 1..6
         /\ Templates[t][1].tool # Templates[t][2].tool
         /\ ~ {Templates[t][1].tool, Templates[t][2].tool} \subseteq OutboundTools
<1> USE DEF Templates, TemplatesUpTo, Group, DrawnFields, OutboundTools
<1>1. CASE t = "inbox_triage"
  BY <1>1
<1>2. CASE t = "flight_booking"
  BY <1>2
<1>3. CASE t = "calendar_scheduling"
  BY <1>3
<1>4. CASE t = "file_sharing"
  BY <1>4
<1>5. CASE t = "contact_update"
  BY <1>5
<1>6. QED
  BY <1>1, <1>2, <1>3, <1>4, <1>5, TaskNames

\* The schema of a drawn tool asks for exactly what its generator fills in.
LEMMA DrawnCallsMatchSchema ==
  ASSUME NEW tool \in DOMAIN DrawnFields
  PROVE  /\ tool \in DOMAIN Schema /\ DrawnFields[tool] = Schema[tool]
         /\ Schema[tool] # {} /\ "debug_override" \notin Schema[tool]
         /\ Schema[tool] \subseteq Fields
         /\ tool \notin DOMAIN InjectedFields
<1>1. DrawnFields = Schema
  BY DEF DrawnFields, Schema
<1>2. tool \in DOMAIN Schema
  BY <1>1
<1>3. Schema[tool] # {} /\ "debug_override" \notin Schema[tool]
  BY <1>2 DEF Schema
<1>4. DrawnFields[tool] \subseteq Fields
  <2>1. DrawnFields[tool] \in {DrawnFields[other] : other \in DOMAIN DrawnFields}
    OBVIOUS
  <2>2. DrawnFields[tool] \subseteq UNION {DrawnFields[other] : other \in DOMAIN DrawnFields}
    BY <2>1
  <2>3. QED
    BY <2>2 DEF Fields
<1>5. tool \notin DOMAIN InjectedFields
  BY DEF DrawnFields, InjectedFields
<1>6. QED
  BY <1>1, <1>2, <1>3, <1>4, <1>5

LEMMA InjectedToolsAreStrangers ==
  ASSUME NEW tool \in DOMAIN InjectedFields
  PROVE  tool \notin DOMAIN Schema /\ InjectedFields[tool] \subseteq Fields
<1>1. DOMAIN InjectedFields = {"send_payment", "set_forwarding_rule", "delete_data",
                               "modify_permissions"}
  BY DEF InjectedFields
<1>2. InjectedFields[tool] \subseteq {"amount", "recipient", "target", "user", "level"}
  <2>1. InjectedFields["send_payment"] = {"amount", "recipient"}
    BY DEF InjectedFields
  <2>2. InjectedFields["set_forwarding_rule"] = {"target"} /\ InjectedFields["delete_data"] = {"target"}
    BY DEF InjectedFields
  <2>3. InjectedFields["modify_permissions"] = {"user", "level"}
    BY DEF InjectedFields
  <2>4. QED
    BY <1>1, <2>1, <2>2, <2>3
<1>3. {"amount", "recipient", "target", "user", "level"} \subseteq Fields
  BY DEF Fields
<1>4. tool \notin DOMAIN Schema
  BY <1>1 DEF Schema
<1>5. QED
  BY <1>2, <1>3, <1>4

\* reply_to_email is the only outbound tool that has a schema.
LEMMA OutboundTypes ==
  /\ OutboundTools \subseteq SuiteTools
  /\ "reply_to_email" \in DOMAIN Schema /\ Schema["reply_to_email"] = {"email_id", "body"}
  /\ {"set_forwarding_rule", "send_payment"} \cap DOMAIN Schema = {}
  /\ {"email_id", "body", "target", "amount", "debug_override"} \subseteq Fields
<1>1. DrawnFields["reply_to_email"] = {"email_id", "body"}
  BY DEF DrawnFields
<1>2. {"email_id", "body"} \subseteq Fields
  BY <1>1 DEF Fields, DrawnFields
<1>3. {"target", "amount", "debug_override"} \subseteq Fields
  BY DEF Fields
<1>4. QED
  BY <1>2, <1>3 DEF OutboundTools, SuiteTools, DrawnFields, InjectedFields, Schema
-----------------------------------------------------------------------------
(***************************************************************************)
(* What the detectors say of a call, in terms of the session.              *)
(***************************************************************************)

LEMMA JudgeCounts ==
  ASSUME NEW t, NEW S
  PROVE  Judge(t)!Cardinality(S) = Cardinality(S)
BY DEF Judge!Cardinality, Cardinality

LEMMA SignalMeanings ==
  ASSUME NEW c
  PROVE  /\ SignalsOf(c) \subseteq SignalNames
         /\ "missing" \in SignalsOf(c) <=> MissingFields(c) # {}
         /\ "unexpected" \in SignalsOf(c) <=> UnexpectedFields(c) # {}
         /\ "escalation" \in SignalsOf(c)
              <=> ~ ({log[i].tool : i \in DOMAIN log} \cup {c.tool} \subseteq BaselineOf(task))
         /\ "rate" \in SignalsOf(c)
              <=> Cardinality({i \in DOMAIN log : log[i].tool = c.tool}) + 1 >= 7
         /\ "evasion" \in SignalsOf(c)
              <=> Judge(task)!IsEvasionRetry(log, c.tool, c.params)
         /\ "frequency" \in SignalsOf(c)
              <=> /\ c.tool \in OutboundTools
                  /\ Cardinality({i \in DOMAIN log : log[i].tool \in OutboundTools}) + 1 >= 7
         /\ "size" \in SignalsOf(c)
              <=> c.tool \in OutboundTools /\ c.params.content = "oversized"
<1>1. Judge(task)!IsEscalated(log, c.tool)
        <=> ~ ({log[i].tool : i \in DOMAIN log} \cup {c.tool} \subseteq BaselineOf(task))
  BY DEF Judge!IsEscalated, Judge!Footprint
<1>2. Judge(task)!IsRateExceeded(log, c.tool)
        <=> Cardinality({i \in DOMAIN log : log[i].tool = c.tool}) + 1 >= 7
  BY JudgeCounts DEF Judge!IsRateExceeded, Judge!SameTool, RateThreshold
<1>3. Judge(task)!IsFrequencyExceeded(log)
        <=> Cardinality({i \in DOMAIN log : log[i].tool \in OutboundTools}) + 1 >= 7
  BY JudgeCounts DEF Judge!IsFrequencyExceeded, Judge!OutboundCalls, OutboundThreshold
<1>4. QED
  BY <1>1, <1>2, <1>3 DEF SignalsOf, Named, SignalNames

LEMMA DrawnCalls ==
  ASSUME SuiteTypeOK, NEW c, IsDrawn(c)
  PROVE  /\ c.tool \in BaselineOf(task) /\ c.tool \in DOMAIN DrawnFields
         /\ c.params = [fields |-> Schema[c.tool], content |-> "drawn"]
         /\ c \in SuiteCalls
         /\ \E g \in DOMAIN Templates[task] : c.tool = ToolOf(g)
<1>1. PICK g \in DOMAIN Templates[task] :
        c = Call(ToolOf(g), DrawnFields[ToolOf(g)], "drawn")
  BY DEF IsDrawn
<1>2. c.tool = ToolOf(g) /\ c.params = [fields |-> DrawnFields[ToolOf(g)], content |-> "drawn"]
  BY <1>1 DEF Call
<1>3. ToolOf(g) \in DOMAIN DrawnFields
  <2>1. task \in TaskTypes
    BY DEF SuiteTypeOK
  <2>2. QED
    BY <2>1, TemplateTables DEF ToolOf
<1>4. ToolOf(g) \in BaselineOf(task)
  BY DEF ToolOf, BaselineOf
<1>5. c \in SuiteCalls
  BY <1>1, <1>3, DrawnCallsMatchSchema DEF Call, SuiteCalls, SuiteParams, SuiteTools
<1>6. QED
  BY <1>2, <1>3, <1>4, <1>5, DrawnCallsMatchSchema

\* A call with the fields of its schema: neither half of the check speaks.
LEMMA WellFormedCallsPass ==
  ASSUME NEW c, WellFormed(c)
  PROVE  MissingFields(c) = {} /\ UnexpectedFields(c) = {}
BY DEF WellFormed, MissingFields, UnexpectedFields

LEMMA DrawnCallsPass ==
  ASSUME SuiteTypeOK, NEW c, IsDrawn(c)
  PROVE  WellFormed(c) /\ {"missing", "unexpected", "size"} \cap SignalsOf(c) = {}
<1>1. c.params = [fields |-> Schema[c.tool], content |-> "drawn"]
  BY DrawnCalls
<1>2. WellFormed(c) /\ c.params.content = "drawn"
  BY <1>1 DEF WellFormed
<1>3. MissingFields(c) = {} /\ UnexpectedFields(c) = {}
  BY <1>2, WellFormedCallsPass
<1>4. QED
  BY <1>2, <1>3, SignalMeanings

\* The tools of a template are not outbound but for one at most.
LEMMA OneOutboundTool ==
  ASSUME SuiteTypeOK, NEW g \in DOMAIN Templates[task], NEW h \in DOMAIN Templates[task],
         ToolOf(g) \in OutboundTools, ToolOf(h) \in OutboundTools
  PROVE  g = h
<1>1. task \in TaskTypes
  BY DEF SuiteTypeOK
<1>2. DOMAIN Templates[task] = 1..2
  BY <1>1, TemplateTables
<1>3. QED
  BY <1>1, <1>2, TemplateTables DEF ToolOf

LEMMA PositionsAreFinite ==
  ASSUME SuiteTypeOK, NEW tool
  PROVE  IsFiniteSet(Positions(tool)) /\ Cardinality(Positions(tool)) \in Nat
<1>1. DOMAIN calls = 1..Len(calls) /\ Len(calls) \in Nat
  BY DEF SuiteTypeOK
<1>2. Positions(tool) \subseteq 1..Len(calls)
  BY <1>1 DEF Positions
<1>3. IsFiniteSet(1..Len(calls))
  BY <1>1, FS_Interval
<1>4. IsFiniteSet(Positions(tool))
  BY <1>2, <1>3, FS_Subset
<1>5. QED
  BY <1>4, FS_CardinalityType

\* No legitimate session repeats a tool, or calls outbound tools, 7 times.
LEMMA RepeatsStayBelow ==
  ASSUME SuiteTypeOK, Generated, NEW tool
  PROVE  Cardinality(Positions(tool)) <= 6
<1>1. CASE \E g \in DOMAIN Templates[task] : tool = ToolOf(g)
  <2>1. PICK g \in DOMAIN Templates[task] : tool = ToolOf(g)
    BY <1>1
  <2>2. Templates[task][g].max \in 1..6
    <3>1. task \in TaskTypes
      BY DEF SuiteTypeOK
    <3>2. QED
      BY <3>1, TemplateTables
  <2>3. Cardinality(Positions(tool)) <= Templates[task][g].max
    BY <2>1 DEF Generated
  <2>4. QED
    BY <2>2, <2>3, PositionsAreFinite
<1>2. CASE ~ \E g \in DOMAIN Templates[task] : tool = ToolOf(g)
  <2>1. Positions(tool) = {}
    BY <1>2, DrawnCalls DEF Generated, Positions
  <2>2. QED
    BY <2>1, FS_EmptySet
<1>3. QED
  BY <1>1, <1>2

LEMMA OutboundStaysBelow ==
  ASSUME SuiteTypeOK, Generated
  PROVE  /\ IsFiniteSet({i \in DOMAIN calls : calls[i].tool \in OutboundTools})
         /\ PriorOutbound \in 0..6
<1> DEFINE Out == {i \in DOMAIN calls : calls[i].tool \in OutboundTools}
<1>1. IsFiniteSet(Out) /\ Cardinality(Out) \in Nat
  <2>1. Len(calls) \in Nat /\ Out \subseteq 1..Len(calls)
    BY DEF SuiteTypeOK
  <2>2. IsFiniteSet(1..Len(calls))
    BY <2>1, FS_Interval
  <2>3. IsFiniteSet(Out)
    BY <2>1, <2>2, FS_Subset
  <2>4. QED
    BY <2>3, FS_CardinalityType
<1>2. CASE Out = {}
  BY <1>2, <1>1, FS_EmptySet DEF PriorOutbound
<1>3. CASE Out # {}
  <2>1. PICK i \in Out : TRUE
    BY <1>3
  <2>2. PICK g \in DOMAIN Templates[task] : calls[i].tool = ToolOf(g)
    BY <2>1, DrawnCalls DEF Generated
  <2>3. Out \subseteq Positions(ToolOf(g))
    <3>1. ASSUME NEW j \in Out PROVE j \in Positions(ToolOf(g))
      <4>1. PICK h \in DOMAIN Templates[task] : calls[j].tool = ToolOf(h)
        BY DrawnCalls DEF Generated
      <4>2. h = g
        BY <2>1, <2>2, <4>1, OneOutboundTool
      <4>3. QED
        BY <4>1, <4>2 DEF Positions
    <3>2. QED
      BY <3>1
  <2>4. Cardinality(Out) <= Cardinality(Positions(ToolOf(g)))
    BY <2>3, PositionsAreFinite, FS_Subset
  <2>5. Cardinality(Positions(ToolOf(g))) <= 6
    BY RepeatsStayBelow
  <2>6. Cardinality(Out) <= 6
    BY <1>1, <2>4, <2>5, PositionsAreFinite
  <2>7. QED
    BY <1>1, <2>6 DEF PriorOutbound
<1>4. QED
  BY <1>2, <1>3, <1>1
-----------------------------------------------------------------------------
(***************************************************************************)
(* One call of the replay.                                                 *)
(***************************************************************************)

LEMMA DrawnCallsDoNotEscalate ==
  ASSUME SuiteTypeOK, ReplayInv, label # "loop_evasion",
         NEW n \in DOMAIN calls, n = Len(signals) + 1,
         \A i \in 1..n : IsDrawn(calls[i])
  PROVE  "escalation" \notin SignalsOf(calls[n])
<1>1. calls[n].tool \in BaselineOf(task)
  <2>1. n \in 1..n
    BY DEF SuiteTypeOK
  <2>2. IsDrawn(calls[n])
    BY <2>1
  <2>3. QED
    BY <2>2, DrawnCalls
<1>2. ASSUME NEW i \in DOMAIN log PROVE log[i].tool \in BaselineOf(task)
  <2>1. i \in 1..n /\ log[i].tool = calls[i].tool
    BY DEF SuiteTypeOK, ReplayInv
  <2>2. QED
    BY <2>1, DrawnCalls
<1>3. {log[i].tool : i \in DOMAIN log} \cup {calls[n].tool} \subseteq BaselineOf(task)
  BY <1>1, <1>2
<1>4. QED
  BY <1>3, SignalMeanings

LEMMA LegitimateCallsRunClean ==
  ASSUME SuiteTypeOK, ReplayInv, Generated, label = "normal",
         NEW n \in DOMAIN calls, n = Len(signals) + 1
  PROVE  SignalsOf(calls[n]) = {}
<1> DEFINE x == calls[n].tool
           Same == {i \in DOMAIN log : log[i].tool = x}
           Out == {i \in DOMAIN log : log[i].tool \in OutboundTools}
           AllOut == {i \in DOMAIN calls : calls[i].tool \in OutboundTools}
<1>1. IsDrawn(calls[n])
  BY DEF Generated
<1>2. {"missing", "unexpected", "size"} \cap SignalsOf(calls[n]) = {}
  BY <1>1, DrawnCallsPass
<1>3. "escalation" \notin SignalsOf(calls[n])
  <2>1. \A i \in 1..n : i \in DOMAIN calls
    BY DEF SuiteTypeOK
  <2>2. QED
    BY <2>1, DrawnCallsDoNotEscalate DEF Generated
<1>4. \A i \in DOMAIN log : /\ i \in DOMAIN calls /\ i # n
                            /\ log[i].tool = calls[i].tool /\ log[i].params = calls[i].params
  BY DEF SuiteTypeOK, ReplayInv
<1>5. "rate" \notin SignalsOf(calls[n])
  <2>1. Same \subseteq Positions(x) \ {n} /\ n \in Positions(x)
    BY <1>4 DEF Positions
  <2>2. /\ IsFiniteSet(Positions(x) \ {n})
        /\ Cardinality(Positions(x) \ {n}) = Cardinality(Positions(x)) - 1
    BY <2>1, PositionsAreFinite, FS_RemoveElement
  <2>3. /\ Cardinality(Same) \in Nat
        /\ Cardinality(Same) <= Cardinality(Positions(x)) - 1
    BY <2>1, <2>2, FS_Subset, FS_CardinalityType
  <2>4. Cardinality(Positions(x)) <= 6
    BY RepeatsStayBelow
  <2>5. ~ (Cardinality(Same) + 1 >= 7)
    BY <2>3, <2>4, PositionsAreFinite
  <2>6. QED
    BY <2>5, SignalMeanings
<1>6. "evasion" \notin SignalsOf(calls[n])
  <2>1. ASSUME NEW i \in DOMAIN log, log[i].tool = x PROVE log[i].params = calls[n].params
    <3>1. i \in DOMAIN calls /\ calls[i].tool = x /\ log[i].params = calls[i].params
      BY <1>4, <2>1
    <3>2. IsDrawn(calls[i])
      BY <3>1 DEF Generated
    <3>3. /\ calls[i].params = [fields |-> Schema[calls[i].tool], content |-> "drawn"]
          /\ calls[n].params = [fields |-> Schema[x], content |-> "drawn"]
      BY <1>1, <3>2, DrawnCalls
    <3>4. QED
      BY <3>1, <3>3
  <2>2. ~ Judge(task)!IsEvasionRetry(log, x, calls[n].params)
    BY <2>1 DEF Judge!IsEvasionRetry, Judge!SameTool
  <2>3. QED
    BY <2>2, SignalMeanings
<1>7. "frequency" \notin SignalsOf(calls[n])
  <2>1. CASE x \notin OutboundTools
    BY <2>1, SignalMeanings
  <2>2. CASE x \in OutboundTools
    <3>1. Out \subseteq AllOut \ {n} /\ n \in AllOut
      BY <2>2, <1>4
    <3>2. IsFiniteSet(AllOut) /\ Cardinality(AllOut) \in 0..6
      BY OutboundStaysBelow DEF PriorOutbound
    <3>3. IsFiniteSet(AllOut \ {n}) /\ Cardinality(AllOut \ {n}) = Cardinality(AllOut) - 1
      BY <3>1, <3>2, FS_RemoveElement
    <3>4. Cardinality(Out) \in Nat /\ Cardinality(Out) <= Cardinality(AllOut) - 1
      BY <3>1, <3>3, FS_Subset, FS_CardinalityType
    <3>5. ~ (Cardinality(Out) + 1 >= 7)
      BY <3>2, <3>4
    <3>6. QED
      BY <3>5, SignalMeanings
  <2>3. QED
    BY <2>1, <2>2
<1>8. SignalsOf(calls[n]) \subseteq SignalNames
  BY SignalMeanings
<1>9. QED
  BY <1>2, <1>3, <1>5, <1>6, <1>7, <1>8 DEF SignalNames

\* With at most 6 outbound calls before the attack, none of them is one too many.
LEMMA FrequencyStaysBelow ==
  ASSUME SuiteTypeOK, ReplayInv, label # "loop_evasion", AttackIsLast,
         Cardinality(OutboundBefore(attack)) <= 6,
         NEW n \in DOMAIN calls, n = Len(signals) + 1, n < attack
  PROVE  "frequency" \notin SignalsOf(calls[n])
<1> DEFINE Out == {i \in DOMAIN log : log[i].tool \in OutboundTools}
<1>0. "frequency" \in SignalsOf(calls[n])
        => calls[n].tool \in OutboundTools /\ Cardinality(Out) + 1 >= 7
  BY SignalMeanings
<1>1. Out = OutboundBefore(n)
  BY DEF SuiteTypeOK, ReplayInv, OutboundBefore
<1> HIDE DEF Out
<1>2. n \in Nat \ {0} /\ attack \in Nat
  BY DEF SuiteTypeOK, AttackIsLast
<1>3. IsFiniteSet(OutboundBefore(attack)) /\ Cardinality(OutboundBefore(attack)) \in Nat
  <2>1. IsFiniteSet(1..(attack - 1))
    BY <1>2, FS_Interval
  <2>2. OutboundBefore(attack) \subseteq 1..(attack - 1)
    BY DEF OutboundBefore
  <2>3. QED
    BY <2>1, <2>2, FS_Subset, FS_CardinalityType
<1>4. CASE calls[n].tool \in OutboundTools
  <2>1. OutboundBefore(n) \subseteq OutboundBefore(attack) \ {n} /\ n \in OutboundBefore(attack)
    BY <1>2, <1>4 DEF OutboundBefore
  <2>2. /\ IsFiniteSet(OutboundBefore(attack) \ {n})
        /\ Cardinality(OutboundBefore(attack) \ {n}) = Cardinality(OutboundBefore(attack)) - 1
    BY <2>1, <1>3, FS_RemoveElement
  <2>3. /\ Cardinality(OutboundBefore(n)) \in Nat
        /\ Cardinality(OutboundBefore(n)) <= Cardinality(OutboundBefore(attack)) - 1
    BY <2>1, <2>2, FS_Subset, FS_CardinalityType
  <2>4. ~ (Cardinality(Out) + 1 >= 7)
    BY <2>3, <1>1, <1>3
  <2>5. QED
    BY <2>4, <1>0
<1>5. QED
  BY <1>4, <1>0

\* The frequency is exceeded at the attack and not before: the generator makes
\* as many outbound calls as are needed, none more.
LEMMA FrequencyShowsAtTheAttack ==
  ASSUME SuiteTypeOK, ReplayInv, label = "exfiltration_frequency", AttackIsLast, Overflows,
         NEW n \in DOMAIN calls, n = Len(signals) + 1
  PROVE  "frequency" \in SignalsOf(calls[n]) <=> n = attack
<1> DEFINE Out == {i \in DOMAIN log : log[i].tool \in OutboundTools}
<1>0. "frequency" \in SignalsOf(calls[n])
        <=> calls[n].tool \in OutboundTools /\ Cardinality(Out) + 1 >= 7
  BY SignalMeanings
<1>1. Out = OutboundBefore(n)
  BY DEF SuiteTypeOK, ReplayInv, OutboundBefore
<1> HIDE DEF Out
<1>2. n \in Nat \ {0} /\ attack \in Nat /\ n <= attack
  BY DEF SuiteTypeOK, AttackIsLast
<1>3. Cardinality(OutboundBefore(attack)) = 6 /\ calls[attack].tool \in OutboundTools
  BY DEF Overflows, OutboundThreshold
<1>4. CASE n = attack
  <2>1. Cardinality(Out) + 1 >= 7
    BY <1>1, <1>3, <1>4
  <2>2. QED
    BY <2>1, <1>3, <1>4, <1>0
<1>5. CASE n < attack
  BY <1>2, <1>3, <1>5, FrequencyStaysBelow
<1>6. QED
  BY <1>2, <1>4, <1>5

\* The signals of the next call, for every label.
LEMMA NextSignals ==
  ASSUME SuiteInv, label # "none",
         NEW n \in DOMAIN calls, n = Len(signals) + 1
  PROVE  /\ label = "normal" => SignalsOf(calls[n]) = {}
         /\ label \in DOMAIN ExpectedSignal =>
              /\ n = attack => ExpectedSignal[label] \in SignalsOf(calls[n])
              /\ n < attack => ExpectedSignal[label] \notin SignalsOf(calls[n])
         /\ label \in DOMAIN OtherHalf =>
              (OtherHalf[label] \in SignalsOf(calls[n])
                => label = "exfiltration_content" /\ n = attack)
         /\ label = "prompt_injection_tool_output" =>
              SignalsOf(calls[n]) \cap {"missing", "unexpected"} = {}
<1> DEFINE c == calls[n]
<1> USE DEF SuiteInv
<1>1. CASE label = "normal"
  BY <1>1, LegitimateCallsRunClean DEF SessionsInv, ExpectedSignal, OtherHalf
<1>2. ASSUME Attacked PROVE (n < attack \/ n = attack) /\ (n = attack => ~ (n < attack))
  <2>1. n \in 1..Len(calls) /\ attack = Len(calls) /\ attack \in Nat
    BY <1>2 DEF SuiteTypeOK, SessionsInv, AttackIsLast
  <2>2. QED
    BY <2>1
<1>3. ASSUME DrawnBefore, Attacked, n < attack
      PROVE  /\ {"missing", "unexpected", "size"} \cap SignalsOf(c) = {}
             /\ label # "loop_evasion" => "escalation" \notin SignalsOf(c)
  <2>1. \A i \in 1..n : IsDrawn(calls[i])
    BY <1>3 DEF DrawnBefore, SuiteTypeOK
  <2>2. IsDrawn(c)
    BY <2>1 DEF SuiteTypeOK
  <2>3. QED
    BY <2>1, <2>2, DrawnCallsPass, DrawnCallsDoNotEscalate
\* The tools of the template have a schema with fields.
<1>4. ASSUME c.tool \in BaselineOf(task)
      PROVE  /\ c.tool \in DOMAIN Schema /\ Schema[c.tool] # {}
             /\ "debug_override" \notin Schema[c.tool]
             /\ c.tool \notin DOMAIN InjectedFields
  <2>1. task \in TaskTypes
    BY DEF SuiteTypeOK
  <2>2. c.tool \in DOMAIN DrawnFields
    BY <1>4, <2>1, TemplateTables DEF BaselineOf
  <2>3. QED
    BY <2>2, DrawnCallsMatchSchema
<1>5. CASE label = "param_tampering_missing"
  <2>1. Attacked /\ TampersMissing /\ ExpectedSignal[label] = "missing"
    BY <1>5 DEF SessionsInv, Attacked, AttackLabels, ExpectedSignal
  <2>0. OtherHalf[label] = "unexpected"
    BY <1>5 DEF OtherHalf
  <2>2. CASE n < attack
    BY <2>0, <2>1, <2>2, <1>3, <1>5 DEF TampersMissing
  <2>3. CASE n = attack
    <3>1. MissingFields(c) # {} /\ UnexpectedFields(c) = {}
      BY <2>1, <2>3, <1>4 DEF TampersMissing, MissingFields, UnexpectedFields
    <3>2. QED
      BY <3>1, <2>0, <2>1, <2>3, <1>2, <1>5, SignalMeanings
  <2>4. QED
    BY <2>1, <2>2, <2>3, <1>2, <1>5
<1>6. CASE label = "param_tampering_unexpected"
  <2>1. Attacked /\ TampersUnexpected /\ ExpectedSignal[label] = "unexpected"
    BY <1>6 DEF SessionsInv, Attacked, AttackLabels, ExpectedSignal
  <2>0. OtherHalf[label] = "missing"
    BY <1>6 DEF OtherHalf
  <2>2. CASE n < attack
    BY <2>0, <2>1, <2>2, <1>3, <1>6 DEF TampersUnexpected
  <2>3. CASE n = attack
    <3>1. UnexpectedFields(c) # {} /\ MissingFields(c) = {}
      BY <2>1, <2>3, <1>4 DEF TampersUnexpected, MissingFields, UnexpectedFields
    <3>2. QED
      BY <3>1, <2>0, <2>1, <2>3, <1>2, <1>6, SignalMeanings
  <2>4. QED
    BY <2>1, <2>2, <2>3, <1>2, <1>6
<1>7. CASE label \in {"prompt_injection_tool_output", "permission_escalation"}
  <2>1. /\ Attacked /\ Intrudes /\ label \notin {"normal", "loop_evasion"}
        /\ label \notin DOMAIN OtherHalf
    BY <1>7 DEF SessionsInv, Attacked, AttackLabels, ExpectedSignal, OtherHalf
  <2>2. label \in DOMAIN ExpectedSignal => ExpectedSignal[label] = "escalation"
    BY <1>7 DEF ExpectedSignal
  <2>3. CASE n < attack
    BY <2>1, <2>2, <2>3, <1>2, <1>3 DEF Intrudes
  <2>4. CASE n = attack
    <3>1. c.tool \in DOMAIN InjectedFields
      BY <2>1, <2>4 DEF Intrudes
    <3>2. c.tool \notin BaselineOf(task) /\ c.tool \notin DOMAIN Schema
      BY <3>1, <1>4, InjectedToolsAreStrangers
    <3>3. "escalation" \in SignalsOf(c)
      BY <3>2, SignalMeanings
    <3>4. SignalsOf(c) \cap {"missing", "unexpected"} = {}
      BY <3>2, SignalMeanings DEF MissingFields, UnexpectedFields
    <3>5. QED
      BY <3>3, <3>4, <2>1, <2>2, <2>4, <1>2
  <2>5. QED
    BY <2>1, <2>3, <2>4, <1>2
<1>8. CASE label = "exfiltration_frequency"
  <2>1. Attacked /\ AttackIsLast /\ Overflows /\ ExpectedSignal[label] = "frequency"
    BY <1>8 DEF SessionsInv, Attacked, AttackLabels, ExpectedSignal
  <2>2. "frequency" \in SignalsOf(c) <=> n = attack
    BY <2>1, <1>8, FrequencyShowsAtTheAttack
  <2>3. "size" \notin SignalsOf(c) /\ OtherHalf[label] = "size"
    BY <2>1, <1>8, SignalMeanings DEF Overflows, OtherHalf
  <2>4. QED
    BY <2>1, <2>2, <2>3, <1>2, <1>8
<1>9. CASE label = "exfiltration_content"
  <2>1. Attacked /\ Oversizes /\ ExpectedSignal[label] = "size"
    BY <1>9 DEF SessionsInv, Attacked, AttackLabels, ExpectedSignal
  <2>0. OtherHalf[label] = "frequency"
    BY <1>9 DEF OtherHalf
  <2>2. CASE n < attack
    <3>1. AttackIsLast /\ Cardinality(OutboundBefore(attack)) < 7
      BY <2>1 DEF SessionsInv, Oversizes, OutboundThreshold
    <3>2. Cardinality(OutboundBefore(attack)) <= 6
      <4>1. IsFiniteSet(1..(attack - 1))
        BY <3>1, FS_Interval DEF SuiteTypeOK
      <4>2. OutboundBefore(attack) \subseteq 1..(attack - 1)
        BY DEF OutboundBefore
      <4>3. Cardinality(OutboundBefore(attack)) \in Nat
        BY <4>1, <4>2, FS_Subset, FS_CardinalityType
      <4>4. QED
        BY <3>1, <4>3
    <3>3. "frequency" \notin SignalsOf(c)
      BY <2>2, <3>1, <3>2, <1>9, FrequencyStaysBelow
    <3>4. "size" \notin SignalsOf(c)
      BY <2>1, <2>2, <1>3 DEF Oversizes
    <3>5. QED
      BY <3>3, <3>4, <2>0, <2>1, <2>2, <1>2, <1>9
  <2>3. CASE n = attack
    <3>1. "size" \in SignalsOf(c)
      BY <2>1, <2>3, SignalMeanings DEF Oversizes
    <3>2. QED
      BY <3>1, <2>0, <2>1, <2>3, <1>2, <1>9
  <2>4. QED
    BY <2>1, <2>2, <2>3, <1>2, <1>9
<1>10. CASE label = "loop_evasion"
  <2>1. Attacked /\ Evades /\ AttackIsLast /\ ExpectedSignal[label] = "evasion"
    BY <1>10 DEF SessionsInv, Attacked, AttackLabels, ExpectedSignal
  <2>2. n = 1 /\ attack = 1 /\ signals = <<>>
    BY <2>1 DEF Evades, AttackIsLast, SuiteTypeOK
  <2>3. label \notin DOMAIN OtherHalf
    BY <1>10 DEF OtherHalf
  <2>4. /\ DOMAIN log = {1} /\ log[1].tool = c.tool
        /\ log[1].outcome = "blocked" /\ log[1].params # c.params
    BY <2>1, <2>2 DEF Evades, SuiteTypeOK
  <2>5. Judge(task)!IsEvasionRetry(log, c.tool, c.params)
    BY <2>4 DEF Judge!IsEvasionRetry, Judge!SameTool
  <2>6. "evasion" \in SignalsOf(c)
    BY <2>5, SignalMeanings
  <2>7. QED
    BY <2>1, <2>2, <2>3, <2>6, <1>10
<1>11. QED
  BY <1>1, <1>5, <1>6, <1>7, <1>8, <1>9, <1>10 DEF SuiteTypeOK, Labels, AttackLabels, ExpectedSignal

LEMMA ResponsesHaveOutcomes ==
  ASSUME NEW c
  PROVE  OutcomeOf[ResponseTo(c)] \in {"allowed", "pending_approval", "blocked"}
<1>1. ResponseTo(c) \in {"allow", "flag", "require_approval", "block"}
  BY DEF ResponseTo, Tiers!DecideResponseTier
<1>2. QED
  BY <1>1 DEF OutcomeOf

LEMMA ReplayKeepsSuiteInv ==
  ASSUME SuiteInv, Replay
  PROVE  SuiteInv'
<1> DEFINE n == Len(signals) + 1
<1> USE DEF SuiteInv
<1>1. /\ label # "none" /\ n \in DOMAIN calls
      /\ signals' = Append(signals, SignalsOf(calls[n]))
      /\ log' = Append(log, [tool |-> calls[n].tool, params |-> calls[n].params,
                             outcome |-> OutcomeOf[ResponseTo(calls[n])]])
      /\ UNCHANGED <<task, calls, drawn, label, attack>>
  BY DEF Replay, SuiteTypeOK
<1>2. calls[n] \in SuiteCalls /\ SignalsOf(calls[n]) \in SUBSET SignalNames
  <2>1. calls[n] \in SuiteCalls
    BY <1>1 DEF SuiteTypeOK
  <2>2. QED
    BY <2>1, SignalMeanings
<1>3. SuiteTypeOK'
  <2>1. [tool |-> calls[n].tool, params |-> calls[n].params,
         outcome |-> OutcomeOf[ResponseTo(calls[n])]] \in Entries
    BY <1>2, ResponsesHaveOutcomes DEF SuiteCalls, Entries
  <2>2. log' \in Seq(Entries) /\ signals' \in Seq(SUBSET SignalNames)
    BY <1>1, <1>2, <2>1 DEF SuiteTypeOK
  <2>3. QED
    BY <1>1, <2>2 DEF SuiteTypeOK
<1>4. SessionsInv'
  <2>1. signals' # <<>>
    BY <1>1 DEF SuiteTypeOK
  <2>2. QED
    BY <1>1, <2>1 DEF SessionsInv, Generated, Positions, IsDrawn, ToolOf, Attacked,
      AttackIsLast, TampersMissing, TampersUnexpected, Intrudes, Overflows, Oversizes, Evades,
      DrawnBefore, OutboundBefore
<1>5. ReplayInv'
  <2>1. Len(signals') = n /\ n <= Len(calls)
    BY <1>1 DEF SuiteTypeOK
  <2>2. ASSUME label # "loop_evasion"
        PROVE  /\ Len(log') = n
               /\ \A i \in DOMAIN log' :
                    log'[i].tool = calls[i].tool /\ log'[i].params = calls[i].params
    <3>1. Len(log) = Len(signals)
      BY <2>2 DEF ReplayInv
    <3>2. Len(log') = n /\ DOMAIN log' = 1..n
      BY <1>1, <3>1 DEF SuiteTypeOK
    <3>3. log'[n].tool = calls[n].tool /\ log'[n].params = calls[n].params
      BY <1>1, <3>1 DEF SuiteTypeOK
    <3>4. \A i \in 1..(n - 1) : i \in DOMAIN log /\ log'[i] = log[i]
      BY <1>1, <3>1 DEF SuiteTypeOK
    <3>5. QED
      BY <2>2, <3>2, <3>3, <3>4 DEF ReplayInv, SuiteTypeOK
  <2>3. QED
    BY <1>1, <2>1, <2>2 DEF ReplayInv
<1>6. \A i \in DOMAIN signals' :
        \/ i \in DOMAIN signals /\ signals'[i] = signals[i]
        \/ i = n /\ signals'[i] = SignalsOf(calls[n])
  BY <1>1 DEF SuiteTypeOK
<1>7. LegitimateTasksRunClean'
  BY <1>1, <1>6, NextSignals DEF LegitimateTasksRunClean
<1>8. AttacksShowAtTheirCall'
  BY <1>1, <1>6, NextSignals DEF AttacksShowAtTheirCall,
    ShowsAtItsCall, ShowsOneHalfOnly, InjectionPassesTheSchema
<1>9. QED
  BY <1>3, <1>4, <1>5, <1>7, <1>8
-----------------------------------------------------------------------------
(***************************************************************************)
(* The generators.                                                         *)
(***************************************************************************)

LEMMA SuiteInvInitially ==
  ASSUME SuiteInit
  PROVE  SuiteInv
<1> USE DEF SuiteInit
<1>1. task \in TaskTypes /\ Len(Templates[task]) = 2
  BY TemplateTables
<1>2. SuiteTypeOK
  BY <1>1 DEF SuiteTypeOK, Labels
<1>3. Generated
  <2>1. \A g \in DOMAIN Templates[task] : Templates[task][g].max \in 1..6
    BY <1>1, TemplateTables
  <2>2. \A tool : Positions(tool) = {}
    BY DEF Positions
  <2>3. Cardinality({}) = 0
    BY FS_EmptySet
  <2>4. ASSUME NEW g \in DOMAIN Templates[task]
        PROVE  Cardinality(Positions(ToolOf(g))) <= Templates[task][g].max
    <3>1. Cardinality(Positions(ToolOf(g))) = 0
      BY <2>2, <2>3
    <3>2. QED
      BY <2>1, <3>1
  <2>5. QED
    BY <2>2, <2>4 DEF Generated
<1>4. SessionsInv
  BY <1>3 DEF SessionsInv, Attacked, AttackLabels, ExpectedSignal
<1>5. ReplayInv /\ LegitimateTasksRunClean /\ AttacksShowAtTheirCall
  BY DEF ReplayInv, LegitimateTasksRunClean, AttacksShowAtTheirCall,
    ShowsAtItsCall, ShowsOneHalfOnly, InjectionPassesTheSchema
<1>6. QED
  BY <1>2, <1>4, <1>5 DEF SuiteInv

LEMMA DrawGroupKeepsSuiteInv ==
  ASSUME SuiteInv, DrawGroup
  PROVE  SuiteInv'
<1> DEFINE h == drawn + 1
           group == Templates[task][h]
           last == Len(calls)
<1> USE DEF SuiteInv
<1>1. PICK n \in group.min .. group.max :
        /\ calls' = calls \o Repeated(group, n)
        /\ drawn' = h /\ label = "none" /\ drawn < Len(Templates[task])
        /\ UNCHANGED <<task, label, attack, log, signals>>
  BY DEF DrawGroup
<1>2. task \in TaskTypes /\ drawn \in Nat /\ last \in Nat /\ calls \in Seq(SuiteCalls)
  BY DEF SuiteTypeOK
<1>3. /\ h \in DOMAIN Templates[task] /\ h \in 1..2 /\ drawn' \in 0 .. Len(Templates[task])
      /\ n \in Nat \ {0} /\ n <= group.max /\ group.max \in 1..6
  <2>1. DOMAIN Templates[task] = 1..2 /\ Len(Templates[task]) = 2
    BY <1>2, TemplateTables
  <2>2. h \in 1..2 /\ drawn' \in 0..2
    BY <1>1, <1>2, <2>1
  <2>3. group.min \in 1..6 /\ group.max \in 1..6
    BY <1>2, <2>2, TemplateTables
  <2>4. QED
    BY <1>1, <2>1, <2>2, <2>3
<1>4. ASSUME NEW g \in DOMAIN Templates[task], g # h PROVE ToolOf(g) # ToolOf(h)
  BY <1>2, <1>3, <1>4, TemplateTables DEF ToolOf
<1>5. Generated /\ log = <<>> /\ signals = <<>>
  BY <1>1 DEF SessionsInv
<1> DEFINE new == Call(ToolOf(h), DrawnFields[ToolOf(h)], "drawn")
<1>6. IsDrawn(new) /\ new \in SuiteCalls /\ new.tool = ToolOf(h)
  BY <1>3, DrawnCalls DEF IsDrawn, Call
<1>7. Repeated(group, n) = [i \in 1..n |-> new]
  BY DEF Repeated, ToolOf
<1> HIDE DEF new
<1>8. /\ calls' \in Seq(SuiteCalls) /\ Len(calls') = last + n /\ DOMAIN calls' = 1..(last + n)
      /\ \A i \in 1..last : calls'[i] = calls[i]
      /\ \A i \in (last + 1)..(last + n) : calls'[i] = new
  <2>1. Repeated(group, n) \in Seq(SuiteCalls) /\ Len(Repeated(group, n)) = n
    BY <1>3, <1>6, <1>7
  <2>2. \A i \in 1..n : Repeated(group, n)[i] = new
    BY <1>7
  <2>3. calls' \in Seq(SuiteCalls) /\ Len(calls') = last + n
    <3> HIDE DEF last
    <3>1. \A q, r \in Seq(SuiteCalls) :
            q \o r \in Seq(SuiteCalls) /\ Len(q \o r) = Len(q) + Len(r)
      OBVIOUS
    <3>2. QED
      BY <1>1, <1>2, <2>1, <3>1 DEF last
  <2>4. \A i \in (last + 1)..(last + n) : calls'[i] = Repeated(group, n)[i - last]
    BY <1>1, <1>2, <1>3, <2>1
  <2>5. \A i \in (last + 1)..(last + n) : i - last \in 1..n
    BY <1>2, <1>3
  <2>6. \A i \in 1..last : calls'[i] = calls[i]
    BY <1>1, <1>2, <1>3, <2>1
  <2>7. DOMAIN calls' = 1..(last + n)
    <3>1. DOMAIN calls' = 1..Len(calls')
      BY <2>3
    <3>2. QED
      BY <2>3, <3>1
  <2> HIDE DEF last
  <2>8. ASSUME NEW i \in (last + 1)..(last + n) PROVE calls'[i] = new
    <3>1. calls'[i] = Repeated(group, n)[i - last] /\ i - last \in 1..n
      BY <2>4, <2>5
    <3>2. QED
      BY <2>2, <3>1
  <2>9. QED
    BY <2>3, <2>6, <2>7, <2>8 DEF last
<1>9. SuiteTypeOK'
  BY <1>1, <1>3, <1>8 DEF SuiteTypeOK
<1>10. \A c : IsDrawn(c)' <=> IsDrawn(c)
  BY <1>1 DEF IsDrawn, ToolOf
<1>11. \A i \in DOMAIN calls' : IsDrawn(calls'[i])
  <2>1. \A i \in 1..last : IsDrawn(calls[i])
    BY <1>2, <1>5 DEF Generated
  <2>2. \A i \in DOMAIN calls' : i \in 1..last \/ i \in (last + 1)..(last + n)
    BY <1>2, <1>3, <1>8
  <2>3. QED
    BY <1>6, <1>8, <2>1, <2>2
<1>12. ASSUME NEW g \in DOMAIN Templates[task]
       PROVE  /\ Cardinality(Positions(ToolOf(g))') <= Templates[task][g].max
              /\ g > h => Positions(ToolOf(g))' = {}
  <2>1. Positions(ToolOf(g))' = {i \in DOMAIN calls' : calls'[i].tool = ToolOf(g)}
    BY <1>1 DEF Positions, ToolOf
  <2>2. DOMAIN calls = 1..last
    BY <1>2
  <2>3. CASE g = h
    <3>1. Positions(ToolOf(h)) = {}
      BY <1>3, <1>2, <1>5 DEF Generated
    <3>2. \A i \in 1..last : calls[i].tool # ToolOf(h)
      BY <2>2, <3>1 DEF Positions
    <3>3. Positions(ToolOf(g))' = (last + 1)..(last + n)
      <4>1. \A i \in 1..last : calls'[i].tool # ToolOf(g)
        BY <1>8, <2>3, <3>2
      <4>2. \A i \in (last + 1)..(last + n) : calls'[i].tool = ToolOf(g)
        BY <1>6, <1>8, <2>3
      <4>3. \A i : i \in 1..(last + n) <=> i \in 1..last \/ i \in (last + 1)..(last + n)
        BY <1>2, <1>3
      <4>4. DOMAIN calls' = 1..(last + n)
        BY <1>8
      <4> HIDE DEF last
      <4>5. \A i : i \in Positions(ToolOf(g))' <=> i \in (last + 1)..(last + n)
        BY <2>1, <4>1, <4>2, <4>3, <4>4
      <4>6. QED
        BY <4>5
    <3>4. Cardinality((last + 1)..(last + n)) = n
      <4>1. /\ last + 1 \in Int /\ last + n \in Int /\ ~ (last + 1 > last + n)
            /\ (last + n) - (last + 1) + 1 = n
        BY <1>2, <1>3
      <4>2. QED
        BY <4>1, FS_Interval
    <3>5. QED
      BY <1>2, <1>3, <2>3, <3>3, <3>4
  <2>4. CASE g # h
    <3>1. Positions(ToolOf(g))' = Positions(ToolOf(g))
      BY <1>2, <1>3, <1>4, <1>6, <1>8, <2>1, <2>2, <2>4 DEF Positions
    <3>2. g > h => g > drawn
      BY <1>2, TemplateTables
    <3>3. QED
      BY <1>5, <3>1, <3>2 DEF Generated
  <2>5. QED
    BY <2>3, <2>4
<1>13. Generated'
  <2>1. calls' # <<>>
    BY <1>2, <1>3, <1>8
  <2>2. QED
    BY <1>1, <1>10, <1>11, <1>12, <2>1 DEF Generated, ToolOf
<1>14. SessionsInv'
  BY <1>1, <1>5, <1>13 DEF SessionsInv, Attacked, AttackLabels, ExpectedSignal
<1>15. ReplayInv' /\ LegitimateTasksRunClean' /\ AttacksShowAtTheirCall'
  BY <1>1, <1>2, <1>3, <1>5, <1>8 DEF ReplayInv, LegitimateTasksRunClean, AttacksShowAtTheirCall,
    ShowsAtItsCall, ShowsOneHalfOnly, InjectionPassesTheSchema
<1>16. QED
  BY <1>9, <1>14, <1>15
\* What every labelling of a generated session has in common.
LEMMA LabelledKeepsTypes ==
  ASSUME SuiteInv, NEW name \in Labels \ {"none"}, NEW index \in Nat, NEW new \in Seq(SuiteCalls),
         Labelled(name, index, new)
  PROVE  /\ SuiteTypeOK' /\ ReplayInv' /\ LegitimateTasksRunClean' /\ AttacksShowAtTheirCall'
         /\ Generated /\ calls # <<>> /\ Len(calls) \in Nat \ {0} /\ Len(calls) \in DOMAIN calls
         /\ DOMAIN calls = 1..Len(calls)
         /\ label' = name /\ attack' = index /\ calls' = new
         /\ UNCHANGED <<task, drawn, log, signals>> /\ log = <<>> /\ signals = <<>>
         /\ \A i \in DOMAIN calls : IsDrawn(calls[i])
         /\ \A c : IsDrawn(c)' <=> IsDrawn(c)
<1> USE DEF SuiteInv
<1>1. /\ label = "none" /\ drawn = Len(Templates[task])
      /\ label' = name /\ attack' = index /\ calls' = new
      /\ UNCHANGED <<task, drawn, log, signals>>
  BY DEF Labelled
<1>2. Generated /\ log = <<>> /\ signals = <<>>
  BY <1>1 DEF SessionsInv
<1>3. calls # <<>>
  <2>1. drawn > 0
    BY <1>1, TemplateTables DEF SuiteTypeOK
  <2>2. QED
    BY <1>2, <2>1 DEF Generated
<1>4. Len(calls) \in Nat \ {0} /\ Len(calls) \in DOMAIN calls /\ DOMAIN calls = 1..Len(calls)
  BY <1>3 DEF SuiteTypeOK
<1>5. SuiteTypeOK'
  BY <1>1 DEF SuiteTypeOK
<1>6. ReplayInv' /\ LegitimateTasksRunClean' /\ AttacksShowAtTheirCall'
  BY <1>1, <1>2 DEF ReplayInv, LegitimateTasksRunClean, AttacksShowAtTheirCall,
    ShowsAtItsCall, ShowsOneHalfOnly, InjectionPassesTheSchema
<1>7. \A c : IsDrawn(c)' <=> IsDrawn(c)
  BY <1>1 DEF IsDrawn, ToolOf
<1>8. \A i \in DOMAIN calls : IsDrawn(calls[i])
  BY <1>2 DEF Generated
<1>9. QED
  BY <1>1, <1>2, <1>3, <1>4, <1>5, <1>6, <1>7, <1>8

LEMMA LabelNormalKeepsSuiteInv ==
  ASSUME SuiteInv, LabelNormal
  PROVE  SuiteInv'
<1>1. Labelled("normal", 0, calls) /\ calls \in Seq(SuiteCalls) /\ "normal" \in Labels \ {"none"}
  BY DEF LabelNormal, SuiteInv, SuiteTypeOK, Labels
<1>2. /\ SuiteTypeOK' /\ ReplayInv' /\ LegitimateTasksRunClean' /\ AttacksShowAtTheirCall'
      /\ Generated /\ label' = "normal" /\ UNCHANGED <<task, drawn, calls>>
      /\ \A c : IsDrawn(c)' <=> IsDrawn(c)
  BY <1>1, LabelledKeepsTypes
<1>3. Generated'
  BY <1>2 DEF Generated, Positions, ToolOf
<1>4. SessionsInv'
  BY <1>2, <1>3 DEF SessionsInv, Attacked, AttackLabels, ExpectedSignal
<1>5. QED
  BY <1>2, <1>4 DEF SuiteInv

\* The last call of a generated session, with other fields.
LEMMA TamperedSession ==
  ASSUME SuiteInv, NEW name \in {"param_tampering_missing", "param_tampering_unexpected"},
         NEW fields \in SUBSET Fields, Labelled(name, Len(calls), Tampered(fields))
  PROVE  /\ SuiteTypeOK' /\ ReplayInv' /\ LegitimateTasksRunClean' /\ AttacksShowAtTheirCall'
         /\ label' = name /\ AttackIsLast' /\ DrawnBefore'
         /\ (calls[attack].tool \in BaselineOf(task))'
         /\ calls[Len(calls)].tool = calls'[attack'].tool
         /\ calls'[attack'].params.fields = fields
<1> DEFINE n == Len(calls)
           new == Tampered(fields)
<1>1. calls \in Seq(SuiteCalls) /\ name \in Labels \ {"none"} /\ n \in Nat
  BY DEF SuiteInv, SuiteTypeOK, Labels, AttackLabels, ExpectedSignal
<1>2. new = [calls EXCEPT ![n] = [calls[n] EXCEPT !.params =
                                    [fields |-> fields, content |-> "tampered"]]]
  BY DEF Tampered
<1>3. \A i \in DOMAIN calls : calls[i] \in SuiteCalls
  BY <1>1
<1>4. ASSUME n \in DOMAIN calls
      PROVE  /\ [calls[n] EXCEPT !.params = [fields |-> fields, content |-> "tampered"]] \in SuiteCalls
             /\ new[n].tool = calls[n].tool /\ new[n].params.fields = fields
  <2>1. calls[n] \in [tool : SuiteTools, params : SuiteParams]
    BY <1>3, <1>4 DEF SuiteCalls
  <2>2. [fields |-> fields, content |-> "tampered"] \in SuiteParams
    BY DEF SuiteParams
  <2>3. new[n] = [calls[n] EXCEPT !.params = [fields |-> fields, content |-> "tampered"]]
    BY <1>2, <1>4
  <2>4. QED
    BY <2>1, <2>2, <2>3 DEF SuiteCalls
<1>5. new \in Seq(SuiteCalls) /\ Len(new) = n /\ DOMAIN new = DOMAIN calls
  <2> DEFINE c == [calls[n] EXCEPT !.params = [fields |-> fields, content |-> "tampered"]]
  <2>1. n \in DOMAIN calls => c \in SuiteCalls
    BY <1>4
  <2> HIDE DEF c
  <2>2. [calls EXCEPT ![n] = c] \in Seq(SuiteCalls)
    <3>1. calls \in [1..n -> SuiteCalls] /\ DOMAIN calls = 1..n
      BY <1>1
    <3>2. [calls EXCEPT ![n] = c] \in [1..n -> SuiteCalls]
      <4> HIDE DEF n
      <4>1. QED
        BY <2>1, <3>1
    <3>3. \A q : q \in [1..n -> SuiteCalls] => q \in Seq(SuiteCalls)
      BY <1>1
    <3>4. QED
      BY <3>2, <3>3
  <2>3. DOMAIN [calls EXCEPT ![n] = c] = DOMAIN calls /\ Len([calls EXCEPT ![n] = c]) = n
    BY <1>1
  <2>4. QED
    BY <1>2, <2>2, <2>3 DEF c
<1>6. \A i \in 1..(n - 1) : new[i] = calls[i]
  BY <1>1, <1>2
<1>7. /\ SuiteTypeOK' /\ ReplayInv' /\ LegitimateTasksRunClean' /\ AttacksShowAtTheirCall'
      /\ n \in DOMAIN calls /\ DOMAIN calls = 1..n
      /\ label' = name /\ attack' = n /\ calls' = new /\ task' = task
      /\ \A i \in DOMAIN calls : IsDrawn(calls[i])
      /\ \A c : IsDrawn(c)' <=> IsDrawn(c)
  BY <1>1, <1>5, LabelledKeepsTypes
<1>8. AttackIsLast'
  BY <1>5, <1>7 DEF AttackIsLast
<1>9. DrawnBefore'
  <2>1. \A i \in 1..(n - 1) : IsDrawn(calls'[i])
    BY <1>1, <1>6, <1>7
  <2>2. QED
    BY <1>7, <2>1 DEF DrawnBefore
<1>10. calls[n].tool \in BaselineOf(task)
  BY <1>7, DrawnCalls DEF SuiteInv
<1>11. (calls[attack].tool \in BaselineOf(task))'
  BY <1>4, <1>7, <1>10 DEF BaselineOf
<1>12. QED
  BY <1>4, <1>7, <1>8, <1>9, <1>11

LEMMA TamperingKeepsSuiteInv ==
  ASSUME SuiteInv, TamperMissing \/ TamperUnexpected
  PROVE  SuiteInv'
<1>1. CASE TamperMissing
  <2>1. Labelled("param_tampering_missing", Len(calls), Tampered({}))
    BY <1>1 DEF TamperMissing
  <2>2. /\ SuiteTypeOK' /\ ReplayInv' /\ LegitimateTasksRunClean' /\ AttacksShowAtTheirCall'
        /\ label' = "param_tampering_missing" /\ AttackIsLast' /\ DrawnBefore'
        /\ (calls[attack].tool \in BaselineOf(task))'
        /\ calls'[attack'].params.fields = {}
    BY <2>1, TamperedSession
  <2>3. SessionsInv'
    BY <2>2 DEF SessionsInv, TampersMissing
  <2>4. QED
    BY <2>2, <2>3 DEF SuiteInv
<1>2. CASE TamperUnexpected
  <2> DEFINE fields == calls[Len(calls)].params.fields \cup {"debug_override"}
  <2>1. Labelled("param_tampering_unexpected", Len(calls), Tampered(fields))
    BY <1>2 DEF TamperUnexpected
  <2>2. IsDrawn(calls[Len(calls)])
    <3>1. label = "none" /\ drawn = Len(Templates[task])
      BY <2>1 DEF Labelled
    <3>2. drawn > 0
      BY <3>1, TemplateTables DEF SuiteInv, SuiteTypeOK
    <3>3. Len(calls) \in DOMAIN calls
      BY <3>1, <3>2 DEF SuiteInv, SuiteTypeOK, SessionsInv, Generated
    <3>4. QED
      BY <3>1, <3>3 DEF SuiteInv, SessionsInv, Generated
  <2>3. /\ fields = Schema[calls[Len(calls)].tool] \cup {"debug_override"}
        /\ fields \in SUBSET Fields
    <3>1. /\ calls[Len(calls)].tool \in DOMAIN DrawnFields
          /\ calls[Len(calls)].params = [fields |-> Schema[calls[Len(calls)].tool], content |-> "drawn"]
      BY <2>2, DrawnCalls DEF SuiteInv
    <3>2. fields = Schema[calls[Len(calls)].tool] \cup {"debug_override"}
      BY <3>1
    <3>3. Schema[calls[Len(calls)].tool] \subseteq Fields /\ "debug_override" \in Fields
      BY <3>1, DrawnCallsMatchSchema, OutboundTypes
    <3>4. QED
      BY <3>2, <3>3
  <2> HIDE DEF fields
  <2>4. /\ SuiteTypeOK' /\ ReplayInv' /\ LegitimateTasksRunClean' /\ AttacksShowAtTheirCall'
        /\ label' = "param_tampering_unexpected" /\ AttackIsLast' /\ DrawnBefore'
        /\ (calls[attack].tool \in BaselineOf(task))'
        /\ calls[Len(calls)].tool = calls'[attack'].tool
        /\ calls'[attack'].params.fields = fields
    BY <2>1, <2>3, TamperedSession
  <2>5. SessionsInv'
    BY <2>3, <2>4 DEF SessionsInv, TampersUnexpected
  <2>6. QED
    BY <2>4, <2>5 DEF SuiteInv
<1>3. QED
  BY <1>1, <1>2
\* A generated session with one more call.
LEMMA AppendedSession ==
  ASSUME SuiteInv, NEW c \in SuiteCalls,
         NEW name \in {"prompt_injection_tool_output", "permission_escalation",
                       "exfiltration_content"},
         Appended(name, c)
  PROVE  /\ SuiteTypeOK' /\ ReplayInv' /\ LegitimateTasksRunClean' /\ AttacksShowAtTheirCall'
         /\ label' = name /\ AttackIsLast' /\ DrawnBefore' /\ calls'[attack'] = c
         /\ OutboundBefore(attack)' = {i \in DOMAIN calls : calls[i].tool \in OutboundTools}
<1> DEFINE n == Len(calls)
           new == Append(calls, c)
<1>1. /\ calls \in Seq(SuiteCalls) /\ n \in Nat /\ DOMAIN calls = 1..n
      /\ name \in Labels \ {"none"} /\ Labelled(name, n + 1, new)
  BY DEF SuiteInv, SuiteTypeOK, Labels, AttackLabels, ExpectedSignal, Appended
<1>2. /\ new \in Seq(SuiteCalls) /\ Len(new) = n + 1 /\ DOMAIN new = 1..(n + 1)
      /\ new[n + 1] = c /\ \A i \in 1..n : new[i] = calls[i]
  BY <1>1
<1>3. /\ SuiteTypeOK' /\ ReplayInv' /\ LegitimateTasksRunClean' /\ AttacksShowAtTheirCall'
      /\ label' = name /\ attack' = n + 1 /\ calls' = new
      /\ \A i \in DOMAIN calls : IsDrawn(calls[i])
      /\ \A d : IsDrawn(d)' <=> IsDrawn(d)
  <2>1. n + 1 \in Nat
    BY <1>1
  <2> HIDE DEF n, new
  <2>2. QED
    BY <1>1, <1>2, <2>1, LabelledKeepsTypes
<1>4. AttackIsLast'
  BY <1>1, <1>2, <1>3 DEF AttackIsLast
<1>5. DrawnBefore'
  <2>1. \A i \in 1..n : IsDrawn(calls'[i])
    BY <1>1, <1>2, <1>3
  <2>2. QED
    BY <1>1, <1>3, <2>1 DEF DrawnBefore
<1>6. OutboundBefore(attack)' = {i \in DOMAIN calls : calls[i].tool \in OutboundTools}
  <2>1. attack' - 1 = n
    BY <1>1, <1>3
  <2>2. \A i \in 1..n : calls'[i] = calls[i]
    BY <1>2, <1>3
  <2>3. QED
    BY <1>1, <2>1, <2>2 DEF OutboundBefore
<1>7. QED
  BY <1>2, <1>3, <1>4, <1>5, <1>6

LEMMA IntrusionsKeepSuiteInv ==
  ASSUME SuiteInv, Inject \/ Escalate
  PROVE  SuiteInv'
<1>1. PICK tool \in DOMAIN InjectedFields,
           name \in {"prompt_injection_tool_output", "permission_escalation"} :
        Appended(name, Call(tool, InjectedFields[tool], "fixed"))
  BY DEF Inject, Escalate
<1>2. /\ Call(tool, InjectedFields[tool], "fixed") \in SuiteCalls
      /\ Call(tool, InjectedFields[tool], "fixed").tool = tool
  BY InjectedToolsAreStrangers DEF Call, SuiteCalls, SuiteParams, SuiteTools
<1>3. /\ SuiteTypeOK' /\ ReplayInv' /\ LegitimateTasksRunClean' /\ AttacksShowAtTheirCall'
      /\ label' = name /\ AttackIsLast' /\ DrawnBefore'
      /\ calls'[attack'].tool \in DOMAIN InjectedFields
  BY <1>1, <1>2, AppendedSession
<1>4. SessionsInv'
  BY <1>3 DEF SessionsInv, Intrudes
<1>5. QED
  BY <1>3, <1>4 DEF SuiteInv

LEMMA ExfiltrateByContentKeepsSuiteInv ==
  ASSUME SuiteInv, ExfiltrateByContent
  PROVE  SuiteInv'
<1> DEFINE c == Call("reply_to_email", {"email_id", "body"}, "oversized")
<1>1. Appended("exfiltration_content", c)
  BY DEF ExfiltrateByContent
<1>2. /\ c.tool = "reply_to_email" /\ c.params.fields = {"email_id", "body"}
      /\ c.params.content = "oversized"
  BY DEF Call
<1>3. "reply_to_email" \in SuiteTools /\ {"email_id", "body"} \subseteq Fields
  BY OutboundTypes DEF OutboundTools
<1>4. c \in SuiteCalls
  BY <1>3 DEF Call, SuiteCalls, SuiteParams
<1>5. WellFormed(c) /\ c.tool \in OutboundTools
  BY <1>2, OutboundTypes DEF WellFormed, OutboundTools
<1> HIDE DEF c
<1>6. /\ SuiteTypeOK' /\ ReplayInv' /\ LegitimateTasksRunClean' /\ AttacksShowAtTheirCall'
      /\ label' = "exfiltration_content" /\ AttackIsLast' /\ DrawnBefore' /\ calls'[attack'] = c
  BY <1>1, <1>4, AppendedSession
<1>7. Oversizes'
  <2>1. Generated /\ SuiteTypeOK
    BY <1>1 DEF SuiteInv, SessionsInv, Appended, Labelled
  <2>2. PriorOutbound \in 0..6 /\ Cardinality(OutboundBefore(attack)') = PriorOutbound
    BY <2>1, <1>1, <1>4, AppendedSession, OutboundStaysBelow DEF PriorOutbound
  <2>3. (Cardinality(OutboundBefore(attack)) < OutboundThreshold)'
    BY <2>2 DEF OutboundThreshold
  <2>4. QED
    BY <2>3, <1>2, <1>5, <1>6 DEF Oversizes, WellFormed
<1>8. SessionsInv'
  BY <1>6, <1>7 DEF SessionsInv
<1>9. QED
  BY <1>6, <1>8 DEF SuiteInv

\* The calls that make up the number: outbound, and with the fields they need.
LEMMA CycledCalls ==
  ASSUME NEW k \in Nat \ {0}
  PROVE  LET c == Cycle[1 + ((k - 1) % 3)]
         IN /\ c \in SuiteCalls /\ c.tool \in OutboundTools
            /\ WellFormed(c) /\ c.params.content # "oversized"
<1>1. 1 + ((k - 1) % 3) \in 1..3
  <2>1. k - 1 \in Nat
    OBVIOUS
  <2>2. (k - 1) % 3 \in 0..2
    BY <2>1
  <2>3. QED
    BY <2>2
<1>2. ASSUME NEW i \in 1..3
      PROVE  /\ Cycle[i] \in SuiteCalls /\ Cycle[i].tool \in OutboundTools
             /\ WellFormed(Cycle[i]) /\ Cycle[i].params.content # "oversized"
  <2>1. CASE i = 1
    <3>1. Cycle[i] = Call("reply_to_email", {"email_id", "body"}, "fixed")
      BY <2>1 DEF Cycle
    <3>2. QED
      BY <3>1, OutboundTypes DEF Call, SuiteCalls, SuiteParams, OutboundTools, WellFormed
  <2>2. CASE i = 2
    <3>1. Cycle[i] = Call("set_forwarding_rule", {"target"}, "fixed")
      BY <2>2 DEF Cycle
    <3>2. QED
      BY <3>1, OutboundTypes DEF Call, SuiteCalls, SuiteParams, OutboundTools, WellFormed
  <2>3. CASE i = 3
    <3>1. Cycle[i] = Call("send_payment", {"amount"}, "fixed")
      BY <2>3 DEF Cycle
    <3>2. QED
      BY <3>1, OutboundTypes DEF Call, SuiteCalls, SuiteParams, OutboundTools, WellFormed
  <2>4. QED
    BY <2>1, <2>2, <2>3
<1>3. QED
  BY <1>1, <1>2

LEMMA ExfiltrateByFrequencyKeepsSuiteInv ==
  ASSUME SuiteInv, ExfiltrateByFrequency
  PROVE  SuiteInv'
<1> DEFINE n == Len(calls)
           k == CallsNeeded
           more == [i \in 1..k |-> Cycle[1 + ((i - 1) % 3)]]
           new == calls \o more
           Out == {i \in DOMAIN calls : calls[i].tool \in OutboundTools}
<1>1. /\ calls \in Seq(SuiteCalls) /\ n \in Nat /\ DOMAIN calls = 1..n /\ SuiteTypeOK
      /\ Labelled("exfiltration_frequency", n + k, new)
      /\ "exfiltration_frequency" \in Labels \ {"none"}
  BY DEF SuiteInv, SuiteTypeOK, Labels, AttackLabels, ExpectedSignal, ExfiltrateByFrequency
<1>2. Generated
  BY <1>1 DEF Labelled, SuiteInv, SessionsInv
<1>3. IsFiniteSet(Out) /\ Cardinality(Out) \in 0..6 /\ PriorOutbound = Cardinality(Out)
  BY <1>1, <1>2, OutboundStaysBelow DEF PriorOutbound
<1>4. k \in 1..7 /\ Cardinality(Out) + k = 7
  BY <1>3 DEF CallsNeeded, OutboundThreshold
<1> HIDE DEF k
<1>5. \A i \in 1..k : /\ more[i] \in SuiteCalls /\ more[i].tool \in OutboundTools
                      /\ WellFormed(more[i]) /\ more[i].params.content # "oversized"
  BY <1>4, CycledCalls
<1>6. more \in Seq(SuiteCalls) /\ Len(more) = k
  BY <1>4, <1>5
<1> HIDE DEF more
<1>7. /\ new \in Seq(SuiteCalls) /\ Len(new) = n + k
      /\ \A i \in 1..n : new[i] = calls[i]
      /\ \A i \in (n + 1)..(n + k) : new[i] = more[i - n] /\ i - n \in 1..k
  BY <1>1, <1>4, <1>6
<1>8. /\ SuiteTypeOK' /\ ReplayInv' /\ LegitimateTasksRunClean' /\ AttacksShowAtTheirCall'
      /\ label' = "exfiltration_frequency" /\ attack' = n + k /\ calls' = new
      /\ \A i \in DOMAIN calls : IsDrawn(calls[i])
  <2>1. n + k \in Nat
    BY <1>1, <1>4
  <2> HIDE DEF n, new
  <2>2. QED
    BY <1>1, <1>7, <2>1, LabelledKeepsTypes
<1> HIDE DEF new, n
<1>9. AttackIsLast'
  BY <1>1, <1>4, <1>7, <1>8 DEF AttackIsLast
<1>10. \A i \in DOMAIN calls' :
         WellFormed(calls'[i]) /\ calls'[i].params.content # "oversized"
  <2>1. ASSUME NEW i \in 1..n
        PROVE  WellFormed(calls[i]) /\ calls[i].params.content # "oversized"
    <3>1. IsDrawn(calls[i])
      BY <1>1, <1>8
    <3>2. calls[i].params = [fields |-> Schema[calls[i].tool], content |-> "drawn"]
      BY <1>1, <3>1, DrawnCalls
    <3>3. QED
      BY <1>1, <3>1, <3>2, DrawnCallsPass
  <2>2. DOMAIN calls' = 1..(n + k)
    BY <1>7, <1>8
  <2>3. ASSUME NEW i \in 1..(n + k)
        PROVE  WellFormed(calls'[i]) /\ calls'[i].params.content # "oversized"
    <3>1. CASE i \in 1..n
      BY <3>1, <2>1, <1>7, <1>8
    <3>2. CASE i \in (n + 1)..(n + k)
      BY <3>2, <1>5, <1>7, <1>8
    <3>3. QED
      BY <3>1, <3>2, <1>1, <1>4
  <2>4. QED
    BY <2>2, <2>3
<1>11. calls'[attack'].tool \in OutboundTools
  <2>1. n + k \in (n + 1)..(n + k)
    BY <1>1, <1>4
  <2>2. QED
    BY <2>1, <1>5, <1>7, <1>8
\* All outbound calls of the session, and the new ones but the last.
<1>12. Cardinality(OutboundBefore(attack))' = 6
  <2> DEFINE Before == {i \in 1..(n + k - 1) : calls'[i].tool \in OutboundTools}
             New == (n + 1)..(n + k - 1)
  <2>1. \A i \in 1..n : calls'[i].tool \in OutboundTools <=> i \in Out
    BY <1>1, <1>7, <1>8
  <2>2. \A i \in New : calls'[i].tool \in OutboundTools
    <3>1. \A i \in New : i \in (n + 1)..(n + k)
      BY <1>1, <1>4
    <3>2. QED
      BY <3>1, <1>5, <1>7, <1>8
  <2>3. \A i : i \in 1..(n + k - 1) <=> i \in 1..n \/ i \in New
    BY <1>1, <1>4
  <2>4. Out \subseteq 1..n
    BY <1>1
  <2> HIDE DEF Out
  <2>5. \A i : i \in Before <=> i \in Out \cup New
    BY <2>1, <2>2, <2>3, <2>4
  <2>6. Before = Out \cup New
    BY <2>5
  <2>7. Out \cap New = {}
    BY <2>4, <1>1
  <2>8. IsFiniteSet(New) /\ Cardinality(New) = k - 1
    <3>1. n + 1 \in Int /\ n + k - 1 \in Int /\ (n + 1 > n + k - 1 <=> k = 1)
          /\ (n + k - 1) - (n + 1) + 1 = k - 1
      BY <1>1, <1>4
    <3>2. IsFiniteSet(New) /\ Cardinality(New) =
            IF n + 1 > n + k - 1 THEN 0 ELSE (n + k - 1) - (n + 1) + 1
      BY <3>1, FS_Interval
    <3>3. QED
      BY <3>1, <3>2, <1>4
  <2> HIDE DEF New, Before
  <2>9. Cardinality(Out \cup New) = Cardinality(Out) + (k - 1) - Cardinality({})
    BY <1>3, <2>7, <2>8, FS_Union
  <2>10. Cardinality(Before) = 6
    <3>1. Cardinality({}) = 0
      BY FS_EmptySet
    <3>2. Cardinality(Out) \in Int /\ Cardinality(Out) + k = 7 /\ k \in Int
      BY <1>3, <1>4 DEF Out
    <3>3. QED
      BY <2>6, <2>9, <3>1, <3>2
  <2>11. OutboundBefore(attack)' = Before
    <3>1. OutboundBefore(attack)' = {i \in 1..(attack' - 1) : calls'[i].tool \in OutboundTools}
      BY DEF OutboundBefore
    <3>2. attack' - 1 = n + k - 1
      BY <1>1, <1>4, <1>8
    <3>3. QED
      BY <3>1, <3>2 DEF Before
  <2>12. QED
    BY <2>10, <2>11
<1>13. Overflows'
  BY <1>10, <1>11, <1>12 DEF Overflows, OutboundThreshold
<1>14. SessionsInv'
  BY <1>8, <1>9, <1>13 DEF SessionsInv
<1>15. QED
  BY <1>8, <1>14 DEF SuiteInv

LEMMA EvadeLoopKeepsSuiteInv ==
  ASSUME SuiteInv, EvadeLoop
  PROVE  SuiteInv'
<1>1. PICK tool \in {"send_payment", "delete_data"} :
        /\ calls' = <<Call(tool, InjectedFields[tool], "varied")>>
        /\ log' = <<[tool |-> tool, outcome |-> "blocked",
                     params |-> [fields |-> InjectedFields[tool], content |-> "fixed"]]>>
  BY DEF EvadeLoop
<1>2. /\ label = "none" /\ label' = "loop_evasion" /\ attack' = 1
      /\ UNCHANGED <<task, drawn, signals>>
  BY DEF EvadeLoop
<1>3. tool \in DOMAIN InjectedFields
  BY DEF InjectedFields
<1>4. tool \in SuiteTools /\ InjectedFields[tool] \subseteq Fields /\ tool \notin DOMAIN Schema
  BY <1>3, InjectedToolsAreStrangers DEF SuiteTools
<1>5. signals = <<>>
  BY <1>2 DEF SuiteInv, SessionsInv
<1> DEFINE c == Call(tool, InjectedFields[tool], "varied")
           e == [tool |-> tool, outcome |-> "blocked",
                 params |-> [fields |-> InjectedFields[tool], content |-> "fixed"]]
<1>6. c \in SuiteCalls /\ c.tool = tool /\ c.params.content = "varied"
  BY <1>4 DEF Call, SuiteCalls, SuiteParams
<1>7. e \in Entries /\ e.tool = tool /\ e.outcome = "blocked" /\ e.params.content = "fixed"
  BY <1>4 DEF Entries, SuiteParams
<1>8. calls' = <<c>> /\ log' = <<e>>
  BY <1>1
<1> HIDE DEF c, e
<1>9. SuiteTypeOK'
  BY <1>2, <1>6, <1>7, <1>8 DEF SuiteInv, SuiteTypeOK, Labels, AttackLabels, ExpectedSignal
<1>10. AttackIsLast' /\ Evades'
  BY <1>2, <1>4, <1>6, <1>7, <1>8 DEF AttackIsLast, Evades
<1>11. SessionsInv'
  BY <1>2, <1>10 DEF SessionsInv
<1>12. ReplayInv' /\ LegitimateTasksRunClean' /\ AttacksShowAtTheirCall'
  BY <1>2, <1>5, <1>8 DEF ReplayInv, LegitimateTasksRunClean, AttacksShowAtTheirCall,
    ShowsAtItsCall, ShowsOneHalfOnly, InjectionPassesTheSchema
<1>13. QED
  BY <1>9, <1>11, <1>12 DEF SuiteInv

-----------------------------------------------------------------------------
LEMMA SuiteInvariant == SuiteSpec => []SuiteInv
<1>1. SuiteInit => SuiteInv
  BY SuiteInvInitially
<1>2. SuiteInv /\ [SuiteNext]_suiteVars => SuiteInv'
  <2>1. SUFFICES ASSUME SuiteInv, [SuiteNext]_suiteVars PROVE SuiteInv'
    OBVIOUS
  <2>2. CASE DrawGroup
    BY <2>1, <2>2, DrawGroupKeepsSuiteInv
  <2>3. CASE LabelNormal
    BY <2>1, <2>3, LabelNormalKeepsSuiteInv
  <2>4. CASE TamperMissing \/ TamperUnexpected
    BY <2>1, <2>4, TamperingKeepsSuiteInv
  <2>5. CASE Inject \/ Escalate
    BY <2>1, <2>5, IntrusionsKeepSuiteInv
  <2>6. CASE ExfiltrateByFrequency
    BY <2>1, <2>6, ExfiltrateByFrequencyKeepsSuiteInv
  <2>7. CASE ExfiltrateByContent
    BY <2>1, <2>7, ExfiltrateByContentKeepsSuiteInv
  <2>8. CASE EvadeLoop
    BY <2>1, <2>8, EvadeLoopKeepsSuiteInv
  <2>9. CASE Replay
    BY <2>1, <2>9, ReplayKeepsSuiteInv
  <2>10. CASE UNCHANGED suiteVars
    <3>1. UNCHANGED <<task, calls, drawn, label, attack, log, signals>>
      BY <2>10 DEF suiteVars
    <3>2. SuiteTypeOK' /\ ReplayInv' /\ LegitimateTasksRunClean' /\ AttacksShowAtTheirCall'
      BY <2>1, <3>1 DEF SuiteInv, SuiteTypeOK, ReplayInv, LegitimateTasksRunClean,
        AttacksShowAtTheirCall, ShowsAtItsCall, ShowsOneHalfOnly, InjectionPassesTheSchema
    <3>3. SessionsInv'
      <4>1. Generated' <=> Generated
        BY <3>1 DEF Generated, Positions, IsDrawn, ToolOf
      <4>2. DrawnBefore' <=> DrawnBefore
        BY <3>1 DEF DrawnBefore, IsDrawn, ToolOf
      <4>3. /\ Attacked' <=> Attacked
            /\ AttackIsLast' <=> AttackIsLast
            /\ Evades' <=> Evades
        BY <3>1 DEF Attacked, AttackIsLast, Evades
      <4>4. (TampersMissing' <=> TampersMissing) /\ (TampersUnexpected' <=> TampersUnexpected)
        BY <3>1, <4>2 DEF TampersMissing, TampersUnexpected
      <4>5. /\ Intrudes' <=> Intrudes
            /\ Overflows' <=> Overflows
            /\ Oversizes' <=> Oversizes
        BY <3>1, <4>2 DEF Intrudes, Overflows, Oversizes, OutboundBefore
      <4>6. QED
        BY <2>1, <3>1, <4>1, <4>3, <4>4, <4>5 DEF SuiteInv, SessionsInv
    <3>4. QED
      BY <3>2, <3>3 DEF SuiteInv
  <2>11. QED
    BY <2>1, <2>2, <2>3, <2>4, <2>5, <2>6, <2>7, <2>8, <2>9, <2>10 DEF SuiteNext
<1>3. QED
  BY <1>1, <1>2, PTL DEF SuiteSpec

\* A legitimate session meets no detector, whatever task it is for and however
\* often each group repeats: templates, schemas and baselines agree, and every
\* threshold stays above the longest template.
THEOREM LegitimateSessionsRunClean == SuiteSpec => []LegitimateTasksRunClean
<1>1. SuiteInv => LegitimateTasksRunClean
  BY DEF SuiteInv
<1>2. QED
  BY <1>1, SuiteInvariant, PTL

\* The label of an attack session tells the truth: the signal it stands for
\* appears at attack_call_index and at no call before it.  Other detectors may
\* speak earlier, but for the other half of the schema check under tampering,
\* the size check under too many calls, the frequency before an oversized call,
\* and the schema check under injection.
THEOREM AttacksShowInTime == SuiteSpec => []AttacksShowAtTheirCall
<1>1. SuiteInv => AttacksShowAtTheirCall
  BY DEF SuiteInv
<1>2. QED
  BY <1>1, SuiteInvariant, PTL
==============================================================================
