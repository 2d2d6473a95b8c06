-------------------------- MODULE QueueAdminProofs --------------------------
(***************************************************************************)
(* Theorems about QueueAdmin for any number of callers and calls beside    *)
(* any number of producers, workers and checkers.                          *)
(***************************************************************************)
EXTENDS QueueAdmin, BullMQProofs

USE AdminAssumption DEF AdminAssumption

CommandType == Verbs \X ({""} \cup KeyNames)

-----------------------------------------------------------------------------
(* Sequences of commands *)

\* Whatever is taken out of a key one id at a time is decided later in the same call.
Follows(cmds) ==
  \A i \in DOMAIN cmds :
    cmds[i][1] = "rem" => \E k \in DOMAIN cmds : k > i /\ cmds[k][1] \in Deciding

\* The verbs of two sequences sent one after the other.
LEMMA ConcatVerbs ==
  ASSUME NEW s \in Seq(CommandType), NEW t \in Seq(CommandType)
  PROVE  /\ s \o t \in Seq(CommandType)
         /\ VerbsOf(s \o t) = VerbsOf(s) \cup VerbsOf(t)
<1> DEFINE u == s \o t
<1>1. /\ u \in Seq(CommandType) /\ Len(u) = Len(s) + Len(t)
      /\ \A i \in 1..(Len(s) + Len(t)) : u[i] = IF i <= Len(s) THEN s[i] ELSE t[i - Len(s)]
  BY ConcatProperties
<1>2. /\ Len(s) \in Nat /\ Len(t) \in Nat
      /\ DOMAIN s = 1..Len(s) /\ DOMAIN t = 1..Len(t) /\ DOMAIN u = 1..(Len(s) + Len(t))
  BY <1>1
<1> HIDE DEF u
<1>3. ASSUME NEW v \in VerbsOf(u) PROVE v \in VerbsOf(s) \cup VerbsOf(t)
  <2>1. PICK i \in DOMAIN u : v = u[i][1]
    BY DEF VerbsOf
  <2>2. CASE i <= Len(s)
    <3>1. i \in DOMAIN s /\ u[i] = s[i]
      BY <1>1, <1>2, <2>2
    <3> QED BY <2>1, <3>1 DEF VerbsOf
  <2>3. CASE ~(i <= Len(s))
    <3>1. i - Len(s) \in DOMAIN t /\ u[i] = t[i - Len(s)]
      BY <1>1, <1>2, <2>3
    <3> QED BY <2>1, <3>1 DEF VerbsOf
  <2> QED BY <2>2, <2>3
<1>4. ASSUME NEW v \in VerbsOf(s) PROVE v \in VerbsOf(u)
  <2>1. PICK i \in DOMAIN s : v = s[i][1]
    BY DEF VerbsOf
  <2>2. i \in DOMAIN u /\ u[i] = s[i]
    BY <1>1, <1>2
  <2> QED BY <2>1, <2>2 DEF VerbsOf
<1>5. ASSUME NEW v \in VerbsOf(t) PROVE v \in VerbsOf(u)
  <2>1. PICK i \in DOMAIN t : v = t[i][1]
    BY DEF VerbsOf
  <2>2. i + Len(s) \in DOMAIN u /\ u[i + Len(s)] = t[i]
    BY <1>1, <1>2
  <2> QED BY <2>1, <2>2 DEF VerbsOf
<1> QED BY <1>1, <1>3, <1>4, <1>5 DEF u

\* What was taken out is still decided when more commands come after that, and when what
\* comes after decides.
LEMMA ConcatFollows ==
  ASSUME NEW s \in Seq(CommandType), NEW t \in Seq(CommandType), Follows(t),
         Follows(s) \/ VerbsOf(t) \cap Deciding # {}
  PROVE  Follows(s \o t)
<1> DEFINE u == s \o t
<1>1. /\ u \in Seq(CommandType) /\ Len(u) = Len(s) + Len(t)
      /\ \A i \in 1..(Len(s) + Len(t)) : u[i] = IF i <= Len(s) THEN s[i] ELSE t[i - Len(s)]
  BY ConcatProperties
<1>2. /\ Len(s) \in Nat /\ Len(t) \in Nat
      /\ DOMAIN s = 1..Len(s) /\ DOMAIN t = 1..Len(t) /\ DOMAIN u = 1..(Len(s) + Len(t))
  BY <1>1
<1> HIDE DEF u
<1>3. SUFFICES ASSUME NEW i \in DOMAIN u, u[i][1] = "rem"
               PROVE  \E k \in DOMAIN u : k > i /\ u[k][1] \in Deciding
  BY DEF Follows, u
<1>4. ASSUME NEW k \in DOMAIN t, t[k][1] \in Deciding, k + Len(s) > i
      PROVE  \E n \in DOMAIN u : n > i /\ u[n][1] \in Deciding
  <2>1. k + Len(s) \in DOMAIN u /\ u[k + Len(s)] = t[k]
    BY <1>1, <1>2
  <2> QED BY <1>4, <2>1
<1>5. CASE i <= Len(s)
  <2>1. i \in DOMAIN s /\ u[i] = s[i]
    BY <1>1, <1>2, <1>5
  <2>2. CASE Follows(s)
    <3>1. PICK k \in DOMAIN s : k > i /\ s[k][1] \in Deciding
      BY <1>3, <2>1, <2>2 DEF Follows
    <3>2. k \in DOMAIN u /\ u[k] = s[k]
      BY <1>1, <1>2
    <3> QED BY <3>1, <3>2
  <2>3. CASE VerbsOf(t) \cap Deciding # {}
    <3>1. PICK k \in DOMAIN t : t[k][1] \in Deciding
      BY <2>3 DEF VerbsOf
    <3>2. k + Len(s) > i
      BY <1>2, <1>5
    <3> QED BY <1>4, <3>1, <3>2
  <2> QED BY <2>2, <2>3
<1>6. CASE ~(i <= Len(s))
  <2>1. i - Len(s) \in DOMAIN t /\ u[i] = t[i - Len(s)]
    BY <1>1, <1>2, <1>6
  <2>2. PICK k \in DOMAIN t : k > i - Len(s) /\ t[k][1] \in Deciding
    BY <1>3, <2>1 DEF Follows
  <2>3. k + Len(s) > i
    BY <1>2, <2>2
  <2> QED BY <1>4, <2>2, <2>3
<1> QED BY <1>5, <1>6

\* A single command.
LEMMA CommandFacts ==
  ASSUME NEW verb \in Verbs
  PROVE  /\ Command(verb) \in Seq(CommandType) /\ VerbsOf(Command(verb)) = {verb}
         /\ verb # "rem" => Follows(Command(verb))
<1>1. <<verb, "">> \in CommandType
  BY DEF CommandType
<1>2. Command(verb) \in Seq(CommandType) /\ DOMAIN Command(verb) = {1} /\ Command(verb)[1][1] = verb
  <2> DEFINE e == <<verb, "">>
  <2>1. e \in CommandType /\ e[1] = verb
    BY <1>1
  <2>2. Command(verb) = <<e>>
    BY DEF Command
  <2> HIDE DEF e
  <2>3. <<e>> \in Seq(CommandType) /\ Len(<<e>>) = 1 /\ <<e>>[1] = e
    BY <2>1
  <2>4. DOMAIN <<e>> = 1..1
    BY <2>3, LenProperties
  <2> QED BY <2>1, <2>2, <2>3, <2>4
<1> QED BY <1>2 DEF VerbsOf, Follows

\* The same verb for one key after the other.
LEMMA OnFacts ==
  ASSUME NEW verb \in Verbs, NEW keyOrder \in Seq(KeyNames), keyOrder # << >>
  PROVE  /\ On(verb, keyOrder) \in Seq(CommandType) /\ VerbsOf(On(verb, keyOrder)) = {verb}
         /\ verb # "rem" => Follows(On(verb, keyOrder))
<1>1. Len(keyOrder) \in Nat \ {0} /\ DOMAIN keyOrder = 1..Len(keyOrder)
  BY EmptySeq
<1>2. \A i \in 1..Len(keyOrder) : <<verb, keyOrder[i]>> \in CommandType
  BY ElementOfSeq DEF CommandType
<1>3. On(verb, keyOrder) \in Seq(CommandType)
  BY <1>1, <1>2 DEF On
<1>4. /\ DOMAIN On(verb, keyOrder) = 1..Len(keyOrder)
      /\ \A i \in 1..Len(keyOrder) : On(verb, keyOrder)[i][1] = verb
  BY <1>1 DEF On
<1>5. 1 \in 1..Len(keyOrder)
  BY <1>1
<1>6. VerbsOf(On(verb, keyOrder)) = {verb}
  BY <1>4, <1>5 DEF VerbsOf
<1>7. verb # "rem" => Follows(On(verb, keyOrder))
  BY <1>4 DEF Follows
<1> QED BY <1>3, <1>6, <1>7

\* Nothing left to send.
LEMMA NothingFacts == << >> \in Seq(CommandType) /\ Follows(<< >>) /\ VerbsOf(<< >>) = {}
  BY DEF Follows, VerbsOf

\* What a method sends for one id.
LEMMA ProgramFacts ==
  ASSUME NEW o \in AllOperations
  PROVE  /\ Program(o) \in Seq(CommandType) /\ Program(o) # << >> /\ Follows(Program(o))
         /\ VerbsOf(Program(o)) \cap Deciding # {}
         /\ "read" \notin VerbsOf(Program(o))
<1> DEFINE Good(s) == s \in Seq(CommandType) /\ "read" \notin VerbsOf(s)
           Closed(s) == Good(s) /\ Follows(s) /\ VerbsOf(s) \cap Deciding # {}
<1>1. ASSUME NEW s, NEW t, Good(s), Closed(t) PROVE Closed(s \o t)
  BY <1>1, ConcatVerbs, ConcatFollows
<1>2. ASSUME NEW s, NEW t, Good(s), Good(t) PROVE Good(s \o t)
  BY <1>2, ConcatVerbs
<1>3. /\ Good(Command("lock")) /\ Good(Command("reset")) /\ Good(Command("reason"))
      /\ Follows(Command("lock")) /\ Closed(Command("hash")) /\ Closed(Command("push"))
  BY CommandFacts DEF Verbs, Deciding
<1>4. Closed(DeleteJob)
  <2>1. Follows(DeleteJob)
    BY <1>3, ConcatFollows DEF DeleteJob
  <2> QED BY <1>3, <2>1, ConcatVerbs DEF DeleteJob
<1>5. ASSUME NEW keyOrder \in Seq(KeyNames), keyOrder # << >> PROVE Good(On("rem", keyOrder))
  BY OnFacts, <1>5 DEF Verbs
<1>6. /\ <<"failed">> \in Seq(KeyNames) /\ <<"failed">> # << >>
      /\ <<"completed">> \in Seq(KeyNames) /\ <<"completed">> # << >>
      /\ RemoveOrder \in Seq(KeyNames) /\ RemoveOrder # << >>
  BY DEF RemoveOrder, KeyNames
<1>7. Good(On("rem", <<"failed">>)) /\ Good(On("rem", <<"completed">>)) /\ Good(On("rem", RemoveOrder))
  BY <1>5, <1>6
<1> HIDE DEF Good
<1>8. Closed(Program(o))
  <2>1. CASE o = "RetryJob"
    <3>1. Program(o) = ((On("rem", <<"failed">>) \o Command("reset")) \o Command("reason")) \o Command("push")
      BY <2>1 DEF Program
    <3>2. Good((On("rem", <<"failed">>) \o Command("reset")) \o Command("reason"))
      BY <1>2, <1>3, <1>7
    <3> QED BY <1>1, <1>3, <3>1, <3>2
  <2>2. CASE o = "RemoveJob"
    BY <1>1, <1>4, <1>7, <2>2 DEF Program
  <2>3. CASE o = "CleanCompleted"
    BY <1>1, <1>4, <1>7, <2>3 DEF Program
  <2>4. CASE o = "CleanFailed"
    BY <1>1, <1>4, <1>7, <2>4 DEF Program
  <2>5. CASE o = "Drain"
    BY <1>4, <2>5 DEF Program
  <2> QED BY <2>1, <2>2, <2>3, <2>4, <2>5 DEF AllOperations
<1> QED
  <2>1. Program(o) # << >>
    BY <1>8 DEF VerbsOf, Good
  <2> QED BY <1>8, <2>1 DEF Good

\* What Drain sends before it deletes the jobs it found.
LEMMA DrainFacts ==
  LET cmds == On("read", DrainOrder) \o On("empty", DrainOrder) IN
  cmds \in Seq(CommandType) /\ VerbsOf(cmds) = {"read", "empty"} /\ Follows(cmds)
<1>1. DrainOrder \in Seq(KeyNames) /\ DrainOrder # << >>
  BY DEF DrainOrder, KeyNames
<1>2. "read" \in Verbs /\ "empty" \in Verbs
  BY DEF Verbs
<1> QED BY <1>1, <1>2, OnFacts, ConcatVerbs, ConcatFollows

\* What is left of a call after a command.
LEMMA TailFacts ==
  ASSUME NEW s \in Seq(CommandType), s # << >>, Follows(s)
  PROVE  /\ Tail(s) \in Seq(CommandType) /\ Follows(Tail(s)) /\ Len(s) \in Nat \ {0}
         /\ VerbsOf(s) = {Head(s)[1]} \cup VerbsOf(Tail(s))
         /\ Len(s) = 1 => VerbsOf(s) = {Head(s)[1]}
         /\ Head(s)[1] = "rem" => Len(s) # 1 /\ VerbsOf(Tail(s)) \cap Deciding # {}
<1> DEFINE t == Tail(s)
<1>1. /\ t \in Seq(CommandType) /\ Len(t) = Len(s) - 1 /\ Len(s) \in Nat \ {0}
      /\ \A i \in 1..Len(t) : t[i] = s[i + 1]
  BY HeadTailProperties, EmptySeq
<1>2. DOMAIN s = 1..Len(s) /\ DOMAIN t = 1..Len(t) /\ Head(s) = s[1]
  BY <1>1
<1> HIDE DEF t
<1>3. ASSUME NEW i \in DOMAIN s, i # 1 PROVE i - 1 \in DOMAIN t /\ t[i - 1] = s[i]
  BY <1>1, <1>2, <1>3
<1>4. ASSUME NEW i \in DOMAIN t PROVE i + 1 \in DOMAIN s /\ s[i + 1] = t[i]
  BY <1>1, <1>2
<1>5. 1 \in DOMAIN s
  BY <1>1, <1>2
<1>6. VerbsOf(s) = {Head(s)[1]} \cup VerbsOf(t)
  <2>1. ASSUME NEW v \in VerbsOf(s) PROVE v = s[1][1] \/ v \in VerbsOf(t)
    <3>1. PICK i \in DOMAIN s : v = s[i][1]
      BY DEF VerbsOf
    <3>2. CASE i = 1
      BY <3>1, <3>2
    <3>3. CASE i # 1
      BY <1>3, <3>1, <3>3 DEF VerbsOf
    <3> QED BY <3>2, <3>3
  <2>2. ASSUME NEW v \in VerbsOf(t) PROVE v \in VerbsOf(s)
    <3>1. PICK i \in DOMAIN t : v = t[i][1]
      BY DEF VerbsOf
    <3> QED BY <1>4, <3>1 DEF VerbsOf
  <2>3. s[1][1] \in VerbsOf(s)
    BY <1>5 DEF VerbsOf
  <2> QED BY <1>2, <2>1, <2>2, <2>3
<1>7. ASSUME NEW i \in DOMAIN s, s[i][1] = "rem"
      PROVE  \E k \in DOMAIN t : k > i - 1 /\ t[k][1] \in Deciding
  <2>1. PICK k \in DOMAIN s : k > i /\ s[k][1] \in Deciding
    BY <1>7 DEF Follows
  <2>2. k # 1 /\ k - 1 > i - 1
    BY <1>1, <1>2, <2>1
  <2> QED BY <1>3, <2>1, <2>2
<1>8. Follows(t)
  <2>1. ASSUME NEW i \in DOMAIN t, t[i][1] = "rem"
        PROVE  \E k \in DOMAIN t : k > i /\ t[k][1] \in Deciding
    <3>1. i + 1 \in DOMAIN s /\ s[i + 1][1] = "rem" /\ i + 1 - 1 = i
      BY <1>1, <1>2, <1>4, <2>1
    <3> QED BY <1>7, <3>1
  <2> QED BY <2>1 DEF Follows
<1>9. ASSUME Head(s)[1] = "rem" PROVE Len(s) # 1 /\ VerbsOf(t) \cap Deciding # {}
  <2>1. PICK k \in DOMAIN t : t[k][1] \in Deciding
    BY <1>2, <1>5, <1>7, <1>9
  <2> QED BY <1>1, <1>2, <2>1 DEF VerbsOf
<1>10. Len(s) = 1 => VerbsOf(t) = {}
  BY <1>1, <1>2 DEF VerbsOf
<1> QED BY <1>1, <1>6, <1>8, <1>9, <1>10 DEF t

-----------------------------------------------------------------------------
(* Calls *)

\* A caller that is in no method sends nothing.  RetryJob is about one id.  Only the commands
\* of Drain before it has deleted the keys are about no id.
Shaped(c) ==
  /\ op[c] = "none" => commands[c] = << >>
  /\ op[c] = "RetryJob" => ids[c] = {} /\ "read" \notin VerbsOf(commands[c])
  /\ Follows(commands[c])
  /\ cur[c] = NoJob => VerbsOf(commands[c]) \subseteq {"read", "empty"}

\* The types of the variables of the callers.
CallTypes ==
  /\ op \in [Callers -> AllOperations \cup {"none"}]
  /\ cur \in [Callers -> Jobs \cup {NoJob}]
  /\ ids \in [Callers -> SUBSET Jobs]
  /\ commands \in [Callers -> Seq(CommandType)]

\* A caller's call changes nothing of the other callers.
LEMMA CallFacts ==
  ASSUME CallTypes, NEW c \in Callers, NEW o, NEW j, NEW more, NEW cmds, Call(c, o, j, more, cmds)
  PROVE  /\ op'[c] = o /\ cur'[c] = j /\ ids'[c] = more /\ commands'[c] = cmds
         /\ \A d \in Callers : d # c => (Shaped(d) => Shaped(d)')
         /\ \A d \in Callers, k \in Jobs : d # c => (CallHolds(d, k) => CallHolds(d, k)')
         /\ o \in AllOperations \cup {"none"} /\ j \in Jobs \cup {NoJob} /\ more \subseteq Jobs
              /\ cmds \in Seq(CommandType) => CallTypes'
<1>1. /\ op'[c] = o /\ cur'[c] = j /\ ids'[c] = more /\ commands'[c] = cmds
      /\ \A d \in Callers : d # c => /\ op'[d] = op[d] /\ cur'[d] = cur[d]
                                    /\ ids'[d] = ids[d] /\ commands'[d] = commands[d]
  BY DEF Call, CallTypes
<1>2. o \in AllOperations \cup {"none"} /\ j \in Jobs \cup {NoJob} /\ more \subseteq Jobs
        /\ cmds \in Seq(CommandType) => CallTypes'
  BY DEF Call, CallTypes
<1> QED BY <1>1, <1>2 DEF Shaped, CallHolds

\* A command with a verb is the first of those the call has yet to send.
LEMMA VerbFacts ==
  ASSUME NEW c \in Callers, Verb(c) # ""
  PROVE  commands[c] # << >> /\ Head(commands[c])[1] = Verb(c)
  BY DEF Verb, NextOf

\* A call that goes on, for the ids it has yet to come to, keeps its shape.
LEMMA ProceedShaped ==
  ASSUME CallTypes, NEW c \in Callers, \A d \in Callers : Shaped(d), Verb(c) # "",
         NEW found \in SUBSET Jobs, op[c] = "RetryJob" => found = {}, Proceed(c, found)
  PROVE  CallTypes' /\ \A d \in Callers : Shaped(d)'
<1>1. /\ commands[c] \in Seq(CommandType) /\ commands[c] # << >> /\ Follows(commands[c])
      /\ op[c] \in AllOperations
  BY VerbFacts DEF CallTypes, Shaped
<1>2. CASE Call(c, op[c], cur[c], found, Tail(commands[c]))
  <2>1. /\ Tail(commands[c]) \in Seq(CommandType) /\ Follows(Tail(commands[c]))
        /\ VerbsOf(Tail(commands[c])) \subseteq VerbsOf(commands[c])
    BY <1>1, TailFacts
  <2>2. Shaped(c)'
    <3>1. /\ op'[c] = op[c] /\ cur'[c] = cur[c] /\ ids'[c] = found
          /\ commands'[c] = Tail(commands[c])
      BY <1>2, CallFacts
    <3>2. op[c] # "none"
      BY <1>1 DEF Shaped
    <3> QED BY <2>1, <3>1, <3>2 DEF Shaped
  <2>3. CallTypes'
    BY <1>1, <1>2, <2>1, CallFacts DEF CallTypes
  <2> QED BY <1>2, <2>2, <2>3, CallFacts
<1>3. ASSUME NEW j \in found, Call(c, op[c], j, found \ {j}, Program(op[c]))
      PROVE  CallTypes' /\ \A d \in Callers : Shaped(d)'
  <2>1. op[c] # "RetryJob" /\ op[c] # "none"
    BY <1>1, <1>3 DEF Shaped
  <2>2. Program(op[c]) \in Seq(CommandType) /\ Follows(Program(op[c]))
    BY <1>1, ProgramFacts
  <2>3. op'[c] = op[c] /\ cur'[c] = j /\ commands'[c] = Program(op[c])
    BY <1>3, CallFacts
  <2>4. j \in Jobs /\ j # NoJob /\ found \ {j} \subseteq Jobs
    BY KeysAssumption DEF KeysAssumption
  <2>5. Shaped(c)'
    BY <2>1, <2>2, <2>3, <2>4 DEF Shaped
  <2>6. CallTypes'
    <3>1. op[c] \in AllOperations \cup {"none"} /\ j \in Jobs \cup {NoJob}
      BY <1>1, <2>4
    <3> QED BY <1>3, <2>2, <2>4, <3>1, CallFacts
  <2>7. \A d \in Callers : d # c => (Shaped(d) => Shaped(d)')
    BY <1>3, CallFacts
  <2> QED BY <2>5, <2>6, <2>7
<1>4. CASE Call(c, "none", NoJob, {}, << >>)
  <2>1. << >> \in Seq(CommandType) /\ Follows(<< >>) /\ VerbsOf(<< >>) = {}
    BY NothingFacts
  <2>2. op'[c] = "none" /\ cur'[c] = NoJob /\ commands'[c] = << >>
    BY <1>4, CallFacts
  <2>3. Shaped(c)'
    BY <2>1, <2>2 DEF Shaped, AllOperations
  <2> QED BY <1>4, <2>1, <2>3, CallFacts
<1> QED BY <1>2, <1>3, <1>4 DEF Proceed

\* It goes on to hold what it held, but for an id its command has just decided about.
LEMMA ProceedHolds ==
  ASSUME CallTypes, NEW c \in Callers, \A d \in Callers : Shaped(d), Verb(c) # "",
         NEW found \in SUBSET Jobs, op[c] = "RetryJob" => found = {}, Proceed(c, found),
         ids[c] \subseteq found, NEW k \in Jobs, NEW d \in Callers, CallHolds(d, k),
         ~(d = c /\ cur[c] = k /\ Verb(c) \in Deciding)
  PROVE  \E e \in Callers : CallHolds(e, k)'
<1>a. commands[c] # << >> /\ Head(commands[c])[1] = Verb(c)
  BY VerbFacts
<1>1. /\ commands[c] \in Seq(CommandType) /\ commands[c] # << >> /\ Follows(commands[c])
      /\ op[c] \in AllOperations /\ Head(commands[c])[1] = Verb(c)
  BY <1>a DEF CallTypes, Shaped
<1>2. CASE d # c
  <2>1. PICK o, j, more, cmds : Call(c, o, j, more, cmds)
    BY DEF Proceed
  <2>2. CallHolds(d, k) => CallHolds(d, k)'
    BY <1>2, <2>1, CallFacts
  <2> QED BY <2>2
<1>3. CASE d = c /\ cur[c] = k /\ VerbsOf(commands[c]) \cap Deciding # {}
  <2> DEFINE s == commands[c]
  <2>0. s \in Seq(CommandType) /\ s # << >> /\ Follows(s) /\ Head(s)[1] \notin Deciding
        /\ VerbsOf(s) \cap Deciding # {}
    BY <1>1, <1>3
  <2> HIDE DEF s
  <2>a. VerbsOf(s) = {Head(s)[1]} \cup VerbsOf(Tail(s)) /\ (Len(s) = 1 => VerbsOf(s) = {Head(s)[1]})
    BY <2>0, TailFacts
  <2>1. VerbsOf(Tail(s)) \cap Deciding # {} /\ Len(s) # 1
    BY <2>0, <2>a
  <2> USE DEF s
  <2>2. Call(c, op[c], cur[c], found, Tail(commands[c]))
    BY <2>1 DEF Proceed
  <2>3. cur'[c] = k /\ commands'[c] = Tail(commands[c])
    BY <1>3, <2>2, CallFacts
  <2> QED BY <2>1, <2>3 DEF CallHolds
<1>4. CASE d = c /\ k \in ids[c] /\ op[c] # "none"
  <2>1. CASE Call(c, op[c], cur[c], found, Tail(commands[c]))
    <3>1. op'[c] = op[c] /\ ids'[c] = found
      BY <2>1, CallFacts
    <3> QED BY <1>4, <3>1 DEF CallHolds
  <2>2. ASSUME NEW j \in found, Call(c, op[c], j, found \ {j}, Program(op[c]))
        PROVE  CallHolds(c, k)'
    <3>1. op'[c] = op[c] /\ ids'[c] = found \ {j} /\ cur'[c] = j /\ commands'[c] = Program(op[c])
      BY <2>2, CallFacts
    <3>2. VerbsOf(Program(op[c])) \cap Deciding # {}
      BY <1>1, ProgramFacts
    <3> QED BY <1>4, <3>1, <3>2 DEF CallHolds
  <2>3. found # {}
    BY <1>4
  <2> QED BY <2>1, <2>2, <2>3 DEF Proceed
<1> QED BY <1>2, <1>3, <1>4 DEF CallHolds

\* What a call has just taken out of a key it has yet to decide about.
LEMMA RemHolds ==
  ASSUME CallTypes, NEW c \in Callers, \A d \in Callers : Shaped(d), Verb(c) = "rem",
         NEW found \in SUBSET Jobs, Proceed(c, found)
  PROVE  \A k \in Jobs : cur[c] = k => CallHolds(c, k)'
<1>1. /\ commands[c] \in Seq(CommandType) /\ commands[c] # << >> /\ Follows(commands[c])
      /\ Head(commands[c])[1] = "rem"
  BY VerbFacts DEF CallTypes, Shaped
<1>2. Len(commands[c]) # 1 /\ VerbsOf(Tail(commands[c])) \cap Deciding # {}
  <2>1. PICK s \in Seq(CommandType) : s = commands[c]
    BY <1>1
  <2>a. s # << >> /\ Follows(s) /\ Head(s)[1] = "rem"
    BY <1>1, <2>1
  <2>2. Len(s) # 1 /\ VerbsOf(Tail(s)) \cap Deciding # {}
    BY <2>a, TailFacts
  <2> QED BY <2>1, <2>2
<1>3. Call(c, op[c], cur[c], found, Tail(commands[c]))
  BY <1>2 DEF Proceed
<1>4. cur'[c] = cur[c] /\ commands'[c] = Tail(commands[c])
  BY <1>3, CallFacts
<1> QED BY <1>2, <1>4 DEF CallHolds

-----------------------------------------------------------------------------
(* The queue under the commands of a call *)

\* What a step that leaves slots and checkers alone has to keep.
LEMMA StaysConserved ==
  ASSUME NEW j \in Jobs, UNCHANGED <<add, slotVars, checkerVars>>, Conserved(j),
         "job" \in hash'[j] => "job" \in hash[j], atRisk \subseteq atRisk',
         Recorded(j) => Recorded(j)'
  PROVE  Conserved(j)'
  BY DEF Conserved, Kept, SlotHolds, CheckerHolds, slotVars, checkerVars

\* The types of a state in which the calls changed keys and history alone.
LEMMA KeysChanged ==
  ASSUME TypeOK, UNCHANGED <<add, slotVars, checkerVars, overrun>>, KeysTypeOK',
         atRisk' \subseteq Jobs, spent' = spent \/ Spend("fault")
  PROVE  TypeOK'
<1>1. spent' \in [Kinds -> Nat]
  BY SpendType DEF TypeOK, Kinds
<1>2. ProducerTypeOK' /\ WorkerTypeOK' /\ CheckerTypeOK' /\ overrun' \in [Workers -> Nat]
  BY DEF TypeOK, ProducerTypeOK, WorkerTypeOK, CheckerTypeOK, slotVars, checkerVars
<1> QED BY <1>1, <1>2 DEF TypeOK

\* LREM wait 0 id and DEL wait take out what they are to take out, and nothing else.
LEMMA LeaveFacts ==
  ASSUME wait \in Seq(Jobs), NEW gone \in SUBSET Jobs, LeaveInWait(gone)
  PROVE  wait' \in Seq(Jobs) /\ \A k \in Jobs : k \notin gone => (InWait(k) => InWait(k)')
<1> DEFINE rest == { i \in 1..Len(wait) : wait[i] \notin gone }
<1>a. PICK n \in 0..Len(wait) : \E place \in [1..n -> rest] :
        Range(place) = rest /\ wait' = [i \in 1..n |-> wait[place[i]]]
  BY DEF LeaveInWait
<1>1. PICK place \in [1..n -> rest] : Range(place) = rest /\ wait' = [i \in 1..n |-> wait[place[i]]]
  BY <1>a
<1>2. n \in Nat /\ \A i \in 1..n : wait[place[i]] \in Jobs
  BY <1>1, ElementOfSeq
<1>3. wait' \in Seq(Jobs) /\ Len(wait') = n
  BY <1>1, <1>2
<1>4. ASSUME NEW k \in Jobs, k \notin gone, InWait(k) PROVE InWait(k)'
  <2>1. PICK i \in 1..Len(wait) : wait[i] = k
    BY <1>4 DEF InWait
  <2>2. i \in rest
    BY <1>4, <2>1
  <2>3. PICK m \in 1..n : place[m] = i
    BY <1>1, <2>2 DEF Range
  <2>4. wait'[m] = k
    BY <1>1, <2>1, <2>3
  <2> QED BY <1>3, <2>3, <2>4 DEF InWait
<1> QED BY <1>3, <1>4

-----------------------------------------------------------------------------
(* Steps *)

Safe(j) == Conserved(j) \/ \E c \in Callers : CallHolds(c, j)

\* The types and the shape of all calls, which everything below starts from.
CallsOK == CallTypes /\ calls \in Nat /\ \A c \in Callers : Shaped(c)

\* A caller that is in no method holds nothing.
LEMMA IdleHolds ==
  ASSUME CallsOK, NEW c \in Callers, op[c] = "none", NEW k \in Jobs PROVE ~CallHolds(c, k)
  BY NothingFacts DEF CallsOK, Shaped, CallHolds

\* The first command is one of those the call has yet to send.
LEMMA FirstVerb ==
  ASSUME CallsOK, NEW c \in Callers, Verb(c) # ""
  PROVE  /\ Verb(c) \in VerbsOf(commands[c])
         /\ Verb(c) \notin {"read", "empty"} => cur[c] \in Jobs
<1>1. commands[c] \in Seq(CommandType) /\ commands[c] # << >> /\ Follows(commands[c])
      /\ Head(commands[c])[1] = Verb(c)
  BY VerbFacts DEF CallsOK, CallTypes, Shaped
<1>2. Verb(c) \in VerbsOf(commands[c])
  BY <1>1, TailFacts
<1> QED BY <1>2 DEF CallsOK, CallTypes, Shaped

\* A call that begins changes nothing but its caller.
LEMMA BeginSafe ==
  ASSUME CallsOK, NEW c \in Callers, op[c] = "none", UNCHANGED vars, calls' = calls + 1,
         NEW o \in AllOperations, NEW j \in Jobs \cup {NoJob}, NEW more \in SUBSET Jobs,
         NEW cmds \in Seq(CommandType), Call(c, o, j, more, cmds), Follows(cmds),
         j = NoJob => VerbsOf(cmds) \subseteq {"read", "empty"},
         o = "RetryJob" => more = {} /\ "read" \notin VerbsOf(cmds)
  PROVE  CallsOK' /\ \A k \in Jobs : Safe(k) => Safe(k)'
<1>1. op'[c] = o /\ cur'[c] = j /\ ids'[c] = more /\ commands'[c] = cmds
  BY CallFacts DEF CallsOK
<1>2. Shaped(c)'
  BY <1>1 DEF Shaped, AllOperations
<1>3. CallTypes'
  BY CallFacts DEF CallsOK
<1>4. \A d \in Callers : d # c => (Shaped(d) => Shaped(d)')
  BY CallFacts DEF CallsOK
<1>5. ASSUME NEW k \in Jobs, NEW d \in Callers, CallHolds(d, k) PROVE CallHolds(d, k)'
  <2>1. d # c
    BY <1>5, IdleHolds
  <2> QED BY <1>5, <2>1, CallFacts DEF CallsOK
<1>6. ASSUME NEW k \in Jobs, Conserved(k) PROVE Conserved(k)'
  BY <1>6 DEF vars, keys, slotVars, checkerVars, history, Conserved, Kept, Recorded, InWait,
              SlotHolds, CheckerHolds
<1> QED BY <1>2, <1>3, <1>4, <1>5, <1>6 DEF CallsOK, Safe

\* So do the four methods.
LEMMA BeginKeeps ==
  ASSUME CallsOK, NEW c \in Callers,
         \/ Drain(c)
         \/ \E j \in Jobs : RetryJob(c, j) \/ RemoveJob(c, j)
         \/ \E o \in Operations, old \in SUBSET Jobs : Clean(c, o, old)
  PROVE  CallsOK' /\ UNCHANGED vars /\ \A k \in Jobs : Safe(k) => Safe(k)'
<1> USE DEF Begins
<1>0. ASSUME NEW j \in Jobs PROVE j # NoJob /\ j \in Jobs \cup {NoJob}
  BY KeysAssumption DEF KeysAssumption
<1>1. CASE Drain(c)
  <2> DEFINE cmds == On("read", DrainOrder) \o On("empty", DrainOrder)
  <2>1. cmds \in Seq(CommandType) /\ VerbsOf(cmds) = {"read", "empty"} /\ Follows(cmds)
    BY DrainFacts
  <2>2. Call(c, "Drain", NoJob, {}, cmds)
    BY <1>1 DEF Drain
  <2> HIDE DEF cmds
  <2>3. "Drain" \in AllOperations /\ NoJob \in Jobs \cup {NoJob} /\ {} \in SUBSET Jobs
    BY DEF AllOperations
  <2>4. op[c] = "none" /\ UNCHANGED vars /\ calls' = calls + 1
    BY <1>1 DEF Drain
  <2> QED BY <2>1, <2>2, <2>3, <2>4, BeginSafe
<1>2. ASSUME NEW j \in Jobs, NEW o \in AllOperations, NEW more \in SUBSET Jobs,
             o = "RetryJob" => more = {}, Call(c, o, j, more, Program(o)),
             op[c] = "none", UNCHANGED vars, calls' = calls + 1
      PROVE  CallsOK' /\ \A k \in Jobs : Safe(k) => Safe(k)'
  <2>1. /\ Program(o) \in Seq(CommandType) /\ Follows(Program(o))
        /\ "read" \notin VerbsOf(Program(o))
    BY ProgramFacts
  <2> QED BY <1>0, <1>2, <2>1, BeginSafe
<1>3. ASSUME NEW j \in Jobs, RetryJob(c, j)
      PROVE  CallsOK' /\ UNCHANGED vars /\ \A k \in Jobs : Safe(k) => Safe(k)'
  <2>1. /\ "RetryJob" \in AllOperations /\ {} \in SUBSET Jobs
        /\ Call(c, "RetryJob", j, {}, Program("RetryJob"))
        /\ op[c] = "none" /\ UNCHANGED vars /\ calls' = calls + 1
    BY <1>3 DEF RetryJob, AllOperations
  <2> QED BY <1>2, <2>1
<1>4. ASSUME NEW j \in Jobs, RemoveJob(c, j)
      PROVE  CallsOK' /\ UNCHANGED vars /\ \A k \in Jobs : Safe(k) => Safe(k)'
  <2>1. /\ "RemoveJob" \in AllOperations /\ {} \in SUBSET Jobs
        /\ Call(c, "RemoveJob", j, {}, Program("RemoveJob"))
        /\ op[c] = "none" /\ UNCHANGED vars /\ calls' = calls + 1
    BY <1>4 DEF RemoveJob, AllOperations
  <2> QED BY <1>2, <2>1
<1>5. ASSUME NEW o \in Operations, NEW old \in SUBSET Jobs, Clean(c, o, old)
      PROVE  CallsOK' /\ UNCHANGED vars /\ \A k \in Jobs : Safe(k) => Safe(k)'
  <2>1. /\ o \in AllOperations /\ o # "RetryJob"
        /\ op[c] = "none" /\ UNCHANGED vars /\ calls' = calls + 1
    BY <1>5 DEF Clean
  <2>2. PICK j \in old : Call(c, o, j, old \ {j}, Program(o))
    BY <1>5 DEF Clean
  <2>3. j \in Jobs /\ old \ {j} \in SUBSET Jobs
    OBVIOUS
  <2> QED BY <1>2, <2>1, <2>2, <2>3
<1> QED BY <1>1, <1>3, <1>4, <1>5 DEF Drain

\* A command keeps the shape of the calls.
LEMMA CommandShaped ==
  ASSUME CallsOK, NEW c \in Callers, Verb(c) # "", calls' = calls,
         NEW found \in SUBSET Jobs, op[c] = "RetryJob" => found = {}, Proceed(c, found)
  PROVE  CallsOK'
  BY ProceedShaped DEF CallsOK

\* It keeps a job safe if it records the job it decides about, and if the job is safe after
\* it that was conserved before.
LEMMA CommandSafe ==
  ASSUME CallsOK, NEW c \in Callers, Verb(c) # "",
         NEW found \in SUBSET Jobs, op[c] = "RetryJob" => found = {}, Proceed(c, found),
         ids[c] \subseteq found, NEW k \in Jobs, Safe(k), Conserved(k) => Safe(k)',
         cur[c] = k /\ Verb(c) \in Deciding => Conserved(k)'
  PROVE  Safe(k)'
<1>1. ASSUME NEW d \in Callers, CallHolds(d, k) PROVE Safe(k)'
  <2>1. CASE d = c /\ cur[c] = k /\ Verb(c) \in Deciding
    BY <2>1 DEF Safe
  <2>2. CASE ~(d = c /\ cur[c] = k /\ Verb(c) \in Deciding)
    <3>1. \E e \in Callers : CallHolds(e, k)'
      BY <1>1, <2>2, ProceedHolds DEF CallsOK
    <3> QED BY <3>1 DEF Safe
  <2> QED BY <2>1, <2>2
<1> QED BY <1>1 DEF Safe

\* A read of Drain.
LEMMA ReadKeeps ==
  ASSUME TypeOK, CallsOK, NEW c \in Callers, Read(c)
  PROVE  TypeOK' /\ CallsOK' /\ \A k \in Jobs : Safe(k) => Safe(k)'
<1> DEFINE found == ids[c] \cup Members(KeyOf(c))
<1>1. UNCHANGED vars /\ calls' = calls /\ Verb(c) = "read" /\ Proceed(c, found)
  BY DEF Read
<1>2. found \in SUBSET Jobs /\ ids[c] \subseteq found
  BY DEF CallsOK, CallTypes, Members
<1>3. op[c] # "RetryJob"
  BY <1>1, FirstVerb DEF CallsOK, Shaped
<1>4. TypeOK' /\ \A k \in Jobs : Conserved(k) => Conserved(k)'
  BY <1>1, NextTypeOK, NextKeeps
<1> HIDE DEF found
<1>5. CallsOK'
  BY <1>1, <1>2, <1>3, CommandShaped
<1>6. ASSUME NEW k \in Jobs, Safe(k) PROVE Safe(k)'
  <2>1. Conserved(k) => Safe(k)'
    BY <1>4 DEF Safe
  <2>2. Verb(c) \notin Deciding
    BY <1>1 DEF Deciding
  <2> QED BY <1>1, <1>2, <1>3, <1>6, <2>1, <2>2, CommandSafe
<1> QED BY <1>4, <1>5, <1>6

\* The commands that go on with the ids of the call, when none of them is lost by it.
LEMMA StepKeeps ==
  ASSUME CallsOK, NEW c \in Callers, Verb(c) # "", calls' = calls, Proceed(c, ids[c]),
         NEW k \in Jobs, Safe(k), Conserved(k) => Safe(k)',
         cur[c] = k /\ Verb(c) \in Deciding => Conserved(k)'
  PROVE  Safe(k)'
<1>1. ids[c] \in SUBSET Jobs /\ (op[c] = "RetryJob" => ids[c] = {})
  BY DEF CallsOK, CallTypes, Shaped
<1> QED BY <1>1, CommandSafe

\* They keep the shape of the calls.
LEMMA StepShaped ==
  ASSUME CallsOK, NEW c \in Callers, Verb(c) # "", calls' = calls, Proceed(c, ids[c])
  PROVE  CallsOK'
<1>1. ids[c] \in SUBSET Jobs /\ (op[c] = "RetryJob" => ids[c] = {})
  BY DEF CallsOK, CallTypes, Shaped
<1> QED BY <1>1, CommandShaped

\* LREM, ZREM and DEL of a key.
LEMMA TakeOutKeeps ==
  ASSUME TypeOK, CallsOK, NEW c \in Callers, TakeOut(c)
  PROVE  TypeOK' /\ CallsOK' /\ \A k \in Jobs : Safe(k) => Safe(k)'
<1> DEFINE key == KeyOf(c)
           risk == IF Verb(c) = "empty" THEN Members(key) \ ids[c] ELSE {}
<1>1. /\ Verb(c) \in {"rem", "empty"}
      /\ (key = "wait" /\ LeaveInWait(Taken(c))) \/ (key # "wait" /\ UNCHANGED wait)
      /\ prioritized' = IF key = "prioritized" THEN prioritized \ Taken(c) ELSE prioritized
      /\ delayed' = IF key = "delayed" THEN delayed \ Taken(c) ELSE delayed
      /\ active' = [j \in Jobs |-> IF key = "active" /\ j \in Taken(c) THEN 0 ELSE active[j]]
      /\ completed' = IF key = "completed" THEN completed \ Taken(c) ELSE completed
      /\ failed' = IF key = "failed" THEN failed \ Taken(c) ELSE failed
      /\ atRisk' = atRisk \cup risk
      /\ Proceed(c, ids[c])
      /\ UNCHANGED <<hash, attemptsMade, opts, lock, paused, add, slotVars, checkerVars, overrun, spent, calls>>
  BY DEF TakeOut, hashes
<1>2. Taken(c) \in SUBSET Jobs /\ (Verb(c) = "rem" => cur[c] \in Jobs)
  BY <1>1, FirstVerb DEF Taken
<1>3. KeysTypeOK
  BY DEF TypeOK
<1>4. wait' \in Seq(Jobs) /\ \A k \in Jobs : k \notin Taken(c) \/ key # "wait" => (InWait(k) => InWait(k)')
  <2>1. CASE key = "wait" /\ LeaveInWait(Taken(c))
    BY <1>2, <1>3, <2>1, LeaveFacts DEF KeysTypeOK
  <2>2. CASE key # "wait" /\ UNCHANGED wait
    BY <1>3, <2>2 DEF KeysTypeOK, InWait
  <2> QED BY <1>1, <2>1, <2>2
<1>5. risk \subseteq Jobs
  BY DEF Members
<1> HIDE DEF risk
<1>6. TypeOK'
  <2>1. KeysTypeOK'
    BY <1>1, <1>3, <1>4 DEF KeysTypeOK
  <2>2. atRisk' \subseteq Jobs
    BY <1>1, <1>5 DEF TypeOK
  <2> QED BY <1>1, <2>1, <2>2, KeysChanged
<1>7. CallsOK'
  BY <1>1, StepShaped
<1>8. ASSUME NEW k \in Jobs, Conserved(k), Recorded(k) => Recorded(k)' PROVE Conserved(k)'
  BY <1>1, <1>8, StaysConserved
<1>9. ASSUME NEW k \in Jobs, Conserved(k) PROVE Safe(k)'
  <2>1. CASE Verb(c) = "rem"
    <3>1. CASE cur[c] = k
      <4>1. ids[c] \in SUBSET Jobs
        BY DEF CallsOK, CallTypes
      <4>2. CallHolds(c, k)'
        BY <1>1, <2>1, <3>1, <4>1, RemHolds DEF CallsOK
      <4> QED BY <4>2 DEF Safe
    <3>2. CASE cur[c] # k
      <4>1. k \notin Taken(c)
        BY <2>1, <3>2 DEF Taken
      <4>2. Recorded(k) => Recorded(k)'
        BY <1>1, <1>3, <1>4, <4>1 DEF Recorded, KeysTypeOK
      <4> QED BY <1>8, <1>9, <4>2 DEF Safe
    <3> QED BY <3>1, <3>2
  <2>2. CASE Verb(c) = "empty" /\ k \in ids[c]
    <3>1. CallHolds(c, k)
      <4>1. op[c] # "none"
        BY <2>2, VerbFacts DEF CallsOK, Shaped
      <4> QED BY <2>2, <4>1 DEF CallHolds
    <3>2. ids[c] \in SUBSET Jobs /\ (op[c] = "RetryJob" => ids[c] = {})
      BY DEF CallsOK, CallTypes, Shaped
    <3>3. \E e \in Callers : CallHolds(e, k)'
      BY <1>1, <2>2, <3>1, <3>2, ProceedHolds DEF CallsOK, Deciding
    <3> QED BY <3>3 DEF Safe
  <2>3. CASE Verb(c) = "empty" /\ k \notin ids[c] /\ k \in Members(key)
    <3>1. k \in atRisk'
      BY <1>1, <2>3 DEF risk
    <3> QED BY <3>1 DEF Safe, Conserved
  <2>4. CASE k \notin Members(key)
    <3>1. InWait(k) => InWait(k)'
      BY <1>4, <2>4 DEF Members
    <3>2. Recorded(k) => Recorded(k)'
      BY <1>1, <1>3, <2>4, <3>1 DEF Recorded, KeysTypeOK, Members
    <3> QED BY <1>8, <1>9, <3>2 DEF Safe
  <2> QED BY <1>1, <2>1, <2>2, <2>3, <2>4
<1>10. ASSUME NEW k \in Jobs, Safe(k) PROVE Safe(k)'
  BY <1>1, <1>9, <1>10, StepKeeps DEF Deciding
<1> QED BY <1>6, <1>7, <1>10

\* DEL of a hash or a lock, HSET and HDEL.
LEMMA RecordKeeps ==
  ASSUME TypeOK, CallsOK, NEW c \in Callers,
         DeleteHash(c) \/ DeleteLock(c) \/ ResetAttempts(c) \/ DropReason(c)
  PROVE  TypeOK' /\ CallsOK' /\ \A k \in Jobs : Safe(k) => Safe(k)'
<1> USE DEF OnJob, pending, finished, hashes, history
<1>1. /\ Verb(c) \in {"hash", "lock", "reset", "reason"} /\ Proceed(c, ids[c])
      /\ UNCHANGED <<wait, prioritized, delayed, active, completed, failed, paused>>
      /\ UNCHANGED <<add, slotVars, checkerVars, atRisk, overrun, spent, calls>>
  BY DEF DeleteHash, DeleteLock, ResetAttempts, DropReason
<1>2. KeysTypeOK /\ cur[c] \in Jobs
  BY <1>1, FirstVerb DEF TypeOK
<1>3. /\ KeysTypeOK' /\ \A k \in Jobs : "job" \in hash'[k] => "job" \in hash[k]
      /\ Verb(c) = "hash" => "job" \notin hash'[cur[c]]
  <2>1. CASE DeleteHash(c)
    BY <1>1, <1>2, <2>1, ZeroOptionsType DEF DeleteHash, DelJob, KeysTypeOK
  <2>2. CASE DeleteLock(c)
    BY <1>1, <1>2, <2>2 DEF DeleteLock, DelLock, KeysTypeOK
  <2>3. CASE ResetAttempts(c)
    BY <1>1, <1>2, <2>3 DEF ResetAttempts, HSetAttempts, KeysTypeOK, Fields
  <2>4. CASE DropReason(c)
    BY <1>1, <1>2, <2>4 DEF DropReason, KeysTypeOK, Fields
  <2> QED BY <2>1, <2>2, <2>3, <2>4
<1>4. TypeOK'
  BY <1>1, <1>3, KeysChanged DEF TypeOK
<1>5. CallsOK'
  BY <1>1, StepShaped
<1>6. ASSUME NEW k \in Jobs, Conserved(k) PROVE Conserved(k)'
  <2>1. Recorded(k) => Recorded(k)'
    BY <1>1, RecordedSame
  <2> QED BY <1>1, <1>3, <1>6, <2>1, StaysConserved
<1>7. ASSUME NEW k \in Jobs, cur[c] = k, Verb(c) \in Deciding PROVE Conserved(k)'
  BY <1>1, <1>3, <1>7 DEF Deciding, Conserved
<1>8. ASSUME NEW k \in Jobs, Safe(k) PROVE Safe(k)'
  <2>1. Conserved(k) => Safe(k)'
    BY <1>6 DEF Safe
  <2> QED BY <1>1, <1>7, <1>8, <2>1, StepKeeps
<1> QED BY <1>4, <1>5, <1>8

\* LPUSH of RetryJob, and ZADD of its rollback, record the job.
LEMMA ReturnKeeps ==
  ASSUME TypeOK, CallsOK, NEW c \in Callers, PushBack(c) \/ RollBack(c)
  PROVE  TypeOK' /\ CallsOK' /\ \A k \in Jobs : Safe(k) => Safe(k)'
<1> USE DEF pending, finished, hashes, history
<1>1. /\ Verb(c) \in {"push", "rollback"} /\ Proceed(c, ids[c])
      /\ UNCHANGED <<prioritized, delayed, active, completed, hash, attemptsMade, opts, lock, paused>>
      /\ UNCHANGED <<add, slotVars, checkerVars, atRisk, overrun, spent, calls>>
      /\ \/ LPushWait(cur[c]) /\ UNCHANGED failed
         \/ failed' = failed \cup {cur[c]} /\ UNCHANGED wait
  BY DEF PushBack, RollBack
<1>2. KeysTypeOK /\ cur[c] \in Jobs
  BY <1>1, FirstVerb DEF TypeOK
<1>3. KeysTypeOK' /\ \A k \in Jobs : cur[c] = k \/ Recorded(k) => Recorded(k)'
  <2>1. CASE LPushWait(cur[c]) /\ UNCHANGED failed
    <3>1. PICK j \in Jobs : cur[c] = j /\ LPushWait(j)
      BY <1>2, <2>1
    <3>2. wait' \in Seq(Jobs) /\ InWait(j)' /\ \A k \in Jobs : InWait(k) => InWait(k)'
      BY <1>2, <3>1, PushFacts DEF KeysTypeOK
    <3> QED BY <1>1, <1>2, <2>1, <3>1, <3>2 DEF KeysTypeOK, Recorded
  <2>2. CASE failed' = failed \cup {cur[c]} /\ UNCHANGED wait
    BY <1>1, <1>2, <2>2 DEF KeysTypeOK, Recorded, InWait
  <2> QED BY <1>1, <2>1, <2>2
<1>4. TypeOK'
  BY <1>1, <1>3, KeysChanged DEF TypeOK
<1>5. CallsOK'
  BY <1>1, StepShaped
<1>6. ASSUME NEW k \in Jobs, Conserved(k) PROVE Conserved(k)'
  BY <1>1, <1>3, <1>6, StaysConserved
<1>7. ASSUME NEW k \in Jobs, cur[c] = k PROVE Conserved(k)'
  <2>1. Recorded(k)'
    BY <1>3, <1>7
  <2> QED BY <2>1 DEF Conserved, Kept
<1>8. ASSUME NEW k \in Jobs, Safe(k) PROVE Safe(k)'
  <2>1. Conserved(k) => Safe(k)'
    BY <1>6 DEF Safe
  <2> QED BY <1>1, <1>7, <1>8, <2>1, StepKeeps
<1> QED BY <1>4, <1>5, <1>8

\* An error of the pipeline of RetryJob leaves the id to the rollback.
LEMMA ExecFailsKeeps ==
  ASSUME TypeOK, CallsOK, NEW c \in Callers, ExecFails(c)
  PROVE  TypeOK' /\ CallsOK' /\ \A k \in Jobs : Safe(k) => Safe(k)'
<1> USE DEF finished, hashes
<1> DEFINE cmds == Command("rollback")
<1>1. /\ Verb(c) \in {"reset", "reason", "push"} /\ Spend("fault")
      /\ Call(c, op[c], cur[c], ids[c], cmds)
      /\ UNCHANGED <<prioritized, delayed, active, completed, failed, hash, attemptsMade, opts, lock, paused>>
      /\ UNCHANGED <<add, slotVars, checkerVars, atRisk, overrun, calls>>
      /\ UNCHANGED wait \/ LPushWait(cur[c])
  BY DEF ExecFails
<1>2. KeysTypeOK /\ cur[c] \in Jobs /\ cur[c] # NoJob
  BY <1>1, FirstVerb, KeysAssumption DEF TypeOK, KeysAssumption
<1>3. cmds \in Seq(CommandType) /\ VerbsOf(cmds) = {"rollback"} /\ Follows(cmds)
  BY CommandFacts DEF Verbs
<1> HIDE DEF cmds
<1>4. KeysTypeOK' /\ \A k \in Jobs : Recorded(k) => Recorded(k)'
  <2>1. wait' \in Seq(Jobs) /\ \A k \in Jobs : InWait(k) => InWait(k)'
    <3>1. CASE UNCHANGED wait
      BY <1>2, <3>1 DEF KeysTypeOK, InWait
    <3>2. CASE LPushWait(cur[c])
      BY <1>2, <3>2, PushFacts DEF KeysTypeOK
    <3> QED BY <1>1, <3>1, <3>2
  <2> QED BY <1>1, <1>2, <2>1 DEF KeysTypeOK, Recorded
<1>5. TypeOK'
  BY <1>1, <1>4, KeysChanged DEF TypeOK
<1>6. op'[c] = op[c] /\ cur'[c] = cur[c] /\ ids'[c] = ids[c] /\ commands'[c] = cmds
  BY <1>1, CallFacts DEF CallsOK
<1>7. op[c] # "none"
  BY <1>1, VerbFacts DEF CallsOK, Shaped
<1>8. CallsOK'
  <2>1. Shaped(c)'
    BY <1>2, <1>3, <1>6, <1>7 DEF CallsOK, Shaped
  <2>2. CallTypes'
    <3>1. /\ op[c] \in AllOperations \cup {"none"} /\ cur[c] \in Jobs \cup {NoJob}
          /\ ids[c] \subseteq Jobs /\ CallTypes
      BY DEF CallsOK, CallTypes
    <3> QED BY <1>1, <1>3, <3>1, CallFacts
  <2>3. \A d \in Callers : d # c => (Shaped(d) => Shaped(d)')
    BY <1>1, CallFacts DEF CallsOK
  <2> QED BY <1>1, <2>1, <2>2, <2>3 DEF CallsOK
<1>9. ASSUME NEW k \in Jobs, Conserved(k) PROVE Conserved(k)'
  BY <1>1, <1>4, <1>9, StaysConserved
<1>10. ASSUME NEW k \in Jobs, NEW d \in Callers, CallHolds(d, k) PROVE CallHolds(d, k)'
  <2>1. CASE d = c
    BY <1>3, <1>6, <1>10, <2>1 DEF CallHolds, Deciding
  <2>2. CASE d # c
    BY <1>1, <1>10, <2>2, CallFacts DEF CallsOK
  <2> QED BY <2>1, <2>2
<1> QED BY <1>5, <1>8, <1>9, <1>10 DEF Safe

\* A call that ends halfway puts at risk what it held in no key.
LEMMA CallFailsKeeps ==
  ASSUME TypeOK, CallsOK, NEW c \in Callers, CallFails(c)
  PROVE  TypeOK' /\ CallsOK' /\ \A k \in Jobs : Safe(k) => Safe(k)'
<1> DEFINE risk == { j \in Jobs : CallHolds(c, j) /\ ~Recorded(j) }
<1>1. /\ Spend("fault") /\ Call(c, "none", NoJob, {}, << >>) /\ atRisk' = atRisk \cup risk
      /\ UNCHANGED <<wait, prioritized, delayed, active, completed, failed, hash, attemptsMade, opts, lock, paused>>
      /\ UNCHANGED <<add, slotVars, checkerVars, overrun, calls>>
  BY DEF CallFails, keys
<1>2. \A k \in Jobs : k \in risk <=> CallHolds(c, k) /\ ~Recorded(k)
  OBVIOUS
<1>3. risk \subseteq Jobs
  OBVIOUS
<1> HIDE DEF risk
<1>4. TypeOK'
  <2>1. KeysTypeOK'
    BY <1>1 DEF TypeOK, KeysTypeOK
  <2>2. atRisk' \subseteq Jobs
    BY <1>1, <1>3 DEF TypeOK
  <2> QED BY <1>1, <2>1, <2>2, KeysChanged
<1>5. CallsOK'
  <2>1. << >> \in Seq(CommandType) /\ Follows(<< >>) /\ VerbsOf(<< >>) = {}
    BY NothingFacts
  <2>2. op'[c] = "none" /\ cur'[c] = NoJob /\ commands'[c] = << >>
    BY <1>1, CallFacts DEF CallsOK
  <2>3. Shaped(c)'
    BY <2>1, <2>2 DEF Shaped
  <2>4. CallTypes'
    BY <1>1, <2>1, CallFacts DEF CallsOK
  <2>5. \A d \in Callers : d # c => (Shaped(d) => Shaped(d)')
    BY <1>1, CallFacts DEF CallsOK
  <2> QED BY <1>1, <2>3, <2>4, <2>5 DEF CallsOK
<1>6. \A k \in Jobs : Recorded(k)' <=> Recorded(k)
  BY <1>1, RecordedSame
<1>7. ASSUME NEW k \in Jobs, Conserved(k) PROVE Conserved(k)'
  BY <1>1, <1>6, <1>7, StaysConserved
<1>8. ASSUME NEW k \in Jobs, NEW d \in Callers, CallHolds(d, k) PROVE Safe(k)'
  <2>1. CASE d # c
    <3>1. CallHolds(d, k)'
      BY <1>1, <1>8, <2>1, CallFacts DEF CallsOK
    <3> QED BY <3>1 DEF Safe
  <2>2. CASE d = c
    <3>1. k \in atRisk' \/ Recorded(k)'
      BY <1>1, <1>2, <1>6, <1>8, <2>2
    <3> QED BY <3>1 DEF Safe, Conserved, Kept
  <2> QED BY <2>1, <2>2
<1> QED BY <1>4, <1>5, <1>7, <1>8 DEF Safe

-----------------------------------------------------------------------------
(* Theorems *)

AdminInv == TypeOK /\ CallsOK /\ \A k \in Jobs : Safe(k)

\* It holds at first.
LEMMA AdminInitInv == AdminInit => AdminInv
<1> SUFFICES ASSUME AdminInit PROVE AdminInv
  OBVIOUS
<1>1. TypeOK /\ \A k \in Jobs : Conserved(k)
  BY InitTypeOK DEF AdminInit, Init, ProducerInit, Conserved
<1>2. CallTypes /\ calls \in Nat
  BY NothingFacts DEF AdminInit, CallTypes
<1>3. \A c \in Callers : Shaped(c)
  BY NothingFacts DEF AdminInit, Shaped
<1> QED BY <1>1, <1>2, <1>3 DEF AdminInv, CallsOK, Safe

\* Every step keeps it.
LEMMA AdminNextInv == AdminInv /\ [AdminNext]_allVars => AdminInv'
<1> SUFFICES ASSUME AdminInv, [AdminNext]_allVars PROVE AdminInv'
  OBVIOUS
<1> USE DEF AdminInv
<1>1. CASE [Next]_vars /\ UNCHANGED adminVars
  <2>1. TypeOK' /\ \A k \in Jobs : Conserved(k) => Conserved(k)'
    BY <1>1, NextTypeOK, NextKeeps
  <2>2. CallsOK' /\ \A c \in Callers, k \in Jobs : CallHolds(c, k) => CallHolds(c, k)'
    BY <1>1 DEF adminVars, CallsOK, CallTypes, Shaped, CallHolds
  <2> QED BY <2>1, <2>2 DEF Safe
<1>2. ASSUME NEW c \in Callers,
             \/ Drain(c)
             \/ \E j \in Jobs : RetryJob(c, j) \/ RemoveJob(c, j)
             \/ \E o \in Operations, old \in SUBSET Jobs : Clean(c, o, old)
      PROVE  AdminInv'
  <2>1. CallsOK' /\ UNCHANGED vars /\ \A k \in Jobs : Safe(k) => Safe(k)'
    BY <1>2, BeginKeeps
  <2>2. TypeOK'
    BY <2>1, NextTypeOK
  <2> QED BY <2>1, <2>2
<1>3. ASSUME NEW c \in Callers, Read(c) \/ TakeOut(c) PROVE AdminInv'
  BY <1>3, ReadKeeps, TakeOutKeeps
<1>4. ASSUME NEW c \in Callers,
             DeleteHash(c) \/ DeleteLock(c) \/ ResetAttempts(c) \/ DropReason(c)
      PROVE  AdminInv'
  BY <1>4, RecordKeeps
<1>5. ASSUME NEW c \in Callers, PushBack(c) \/ RollBack(c) PROVE AdminInv'
  BY <1>5, ReturnKeeps
<1>6. ASSUME NEW c \in Callers, ExecFails(c) \/ CallFails(c) PROVE AdminInv'
  BY <1>6, ExecFailsKeeps, CallFailsKeeps
<1> QED
  BY <1>1, <1>2, <1>3, <1>4, <1>5, <1>6 DEF AdminNext, allVars

\* Every variable of queue and callers keeps its type; a call sends nothing but the commands
\* of its method.
THEOREM AdminTypeCorrect == AdminSpec => []AdminTypeOK
<1>1. AdminInv => AdminTypeOK
  BY DEF AdminInv, CallsOK, CallTypes, CommandType, AdminTypeOK
<1> QED BY <1>1, AdminInitInv, AdminNextInv, PTL DEF AdminSpec

\* RemoveJob, Clean, Drain and RetryJob, by any number of callers beside producers, workers
\* and checkers, with commands that fail and calls that end halfway, leave a queued job in no
\* key only while a call has yet to push it back or to delete its hash, but for atRisk.
THEOREM AdminConserves == AdminSpec => []AdminConserved
<1>1. AdminInv => AdminConserved
  BY DEF AdminInv, Safe, AdminConserved
<1> QED BY <1>1, AdminInitInv, AdminNextInv, PTL DEF AdminSpec
=============================================================================
