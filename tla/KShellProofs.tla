---------------------------- MODULE KShellProofs -----------------------------
(***************************************************************************)
(* The kernel shell's line for every size of its buffer, every alphabet and *)
(* every set of commands; then userspawn, which reads its argument from     *)
(* that line, for every archive.                                            *)
(***************************************************************************)
EXTENDS Spawn, SequenceTheorems, WellFoundedInduction, TLAPS

\* A line is executed only while its newline stands.
ReadyWhileExecuting == at \in {"exec", "word", "search", "run"} => command_ready

\* Characters before the first space, or all of them.
WordLength ==
    LET ends == {i \in 0 .. length : i = length \/ buffer[i] = SPACE}
    IN  CHOOSE i \in ends : \A j \in ends : i <= j

\* kshell_exec's loop has passed no space, and the word it measured is still the
\* line's first.
WordStands ==
    /\ at = "word" /\ ~disturbed =>
          cursor <= length /\ \A i \in 0 .. cursor - 1 : buffer[i] # SPACE
    /\ at = "search" /\ ~disturbed => cursor = WordLength

\* KShellTypeOK but for the place in the loop: Spawn has more places.
LineTypeOK ==
    /\ buffer \in [Indices -> Printable \cup {NUL}]
    /\ length \in Indices
    /\ {command_ready, active, disturbed} \subseteq BOOLEAN
    /\ cursor \in Indices
    /\ command \in Commands \cup {NONE}
    /\ typed \in Seq(Printable)

LineInv ==
    /\ LineTypeOK /\ LineTerminated /\ LineAsTyped
    /\ ReadyWhileExecuting /\ WordStands /\ RunsTypedCommand

KShellInv == LineInv /\ at \in Points

-----------------------------------------------------------------------------
(* Words *)

\* A non-empty set of naturals has a least element.
LEMMA LeastExists ==
    ASSUME NEW S \in SUBSET Nat, S # {}
    PROVE  \E x \in S : \A y \in S : x <= y
<1> DEFINE R == {ss \in Nat \X Nat : ss[1] < ss[2]}
<1>1. IsWellFoundedOn(R, Nat)
    BY NatLessThanWellFounded DEF OpToRel
<1>2. \E x \in S : \A y \in S : ~ (<<y, x>> \in R)
  <2> HIDE DEF R
  <2> QED BY <1>1, WFMin
<1>3. PICK x \in S : \A y \in S : ~ (<<y, x>> \in R)
    BY <1>2
<1>4. \A y \in S : ~ (y < x)
    BY <1>3
<1> QED BY <1>4

\* The buffer has a last index.
LEMMA LastIndex == BUFFER_SIZE \in Nat /\ BUFFER_SIZE >= 1 /\ BUFFER_SIZE - 1 \in Indices /\ 0 \in Indices
BY KShellAssumption DEF Indices

\* kshell_exec's count stays inside the line.
LEMMA WordLengthIn == ASSUME LineTypeOK PROVE WordLength \in 0 .. length
<1> DEFINE ends == {i \in 0 .. length : i = length \/ buffer[i] = SPACE}
<1>1. length \in Nat
    BY LastIndex DEF LineTypeOK, Indices
<1>2. ends \in SUBSET Nat /\ length \in ends
    BY <1>1
<1>3. \E i \in ends : \A j \in ends : i <= j
  <2> HIDE DEF ends
  <2> QED BY <1>2, LeastExists
<1>4. WordLength \in ends
    BY <1>3 DEF WordLength
<1> QED BY <1>4

\* The first word of what was typed is the first word in the buffer.
LEMMA SameWord ==
    ASSUME LineTypeOK, Len(typed) = length,
           \A i \in 1 .. length : typed[i] = buffer[i - 1]
    PROVE  FirstWord(typed) = SubSeq(typed, 1, WordLength)
<1> DEFINE in_buffer == {i \in 0 .. length : i = length \/ buffer[i] = SPACE}
           in_typed  == {i \in 0 .. Len(typed) : i = Len(typed) \/ typed[i + 1] = SPACE}
<1>1. length \in Nat
    BY LastIndex DEF LineTypeOK, Indices
<1>2. ASSUME NEW i \in 0 .. length, i # length PROVE typed[i + 1] = buffer[i]
  <2>1. i + 1 \in 1 .. length /\ (i + 1) - 1 = i
      BY <1>1, <1>2
  <2> QED BY <2>1
<1>3. in_buffer = in_typed
    BY <1>1, <1>2
<1>4. WordLength = CHOOSE i \in in_buffer : \A j \in in_buffer : i <= j
    BY DEF WordLength
<1>5. FirstWord(typed) = SubSeq(typed, 1, CHOOSE i \in in_typed : \A j \in in_typed : i <= j)
    BY DEF FirstWord
<1> HIDE DEF in_buffer, in_typed
<1> QED BY <1>3, <1>4, <1>5

\* A name the search finds is the first word of what was typed.
LEMMA NameIsWord ==
    ASSUME LineTypeOK, Len(typed) = length,
           \A i \in 1 .. length : typed[i] = buffer[i - 1],
           cursor = WordLength, NEW name \in Commands, Names(name)
    PROVE  name = FirstWord(typed)
<1> DEFINE word == SubSeq(typed, 1, cursor)
<1>1. /\ length \in Nat /\ cursor \in 0 .. length
      /\ typed \in Seq(Printable) /\ name \in Seq(Printable)
  <2>1. name \in Seq(Letters)
      BY KShellAssumption
  <2>2. name \in Seq(Printable)
      BY <2>1, SeqMonotonic DEF Printable
  <2> QED BY <2>2, WordLengthIn, LastIndex DEF LineTypeOK, Indices
<1>2. \A i \in 1 .. cursor : typed[i] \in Printable
    BY <1>1, ElementOfSeq
<1>3. /\ word \in Seq(Printable) /\ Len(word) = cursor
      /\ \A i \in 1 .. cursor : word[i] = typed[i]
  <2>1. /\ word \in Seq(Printable)
        /\ Len(word) = IF 1 <= cursor THEN cursor - 1 + 1 ELSE 0
        /\ \A i \in 1 .. cursor - 1 + 1 : word[i] = typed[1 + i - 1]
      BY <1>1, <1>2, SubSeqProperties
  <2>2. cursor - 1 + 1 = cursor /\ \A i \in 1 .. cursor : 1 + i - 1 = i
      BY <1>1
  <2> HIDE DEF word
  <2> QED BY <1>1, <2>1, <2>2
<1>4. Len(name) = cursor /\ \A i \in 1 .. Len(name) : buffer[i - 1] = name[i]
    BY DEF Names
<1>5. \A i \in 1 .. cursor : i \in 1 .. length
    BY <1>1
<1> HIDE DEF word
<1>6. \A i \in 1 .. Len(name) : name[i] = word[i]
    BY <1>3, <1>4, <1>5
<1>7. name = word
    BY <1>1, <1>3, <1>4, <1>6, SeqEqual
<1> QED BY <1>7, SameWord DEF word

-----------------------------------------------------------------------------
(* The invariant *)

\* The shell before its first kshell_init satisfies it.
LEMMA LineInit == KShellInit => LineInv
<1> SUFFICES ASSUME KShellInit PROVE LineInv
    OBVIOUS
<1>1. LineTypeOK
    BY LastIndex DEF KShellInit, LineTypeOK
<1>2. LineTerminated
    BY LastIndex DEF KShellInit, LineTerminated
<1> QED BY <1>1, <1>2 DEF KShellInit, LineInv, LineAsTyped, ReadyWhileExecuting, WordStands,
                          RunsTypedCommand

\* A newline.
LEMMA NewLineInv ==
    ASSUME LineInv, NewLine, Woken, UNCHANGED <<active, cursor, command>>
    PROVE  LineInv'
<1>1. /\ command_ready' = TRUE
      /\ UNCHANGED <<buffer, length, typed, disturbed, active, cursor, command>>
      /\ \A p \in {"memset", "reset", "reset_length", "word", "search", "exec", "run"} :
            at' = p <=> at = p
    BY DEF NewLine, Woken
<1>2. LineTypeOK'
    BY <1>1 DEF LineInv, LineTypeOK
<1>3. LineTerminated' /\ LineAsTyped'
    BY <1>1 DEF LineInv, LineTerminated, LineAsTyped
<1>4. WordLength' = WordLength
    BY <1>1 DEF WordLength
<1>5. ReadyWhileExecuting' /\ WordStands' /\ RunsTypedCommand'
    BY <1>1, <1>4 DEF LineInv, ReadyWhileExecuting, WordStands, RunsTypedCommand
<1> QED BY <1>2, <1>3, <1>5 DEF LineInv

\* A key that changes the line leaves what is executed to be disturbed.
LEMMA ChangedLine ==
    ASSUME LineInv, Woken, disturbed' = command_ready, UNCHANGED <<command_ready, active, cursor, command>>,
           length' \in Indices, buffer' \in [Indices -> Printable \cup {NUL}],
           typed' \in Seq(Printable), LineTerminated', LineAsTyped'
    PROVE  LineInv'
<1>1. \A p \in {"word", "search", "exec", "run"} : at' = p <=> at = p
    BY DEF Woken
<1>2. LineTypeOK'
    BY <1>1 DEF LineInv, LineTypeOK
<1>3. ReadyWhileExecuting' /\ (at' \in {"word", "search", "run"} => disturbed')
    BY <1>1 DEF LineInv, ReadyWhileExecuting
<1>4. WordStands' /\ RunsTypedCommand'
    BY <1>3 DEF WordStands, RunsTypedCommand
<1> QED BY <1>2, <1>3, <1>4 DEF LineInv

\* A printable character.
LEMMA CharacterInv ==
    ASSUME LineInv, NEW ch \in Printable, Character(ch), Woken,
           UNCHANGED <<active, cursor, command>>
    PROVE  LineInv'
<1>1. /\ length \in Nat /\ length < BUFFER_SIZE - 1
      /\ buffer \in [Indices -> Printable \cup {NUL}] /\ typed \in Seq(Printable)
    BY LastIndex DEF Character, Room, LineInv, LineTypeOK, Indices
<1>2. /\ buffer' = [buffer EXCEPT ![length] = ch, ![length + 1] = NUL]
      /\ length' = length + 1
      /\ typed' = Append(typed, ch)
      /\ disturbed' = command_ready /\ UNCHANGED command_ready
    BY DEF Character, Typed
<1>3. length \in Indices /\ length + 1 \in Indices /\ length # length + 1
    BY <1>1, LastIndex DEF Indices
<1>4. buffer' \in [Indices -> Printable \cup {NUL}] /\ length' \in Indices
    BY <1>1, <1>2, <1>3
<1>5. /\ typed' \in Seq(Printable) /\ Len(typed') = Len(typed) + 1
      /\ \A i \in 1 .. Len(typed) : typed'[i] = typed[i]
      /\ typed'[Len(typed) + 1] = ch
    BY <1>1, <1>2, AppendProperties
<1>6. LineTerminated'
    BY <1>1, <1>2, <1>3, LastIndex DEF LineInv, LineTerminated
<1>7. LineAsTyped'
  <2> SUFFICES ASSUME at' \notin {"memset", "reset", "reset_length"}
               PROVE  /\ Len(typed') = length'
                      /\ \A i \in 1 .. length' : typed'[i] = buffer'[i - 1]
      BY DEF LineAsTyped
  <2>1. Len(typed) = length /\ \A i \in 1 .. length : typed[i] = buffer[i - 1]
      BY DEF LineInv, LineAsTyped, Woken
  <2>2. ASSUME NEW i \in 1 .. length + 1 PROVE typed'[i] = buffer'[i - 1]
    <3>1. CASE i = length + 1
      <4>1. i - 1 = length /\ buffer'[length] = ch
          BY <1>1, <1>2, <1>3, <3>1
      <4> QED BY <1>5, <2>1, <3>1, <4>1
    <3>2. CASE i # length + 1
      <4>1. i \in 1 .. length /\ i - 1 \in Indices /\ i - 1 # length /\ i - 1 # length + 1
          BY <1>1, <3>2, LastIndex DEF Indices
      <4> QED BY <1>1, <1>2, <1>3, <1>5, <2>1, <4>1
    <3> QED BY <3>1, <3>2
  <2> QED BY <1>2, <1>5, <2>1, <2>2
<1> QED BY <1>2, <1>4, <1>5, <1>6, <1>7, ChangedLine

\* A backspace.
LEMMA BackspaceInv ==
    ASSUME LineInv, Backspace, Woken, UNCHANGED <<active, cursor, command>>
    PROVE  LineInv'
<1>1. /\ length \in Nat /\ length > 0 /\ length \in Indices
      /\ buffer \in [Indices -> Printable \cup {NUL}] /\ typed \in Seq(Printable)
    BY LastIndex DEF Backspace, LineInv, LineTypeOK, Indices
<1>2. /\ buffer' = [buffer EXCEPT ![length - 1] = NUL]
      /\ length' = length - 1
      /\ typed' = IF typed = <<>> THEN typed ELSE SubSeq(typed, 1, Len(typed) - 1)
      /\ disturbed' = command_ready /\ UNCHANGED command_ready
    BY DEF Backspace
<1>3. length - 1 \in Indices
    BY <1>1, LastIndex DEF Indices
<1>4. buffer' \in [Indices -> Printable \cup {NUL}] /\ length' \in Indices
    BY <1>1, <1>2, <1>3
<1>5. ASSUME typed # <<>>
      PROVE  /\ typed' \in Seq(Printable) /\ Len(typed') = Len(typed) - 1
             /\ \A i \in 1 .. Len(typed) - 1 : typed'[i] = typed[i]
  <2> DEFINE n == Len(typed) - 1
  <2>1. n \in Nat /\ n + 1 = Len(typed)
      BY <1>1, <1>5, EmptySeq
  <2>2. \A i \in 1 .. n : typed[i] \in Printable
      BY <1>1, <2>1, ElementOfSeq
  <2> HIDE DEF n
  <2>3. /\ SubSeq(typed, 1, n) \in Seq(Printable)
        /\ Len(SubSeq(typed, 1, n)) = IF 1 <= n THEN n - 1 + 1 ELSE 0
        /\ \A i \in 1 .. n - 1 + 1 : SubSeq(typed, 1, n)[i] = typed[1 + i - 1]
      BY <2>1, <2>2, SubSeqProperties
  <2>4. typed' = SubSeq(typed, 1, n)
      BY <1>2, <1>5 DEF n
  <2>5. n - 1 + 1 = n /\ \A i \in 1 .. n : 1 + i - 1 = i
      BY <2>1
  <2>6. typed' \in Seq(Printable) /\ Len(typed') = n /\ \A i \in 1 .. n : typed'[i] = typed[i]
      BY <2>1, <2>3, <2>4, <2>5
  <2> QED BY <2>6 DEF n
<1>6. typed' \in Seq(Printable)
    BY <1>1, <1>2, <1>5
<1>7. LineTerminated'
    BY <1>1, <1>2, <1>3, LastIndex DEF LineInv, LineTerminated
<1>8. LineAsTyped'
  <2> SUFFICES ASSUME at' \notin {"memset", "reset", "reset_length"}
               PROVE  /\ Len(typed') = length'
                      /\ \A i \in 1 .. length' : typed'[i] = buffer'[i - 1]
      BY DEF LineAsTyped
  <2>1. Len(typed) = length /\ \A i \in 1 .. length : typed[i] = buffer[i - 1]
      BY DEF LineInv, LineAsTyped, Woken
  <2>2. typed # <<>>
      BY <1>1, <2>1
  <2>3. ASSUME NEW i \in 1 .. length - 1 PROVE typed'[i] = buffer'[i - 1]
    <3>1. i \in 1 .. length /\ i - 1 \in Indices /\ i - 1 # length - 1
        BY <1>1, LastIndex DEF Indices
    <3> QED BY <1>1, <1>2, <1>5, <2>1, <2>2, <3>1
  <2> QED BY <1>2, <1>5, <2>1, <2>2, <2>3
<1> QED BY <1>2, <1>4, <1>6, <1>7, <1>8, ChangedLine

\* One store of memset.
LEMMA MemsetInv == ASSUME LineInv, Memset PROVE LineInv'
<1>1. /\ cursor \in Indices /\ at = "memset" /\ at' \in {"memset", "reset"}
      /\ buffer' = [buffer EXCEPT ![cursor] = NUL]
      /\ cursor' = (cursor + 1) % BUFFER_SIZE
      /\ UNCHANGED <<length, command_ready, active, command, typed, disturbed>>
    BY DEF Memset, LineInv, LineTypeOK
<1>2. cursor' \in Indices
    BY <1>1, LastIndex DEF Indices
<1>3. LineTypeOK'
    BY <1>1, <1>2 DEF LineInv, LineTypeOK
<1>4. LineTerminated'
    BY <1>1, LastIndex DEF LineInv, LineTypeOK, LineTerminated
<1> QED BY <1>1, <1>3, <1>4 DEF LineInv, LineAsTyped, ReadyWhileExecuting, WordStands,
                                RunsTypedCommand

\* A step of kmain's loop that leaves the line and the flags alone, and neither
\* begins nor ends a search.
LEMMA LoopStepInv ==
    ASSUME LineInv, UNCHANGED <<buffer, length, typed>>, active' \in BOOLEAN,
           command_ready' \in BOOLEAN, disturbed' \in BOOLEAN,
           cursor' \in Indices, command' \in Commands \cup {NONE},
           at' \in {"memset", "reset", "reset_length"}
              \/ at \notin {"memset", "reset", "reset_length"},
           at' \notin {"word", "search", "run"}, at' = "exec" => command_ready'
    PROVE  LineInv'
<1>1. LineTypeOK'
    BY DEF LineInv, LineTypeOK
<1>2. LineTerminated' /\ LineAsTyped'
    BY DEF LineInv, LineTerminated, LineAsTyped
<1> QED BY <1>1, <1>2 DEF LineInv, ReadyWhileExecuting, WordStands, RunsTypedCommand

\* The two stores that end kshell_init.
LEMMA ResetInv == ASSUME LineInv, ResetLength \/ ResetReady PROVE LineInv'
<1>1. CASE ResetLength
  <2>1. /\ length' = 0 /\ typed' = <<>> /\ at' \in {"reset_ready", "prompt"}
        /\ UNCHANGED <<buffer, command_ready, active, cursor, command, disturbed>>
      BY <1>1 DEF ResetLength
  <2>2. LineTypeOK'
      BY <2>1, LastIndex DEF LineInv, LineTypeOK
  <2>3. LineTerminated' /\ LineAsTyped'
      BY <2>1 DEF LineInv, LineTerminated, LineAsTyped
  <2> QED BY <2>1, <2>2, <2>3 DEF LineInv, ReadyWhileExecuting, WordStands, RunsTypedCommand
<1>2. CASE ResetReady
    BY <1>2, LoopStepInv DEF ResetReady, LineInv, LineTypeOK
<1> QED BY <1>1, <1>2

\* kshell_exec's search.
LEMMA SearchInv == ASSUME LineInv, Search PROVE LineInv'
<1>1. /\ at = "search" /\ cursor' = 0
      /\ UNCHANGED <<buffer, length, command_ready, active, typed, disturbed>>
    BY DEF Search
<1>2. CASE at' = "memset" /\ UNCHANGED command
    BY <1>1, <1>2, LastIndex, LoopStepInv DEF LineInv, LineTypeOK
<1>3. ASSUME NEW name \in Commands, Names(name), command' = name, at' = "run"
      PROVE  LineInv'
  <2>1. LineTypeOK'
      BY <1>1, <1>3, LastIndex DEF LineInv, LineTypeOK
  <2>2. LineTerminated' /\ LineAsTyped' /\ ReadyWhileExecuting' /\ WordStands'
      BY <1>1, <1>3
      DEF LineInv, LineTerminated, LineAsTyped, ReadyWhileExecuting, WordStands
  <2>3. ~disturbed => name = FirstWord(typed)
      BY <1>1, <1>3, NameIsWord DEF LineInv, WordStands, LineAsTyped
  <2>4. RunsTypedCommand'
      BY <1>1, <1>3, <2>3 DEF RunsTypedCommand
  <2> QED BY <2>1, <2>2, <2>4 DEF LineInv
<1> QED BY <1>2, <1>3 DEF Search

\* kshell_exec's test of an empty line.
LEMMA ExecInv == ASSUME LineInv, kshell_exec PROVE LineInv'
<1>1. /\ at = "exec" /\ at' \in {"memset", "word"} /\ cursor' = 0 /\ command_ready
      /\ UNCHANGED <<buffer, length, command_ready, active, command, typed, disturbed>>
    BY DEF kshell_exec, LineInv, ReadyWhileExecuting
<1>2. LineTypeOK'
    BY <1>1, LastIndex DEF LineInv, LineTypeOK
<1>3. LineTerminated' /\ LineAsTyped' /\ ReadyWhileExecuting'
    BY <1>1 DEF LineInv, LineTerminated, LineAsTyped, ReadyWhileExecuting
<1>4. WordStands' /\ RunsTypedCommand'
    BY <1>1, LastIndex DEF LineInv, LineTypeOK, Indices, WordStands, RunsTypedCommand
<1> QED BY <1>2, <1>3, <1>4 DEF LineInv

\* Where kshell_exec's loop stops on a line nobody changed is the word's end.
LEMMA WordEnds ==
    ASSUME LineTypeOK, cursor <= length, \A i \in 0 .. cursor - 1 : buffer[i] # SPACE,
           cursor >= length \/ buffer[cursor] = SPACE
    PROVE  cursor = WordLength
<1> DEFINE ends == {i \in 0 .. length : i = length \/ buffer[i] = SPACE}
<1>1. length \in Nat /\ cursor \in Nat
    BY LastIndex DEF LineTypeOK, Indices
<1>2. cursor \in ends
    BY <1>1
<1>3. \A j \in ends : j \in Nat /\ cursor <= j
  <2> SUFFICES ASSUME NEW j \in 0 .. length, j = length \/ buffer[j] = SPACE, ~(cursor <= j)
               PROVE  FALSE
      BY <1>1
  <2> QED BY <1>1
<1>4. WordLength \in ends /\ \A j \in ends : WordLength <= j
    BY <1>2, <1>3 DEF WordLength
<1> HIDE DEF ends
<1> QED BY <1>1, <1>2, <1>3, <1>4

\* One turn of that loop.
LEMMA MeasureInv == ASSUME LineInv, MeasureWord PROVE LineInv'
<1>1. /\ at = "word" /\ at' \in {"word", "search"}
      /\ UNCHANGED <<buffer, length, command_ready, active, command, typed, disturbed>>
    BY DEF MeasureWord
<1>2. length \in Nat /\ cursor \in Nat /\ length <= BUFFER_SIZE - 1
    BY LastIndex DEF LineInv, LineTypeOK, Indices
<1>3. cursor' \in Indices
    BY <1>2, LastIndex DEF MeasureWord, LineInv, LineTypeOK, Indices
<1>4. LineTypeOK'
    BY <1>1, <1>3 DEF LineInv, LineTypeOK
<1>5. LineTerminated' /\ LineAsTyped' /\ ReadyWhileExecuting' /\ RunsTypedCommand'
    BY <1>1
    DEF LineInv, LineTerminated, LineAsTyped, ReadyWhileExecuting, RunsTypedCommand
<1>6. ASSUME at' = "word", ~disturbed
      PROVE  cursor' <= length /\ \A i \in 0 .. cursor' - 1 : buffer[i] # SPACE
  <2>1. /\ cursor < length /\ buffer[cursor] # SPACE /\ cursor' = cursor + 1
        /\ \A i \in 0 .. cursor - 1 : buffer[i] # SPACE
      BY <1>6 DEF MeasureWord, LineInv, WordStands
  <2> QED BY <1>2, <2>1
<1>7. ASSUME at' = "search", ~disturbed PROVE cursor' = WordLength'
  <2>1. cursor' = cursor /\ (cursor >= length \/ buffer[cursor] = SPACE)
      BY <1>1, <1>7 DEF MeasureWord
  <2>2. cursor = WordLength
      BY <1>1, <1>7, <2>1, WordEnds DEF LineInv, WordStands
  <2> QED BY <1>1, <2>1, <2>2 DEF WordLength
<1>8. WordStands'
    BY <1>1, <1>6, <1>7 DEF WordStands
<1> QED BY <1>4, <1>5, <1>8 DEF LineInv

\* Every step keeps the line in order.
LEMMA LineStep == LineInv /\ [KShellNext]_kshellVars => LineInv'
<1> SUFFICES ASSUME LineInv, [KShellNext]_kshellVars PROVE LineInv'
    OBVIOUS
<1>1. CASE UNCHANGED kshellVars
  <2>1. WordLength' = WordLength
      BY <1>1 DEF kshellVars, WordLength
  <2> QED BY <1>1, <2>1 DEF kshellVars, LineInv, LineTypeOK, LineTerminated, LineAsTyped,
                            ReadyWhileExecuting, WordStands, RunsTypedCommand
<1>2. CASE KeyIrq
    BY <1>2, NewLineInv, BackspaceInv, CharacterInv DEF KeyIrq, kshell_on_char
<1>3. CASE TimerIrq
    BY <1>3, LoopStepInv DEF TimerIrq, Woken, LineInv, LineTypeOK
<1>4. CASE Prompt
    BY <1>4, LoopStepInv DEF Prompt, LineInv, LineTypeOK
<1>5. CASE arch_idle
    BY <1>5, LoopStepInv DEF arch_idle, LineInv, LineTypeOK
<1>6. CASE kshell_poll
    BY <1>6, LoopStepInv DEF kshell_poll, LineInv, LineTypeOK
<1>7. CASE CommandReturns
    BY <1>7, LoopStepInv DEF CommandReturns, LineInv, LineTypeOK
<1>8. CASE Loop
    BY <1>4, <1>5, <1>6, <1>8, MemsetInv, ResetInv, ExecInv, MeasureInv, SearchInv DEF Loop
<1> QED BY <1>1, <1>2, <1>3, <1>7, <1>8 DEF KShellNext

-----------------------------------------------------------------------------
(* The shell *)

\* The safety part of the specification: fairness is not needed below.
KShellSafety == KShellInit /\ [][KShellNext]_kshellVars

\* The loop is where its code is.
LEMMA PlaceKept == at \in Points /\ [KShellNext]_kshellVars => at' \in Points
BY DEF KShellNext, kshellVars, Loop, Memset, ResetLength, ResetReady, Prompt, arch_idle, kshell_poll,
       kshell_exec, MeasureWord, Search, CommandReturns, KeyIrq, TimerIrq, Woken, Points

\* The invariant holds in every reachable state.
THEOREM KShellInvariant == KShellSafety => []KShellInv
<1>1. KShellInit => KShellInv
    BY LineInit DEF KShellInv, KShellInit, Points
<1>2. KShellInv /\ [KShellNext]_kshellVars => KShellInv'
    BY LineStep, PlaceKept DEF KShellInv
<1> QED BY <1>1, <1>2, PTL DEF KShellSafety

\* The line, its length and memset's position never leave the buffer.
THEOREM LineStaysInBuffer == KShellSafety => []KShellTypeOK
<1>1. KShellInv => KShellTypeOK
    BY DEF KShellInv, LineInv, LineTypeOK, KShellTypeOK
<1> QED BY <1>1, KShellInvariant, PTL

\* Whatever the interrupt stores between two steps of kshell_init or of a
\* command, a terminator follows the line inside the buffer.
THEOREM AlwaysTerminated == KShellSafety => []LineTerminated
BY KShellInvariant, PTL DEF KShellInv, LineInv

\* Outside the reset the buffer holds what was typed since the last one.
THEOREM BufferHoldsTyped == KShellSafety => []LineAsTyped
BY KShellInvariant, PTL DEF KShellInv, LineInv

\* The command that runs is the first word typed, unless a key changed the line
\* after its newline.
THEOREM RunsWhatWasTyped == KShellSafety => []RunsTypedCommand
BY KShellInvariant, PTL DEF KShellInv, LineInv

-----------------------------------------------------------------------------
(* The archive *)

\* A positive number of units that fits in what is left of a length does so unit
\* by unit.
LEMMA UnitsFit ==
    ASSUME NEW size \in Nat, NEW head \in Nat, NEW unit \in Nat \ {0}, NEW count \in Nat,
           size >= head, count <= (size - head) \div unit,
           NEW i \in 1 .. count
    PROVE  head + i * unit <= size
<1> DEFINE room == size - head
           q == room \div unit
<1>1. room \in Nat
    OBVIOUS
<1>2. q \in Nat /\ q * unit <= room
    BY <1>1
<1>3. i * unit <= q * unit
  <2>1. i \in Nat /\ i <= q
      BY <1>2
  <2> HIDE DEF q
  <2> QED BY <1>2, <2>1
<1>4. i * unit \in Nat
    OBVIOUS
<1> HIDE DEF q
<1>5. q * unit \in Nat
    BY <1>2
<1> QED BY <1>1, <1>2, <1>3, <1>4, <1>5

\* What the code checked before a program runs.
Loadable(a, f) ==
    /\ initramfs_header(a) /\ f \in 1 .. a.count
    /\ FileInside(a, a.entries[f]) /\ load_emxf(a.entries[f])

\* A search finds an entry of the archive, or none.
LEMMA FindsEntry ==
    ASSUME NEW a \in Archives, NEW path, initramfs_find(a, path, NUL) # NoFile
    PROVE  /\ initramfs_header(a) /\ initramfs_find(a, path, NUL) \in 1 .. a.count
           /\ FileInside(a, a.entries[initramfs_find(a, path, NUL)])
<1> DEFINE matches == {i \in 1 .. a.count : path_matches(a.entries[i].path, path, NUL)}
           first   == CHOOSE i \in matches : \A j \in matches : i <= j
<1>1. a.count \in Nat
    BY InitramfsAssumption
<1>2. initramfs_find(a, path, NUL) =
         IF ~initramfs_header(a) THEN NoFile
         ELSE IF matches = {} THEN NoFile
         ELSE IF FileInside(a, a.entries[first]) THEN first ELSE NoFile
    BY DEF initramfs_find
<1>3. matches # {} => first \in matches
  <2>1. matches \in SUBSET Nat
      BY <1>1
  <2> HIDE DEF matches
  <2> QED BY <2>1, LeastExists
<1>4. matches \subseteq 1 .. a.count
    OBVIOUS
<1> HIDE DEF matches, first
<1> QED BY <1>2, <1>3, <1>4

\* The checks of initramfs_header, initramfs_find and load_emxf are enough: with
\* words that wrap, and whatever the fields of the archive hold.
LEMMA ChecksSuffice ==
    ASSUME NEW a \in Archives, NEW f, Loadable(a, f)
    PROVE  LET e == a.entries[f]
               code == e.offset + EMXF_HEADER_SIZE
           IN  /\ EMXA_HEADER_SIZE + f * EMXA_ENTRY_SIZE <= a.size
               /\ code + e.code_size <= a.size
               /\ e.code_size <= PMM_PAGE_SIZE
               /\ e.entry_offset < e.code_size
<1> DEFINE e == a.entries[f]
<1>1. /\ EMXA_HEADER_SIZE \in Nat /\ EMXA_ENTRY_SIZE \in Nat \ {0}
      /\ EMXF_HEADER_SIZE \in Nat /\ PMM_PAGE_SIZE \in Nat /\ WORD \in Nat
      /\ EMXF_HEADER_SIZE + PMM_PAGE_SIZE < WORD
      /\ a.size \in Nat /\ a.count \in Nat
    BY InitramfsAssumption
<1>2. EMXA_HEADER_SIZE + f * EMXA_ENTRY_SIZE <= a.size
    BY <1>1, UnitsFit DEF Loadable, initramfs_header
<1>3. f \in DOMAIN a.entries
    BY <1>2, InitramfsAssumption DEF Loadable
<1>4. e.offset \in Nat /\ e.size \in Nat /\ e.code_size \in Nat /\ e.entry_offset \in Nat
    BY <1>3, InitramfsAssumption
<1> HIDE DEF e
<1>5. /\ e.offset <= a.size /\ e.size <= a.size - e.offset
      /\ e.code_size <= PMM_PAGE_SIZE /\ e.entry_offset < e.code_size
      /\ (EMXF_HEADER_SIZE + e.code_size) % WORD <= e.size
    BY DEF Loadable, FileInside, load_emxf, e
<1>6. (EMXF_HEADER_SIZE + e.code_size) % WORD = EMXF_HEADER_SIZE + e.code_size
    BY <1>1, <1>4, <1>5
<1>7. e.offset + EMXF_HEADER_SIZE + e.code_size <= a.size
    BY <1>1, <1>4, <1>5, <1>6
<1> QED BY <1>2, <1>5, <1>7 DEF e

-----------------------------------------------------------------------------
(* The path *)

\* Inside userspawn the newline stands, so a key that changes the line is noticed.
\* While none did, the line is what the command began with and its path what it
\* measured and found.
PathStands ==
    /\ at \in {"strlen", "find", "memcpy"} => command_ready
    /\ at \in {"strlen", "find", "memcpy"} /\ ~disturbed =>
          /\ length > Len(USERSPAWN)
          /\ meant = SubSeq(typed, Len(USERSPAWN) + 2, Len(typed))
    /\ at \in {"find", "memcpy"} => path_len \in 1 .. EMXA_PATH_SIZE - 1
    /\ at \in {"find", "memcpy"} /\ ~disturbed => path_len = strlen
    /\ at = "memcpy" /\ ~disturbed => file = initramfs_find(archive, Path, NUL)

SpawnInv ==
    /\ LineInv /\ PathStands
    /\ archive \in Archives
    /\ process.state = "running" => Loadable(archive, process.file)

\* The name has a length, and paths room for a terminator.
LEMMA SpawnConstants == Len(USERSPAWN) \in Nat /\ EMXA_PATH_SIZE \in Nat /\ EMXA_PATH_SIZE >= 1
<1>1. USERSPAWN \in Seq(Letters)
    BY SpawnAssumption, KShellAssumption
<1> QED BY <1>1, InitramfsAssumption

\* strlen finds the path's first terminator.
LEMMA StrlenIs ==
    /\ strlen \in 0 .. BUFFER_SIZE /\ PathByte(strlen) = NUL
    /\ \A i \in 0 .. strlen - 1 : PathByte(i) # NUL
<1> DEFINE ends == {i \in 0 .. BUFFER_SIZE : PathByte(i) = NUL}
<1>1. PathByte(BUFFER_SIZE) = NUL
    BY SpawnConstants, LastIndex DEF PathByte, Indices
<1>2. ends \in SUBSET Nat /\ BUFFER_SIZE \in ends
    BY <1>1, LastIndex
<1>3. \E i \in ends : \A j \in ends : i <= j
  <2> HIDE DEF ends
  <2> QED BY <1>2, LeastExists
<1>4. strlen = CHOOSE i \in ends : \A j \in ends : i <= j
    BY DEF strlen
<1>5. strlen \in ends /\ \A j \in ends : strlen <= j
  <2> HIDE DEF ends
  <2> QED BY <1>3, <1>4
<1>6. ASSUME NEW i \in 0 .. strlen - 1 PROVE PathByte(i) # NUL
  <2>1. i \in 0 .. BUFFER_SIZE /\ ~(strlen <= i)
      BY <1>5, LastIndex
  <2> QED BY <1>5, <2>1
<1> QED BY <1>5, <1>6

\* What was typed after the name is what the path's bytes are.
LEMMA PathIsMeant ==
    ASSUME LineInv, at \notin {"memset", "reset", "reset_length"}, length > Len(USERSPAWN),
           meant = SubSeq(typed, Len(USERSPAWN) + 2, Len(typed))
    PROVE  /\ strlen = Len(meant)
           /\ \A i \in 0 .. Len(meant) - 1 : PathByte(i) = meant[i + 1]
<1> DEFINE n == Len(USERSPAWN)
<1>1. /\ n \in Nat /\ length \in Nat /\ length \in Indices /\ length > n
      /\ typed \in Seq(Printable) /\ Len(typed) = length
      /\ \A i \in 1 .. length : typed[i] = buffer[i - 1]
      /\ buffer[length] = NUL
    BY SpawnConstants, LastIndex DEF LineInv, LineTypeOK, LineAsTyped, LineTerminated, Indices
<1> HIDE DEF n
<1>2. /\ Len(meant) = length - n - 1
      /\ \A i \in 1 .. length - n - 1 : meant[i] = typed[n + 1 + i]
  <2>1. \A i \in n + 2 .. length : typed[i] \in Printable
      BY <1>1, ElementOfSeq
  <2>2. n + 2 \in Int /\ length \in Int /\ length - (n + 2) + 1 = length - n - 1
      BY <1>1
  <2>3. meant = SubSeq(typed, n + 2, length)
      BY <1>1 DEF n
  <2>4. /\ Len(SubSeq(typed, n + 2, length)) = IF n + 2 <= length THEN length - (n + 2) + 1 ELSE 0
        /\ \A i \in 1 .. length - (n + 2) + 1 :
              SubSeq(typed, n + 2, length)[i] = typed[(n + 2) + i - 1]
      BY <2>1, <2>2, SubSeqProperties
  <2>5. \A i \in 1 .. length - n - 1 : (n + 2) + i - 1 = n + 1 + i
      BY <1>1
  <2>6. Len(meant) = length - n - 1
    <3>1. (IF n + 2 <= length THEN length - (n + 2) + 1 ELSE 0) = length - n - 1
        BY <1>1
    <3> QED BY <2>3, <2>4, <3>1, Zenon
  <2>7. \A i \in 1 .. length - n - 1 : meant[i] = typed[n + 1 + i]
      BY <2>2, <2>3, <2>4, <2>5
  <2> QED BY <2>6, <2>7
<1>3. ASSUME NEW i \in 0 .. length - n - 2
      PROVE  PathByte(i) = meant[i + 1] /\ PathByte(i) # NUL
  <2>1. /\ n + 1 + i \in Indices /\ i + 1 \in 1 .. length - n - 1
        /\ n + 1 + (i + 1) \in 1 .. length /\ (n + 1 + (i + 1)) - 1 = n + 1 + i
      BY <1>1, LastIndex DEF Indices
  <2>2. PathByte(i) = buffer[n + 1 + i]
      BY <2>1 DEF PathByte, n
  <2>3. meant[i + 1] = buffer[n + 1 + i] /\ meant[i + 1] \in Printable
      BY <1>1, <1>2, <2>1, ElementOfSeq
  <2>4. NUL \notin Printable
      BY KShellAssumption DEF Printable, NUL, SPACE
  <2> QED BY <2>2, <2>3, <2>4
<1>4. PathByte(length - n - 1) = NUL
  <2>1. n + 1 + (length - n - 1) = length
      BY <1>1
  <2> QED BY <1>1, <2>1 DEF PathByte, n
<1>5. strlen = length - n - 1
  <2>1. strlen \in Nat /\ length - n - 1 \in Nat
      BY StrlenIs, LastIndex, <1>1
  <2>2. ~(strlen < length - n - 1)
    <3>1. strlen < length - n - 1 => strlen \in 0 .. length - n - 2
        BY <1>1, <2>1
    <3> QED BY StrlenIs, <1>3, <3>1
  <2>3. ~(length - n - 1 < strlen)
      BY StrlenIs, <1>4, <2>1
  <2> QED BY <2>1, <2>2, <2>3
<1>6. Len(meant) - 1 = length - n - 2
    BY <1>1, <1>2
<1> QED BY <1>2, <1>3, <1>5, <1>6

\* Paths that agree up to the first terminator match the same entries.
LEMMA SameMatches ==
    ASSUME NEW a, NEW p, NEW q, NEW n \in PathIndices,
           p[n] = NUL, \A i \in 0 .. n : p[i] = q[i], \A i \in 0 .. n - 1 : p[i] # NUL
    PROVE  initramfs_find(a, p, NUL) = initramfs_find(a, q, NUL)
<1>0. n \in Nat /\ PathIndices \subseteq Nat /\ \A k \in PathIndices : 0 .. k \subseteq PathIndices
    BY SpawnConstants DEF PathIndices
<1>1. ASSUME NEW x, NEW r, NEW k \in PathIndices, r[n] = NUL,
             r[k] = NUL, \A i \in 0 .. k - 1 : r[i] # NUL, \A i \in 0 .. n - 1 : r[i] # NUL
      PROVE  k = n
    BY <1>0, <1>1
<1>2. ASSUME NEW x PROVE path_matches(x, p, NUL) <=> \A i \in 0 .. n : x[i] = p[i]
    BY <1>0, <1>1 DEF path_matches
<1>3. q[n] = NUL /\ \A i \in 0 .. n - 1 : q[i] # NUL
    BY <1>0
<1>4. ASSUME NEW x PROVE path_matches(x, q, NUL) <=> \A i \in 0 .. n : x[i] = q[i]
    BY <1>0, <1>1, <1>3 DEF path_matches
<1>5. \A x : path_matches(x, p, NUL) <=> path_matches(x, q, NUL)
    BY <1>2, <1>4
<1>6. {i \in 1 .. a.count : path_matches(a.entries[i].path, p, NUL)}
         = {i \in 1 .. a.count : path_matches(a.entries[i].path, q, NUL)}
    BY <1>5
<1> DEFINE in_p == {i \in 1 .. a.count : path_matches(a.entries[i].path, p, NUL)}
           in_q == {i \in 1 .. a.count : path_matches(a.entries[i].path, q, NUL)}
           Found(m) == LET first == CHOOSE i \in m : \A j \in m : i <= j
                       IN  IF ~initramfs_header(a) THEN NoFile
                           ELSE IF m = {} THEN NoFile
                           ELSE IF FileInside(a, a.entries[first]) THEN first ELSE NoFile
<1>7. initramfs_find(a, p, NUL) = Found(in_p) /\ initramfs_find(a, q, NUL) = Found(in_q)
    BY DEF initramfs_find
<1>8. in_p = in_q
    BY <1>6
<1> HIDE DEF in_p, in_q, Found
<1> QED BY <1>7, <1>8

\* The record gets the path that was typed, and the search for it finds what the
\* search for the line's found.
LEMMA CopiesMeant ==
    ASSUME LineInv, at = "memcpy", PathStands, ~disturbed
    PROVE  /\ CopiedPath = AsPath(meant)
           /\ initramfs_find(archive, CopiedPath, NUL) = file
<1>1. /\ length > Len(USERSPAWN) /\ meant = SubSeq(typed, Len(USERSPAWN) + 2, Len(typed))
      /\ path_len \in 1 .. EMXA_PATH_SIZE - 1 /\ path_len = strlen
      /\ file = initramfs_find(archive, Path, NUL)
    BY DEF PathStands
<1>2. /\ strlen = Len(meant)
      /\ \A i \in 0 .. Len(meant) - 1 : PathByte(i) = meant[i + 1]
    BY <1>1, PathIsMeant
<1>3. PathByte(path_len) = NUL /\ \A i \in 0 .. path_len - 1 : PathByte(i) # NUL
    BY <1>1, StrlenIs
<1>4. path_len \in PathIndices /\ path_len \in Nat /\ PathIndices \subseteq Nat
      /\ 0 .. path_len \subseteq PathIndices
    BY <1>1, SpawnConstants DEF PathIndices
<1>5. ASSUME NEW i \in PathIndices
      PROVE  (IF i <= path_len THEN PathByte(i) ELSE NUL) = IF i < Len(meant) THEN meant[i + 1] ELSE NUL
  <2>1. CASE i < path_len
    <3>1. i \in 0 .. Len(meant) - 1
        BY <1>1, <1>2, <1>4, <2>1
    <3> QED BY <1>1, <1>2, <1>4, <2>1, <3>1
  <2>2. CASE i >= path_len
      BY <1>1, <1>2, <1>3, <1>4, <2>2
  <2> QED BY <1>4, <2>1, <2>2
<1>6. CopiedPath = AsPath(meant)
    BY <1>5 DEF CopiedPath, AsPath
<1>7. /\ Path[path_len] = NUL
      /\ \A i \in 0 .. path_len : Path[i] = CopiedPath[i]
      /\ \A i \in 0 .. path_len - 1 : Path[i] # NUL
    BY <1>3, <1>4 DEF Path, CopiedPath
<1>8. initramfs_find(archive, Path, NUL) = initramfs_find(archive, CopiedPath, NUL)
    BY <1>4, <1>7, SameMatches
<1> QED BY <1>1, <1>6, <1>8

\* A record without a terminator holds a path of the greatest length, whose
\* terminator a key overwrote.
LEMMA CopiesTerminated ==
    ASSUME at = "memcpy", PathStands, \A i \in PathIndices : CopiedPath[i] # NUL
    PROVE  disturbed /\ path_len = EMXA_PATH_SIZE - 1
<1>1. path_len \in 1 .. EMXA_PATH_SIZE - 1 /\ (~disturbed => path_len = strlen)
    BY DEF PathStands
<1>2. /\ EMXA_PATH_SIZE - 1 \in PathIndices /\ path_len \in PathIndices
      /\ path_len \in Nat /\ path_len <= EMXA_PATH_SIZE - 1
    BY <1>1, SpawnConstants DEF PathIndices
<1>3. EMXA_PATH_SIZE - 1 <= path_len
    BY <1>2 DEF CopiedPath
<1>4. PathByte(path_len) # NUL
    BY <1>2 DEF CopiedPath
<1> QED BY <1>1, <1>2, <1>3, <1>4, StrlenIs, SpawnConstants

-----------------------------------------------------------------------------
(* The userspawn command *)

\* The lines and paths that a step leaves alone stand.
LEMMA SamePath ==
    ASSUME UNCHANGED buffer
    PROVE  strlen' = strlen /\ Path' = Path
BY DEF strlen, Path, PathByte

\* A step of the shell leaves the process alone, and what the command found unless
\* it disturbs it.
LEMMA ShellInv == ASSUME SpawnInv, Shell PROVE SpawnInv'
<1>1. KShellNext /\ UNCHANGED <<archive, path_len, file, process, meant>>
    BY DEF Shell, KShellNext
<1>2. LineInv'
    BY <1>1, LineStep DEF SpawnInv
<1>3. ASSUME at' \in {"strlen", "find", "memcpy"}
      PROVE  /\ KeyIrq /\ at' = at
             /\ command_ready' /\ (~disturbed' => UNCHANGED <<buffer, length, typed, disturbed>>)
  <2>1. KeyIrq /\ at' = at
      BY <1>3 DEF Shell, Loop, Memset, ResetLength, ResetReady, Prompt, arch_idle, kshell_poll,
             kshell_exec, MeasureWord, Search, CommandReturns, KeyIrq, TimerIrq, Woken
  <2>2. command_ready
      BY <1>3, <2>1 DEF SpawnInv, PathStands
  <2> QED BY <2>1, <2>2 DEF KeyIrq, kshell_on_char, NewLine, Backspace, Character
<1>4. PathStands'
    BY <1>1, <1>3, SamePath DEF SpawnInv, PathStands
<1> QED BY <1>1, <1>2, <1>4 DEF SpawnInv

\* A step of the command leaves the line alone.
LEMMA CommandKeepsLine ==
    ASSUME LineInv, UNCHANGED Line, command' \in Commands \cup {NONE},
           at \notin {"memset", "reset", "reset_length"},
           at' \in {"memset", "strlen", "find", "memcpy"}
    PROVE  LineInv' /\ UNCHANGED <<buffer, length, typed, disturbed, command_ready>>
<1>1. UNCHANGED <<buffer, length, command_ready, active, cursor, typed, disturbed>>
    BY DEF Line
<1>2. LineInv'
    BY <1>1, LoopStepInv DEF LineInv, LineTypeOK
<1> QED BY <1>1, <1>2

\* The command gives up.
LEMMA ReturnsInv ==
    ASSUME SpawnInv, Returns, at \in {"run", "strlen", "find", "memcpy"}
    PROVE  SpawnInv'
<1>1. LineInv'
    BY CommandKeepsLine DEF SpawnInv, Returns
<1> QED BY <1>1 DEF SpawnInv, PathStands, Returns

\* The steps of cmd_userspawn and user_spawn.
LEMMA CommandInv ==
    ASSUME SpawnInv, cmd_userspawn \/ SpawnStrlen \/ SpawnFind \/ user_spawn
    PROVE  SpawnInv'
<1>1. command \in Commands \cup {NONE} /\ (at = "run" => command_ready)
    BY DEF SpawnInv, LineInv, LineTypeOK, ReadyWhileExecuting
<1>2. CASE cmd_userspawn
  <2>1. CASE Returns
      BY <1>2, <2>1, ReturnsInv DEF cmd_userspawn
  <2>2. CASE ~Returns
    <3>1. /\ at = "run" /\ Continues("strlen") /\ UNCHANGED <<path_len, file, process>>
          /\ meant' = SubSeq(typed, Len(USERSPAWN) + 2, Len(typed))
          /\ ~(length <= Len(USERSPAWN))
        BY <1>2, <2>2 DEF cmd_userspawn
    <3>2. LineInv' /\ UNCHANGED <<buffer, length, typed, disturbed, command_ready>>
        BY <1>1, <3>1, CommandKeepsLine DEF SpawnInv, Continues
    <3>3. length > Len(USERSPAWN)
        BY <3>1, SpawnConstants, LastIndex DEF SpawnInv, LineInv, LineTypeOK, Indices
    <3>4. PathStands'
        BY <1>1, <3>1, <3>2, <3>3 DEF PathStands, Continues
    <3> QED BY <3>1, <3>2, <3>4 DEF SpawnInv, Continues
  <2> QED BY <2>1, <2>2
<1>3. CASE SpawnStrlen
  <2>1. CASE Returns
      BY <1>3, <2>1, ReturnsInv DEF SpawnStrlen
  <2>2. CASE ~Returns
    <3>1. /\ at = "strlen" /\ Continues("find") /\ path_len' = strlen
          /\ UNCHANGED <<file, process, meant>> /\ strlen # 0 /\ ~(strlen >= EMXA_PATH_SIZE)
        BY <1>3, <2>2 DEF SpawnStrlen
    <3>2. LineInv' /\ UNCHANGED <<buffer, length, typed, disturbed, command_ready>>
        BY <1>1, <3>1, CommandKeepsLine DEF SpawnInv, Continues
    <3>3. strlen \in 1 .. EMXA_PATH_SIZE - 1 /\ strlen' = strlen
        BY <3>1, <3>2, SamePath, StrlenIs, SpawnConstants, LastIndex
    <3>4. PathStands'
        BY <3>1, <3>2, <3>3 DEF SpawnInv, PathStands, Continues
    <3> QED BY <3>1, <3>2, <3>4 DEF SpawnInv, Continues
  <2> QED BY <2>1, <2>2
<1>4. CASE SpawnFind
  <2>1. CASE Returns
      BY <1>4, <2>1, ReturnsInv DEF SpawnFind
  <2>2. CASE ~Returns
    <3>1. /\ at = "find" /\ Continues("memcpy") /\ file' = initramfs_find(archive, Path, NUL)
          /\ UNCHANGED <<path_len, process, meant>>
        BY <1>4, <2>2 DEF SpawnFind
    <3>2. LineInv' /\ UNCHANGED <<buffer, length, typed, disturbed, command_ready>>
        BY <1>1, <3>1, CommandKeepsLine DEF SpawnInv, Continues
    <3>3. strlen' = strlen /\ Path' = Path /\ archive' = archive
        BY <3>1, <3>2, SamePath DEF Continues
    <3>4. PathStands'
        BY <3>1, <3>2, <3>3 DEF SpawnInv, PathStands, Continues
    <3> QED BY <3>1, <3>2, <3>3, <3>4 DEF SpawnInv
  <2> QED BY <2>1, <2>2
<1>5. CASE user_spawn
  <2>1. CASE Returns
      BY <1>5, <2>1, ReturnsInv DEF user_spawn
  <2>2. CASE ~Returns
    <3>1. /\ at = "memcpy" /\ at' = "memset" /\ command' = NONE /\ UNCHANGED <<Line, archive>>
          /\ process'.state = "created"
        BY <1>5, <2>2 DEF user_spawn, FreeProcess
    <3>2. LineInv'
        BY <3>1, CommandKeepsLine DEF SpawnInv
    <3> QED BY <3>1, <3>2 DEF SpawnInv, PathStands
  <2> QED BY <2>1, <2>2
<1> QED BY <1>2, <1>3, <1>4, <1>5

\* The steps of the process.
LEMMA ThreadInv == ASSUME SpawnInv, user_exec_task \/ user_exit_current PROVE SpawnInv'
<1>1. UNCHANGED <<kshellVars, archive, path_len, file, meant>>
    BY DEF user_exec_task, user_exit_current
<1>2. LineInv'
    BY <1>1, LineStep DEF SpawnInv
<1>3. PathStands'
    BY <1>1, SamePath DEF SpawnInv, PathStands, kshellVars
<1>4. process'.state = "running" => Loadable(archive, process'.file)
  <2> DEFINE found == initramfs_find(archive, process.path, NUL)
  <2>1. CASE user_exit_current
      BY <2>1 DEF user_exit_current, FreeProcess
  <2>2. CASE user_exec_task
    <3>1. process' = IF found = NoFile THEN FreeProcess
                     ELSE IF load_emxf(archive.entries[found])
                     THEN [FreeProcess EXCEPT !.state = "running", !.file = found]
                     ELSE FreeProcess
        BY <2>2 DEF user_exec_task
    <3>2. found # NoFile => /\ initramfs_header(archive) /\ found \in 1 .. archive.count
                            /\ FileInside(archive, archive.entries[found])
        BY FindsEntry DEF SpawnInv
    <3> HIDE DEF found
    <3> QED BY <3>1, <3>2 DEF FreeProcess, Loadable
  <2> QED BY <2>1, <2>2
<1> QED BY <1>1, <1>2, <1>3, <1>4 DEF SpawnInv

\* Every step keeps the invariant.
LEMMA SpawnStep == SpawnInv /\ [SpawnNext]_spawnVars => SpawnInv'
<1> SUFFICES ASSUME SpawnInv, [SpawnNext]_spawnVars PROVE SpawnInv'
    OBVIOUS
<1>1. CASE UNCHANGED spawnVars
  <2>1. LineInv'
      BY <1>1, LineStep DEF SpawnInv, spawnVars
  <2>2. PathStands'
      BY <1>1, SamePath DEF SpawnInv, PathStands, spawnVars, kshellVars
  <2> QED BY <1>1, <2>1, <2>2 DEF SpawnInv, spawnVars
<1> QED BY <1>1, ShellInv, CommandInv, ThreadInv DEF SpawnNext

\* The invariant holds in every reachable state.
THEOREM SpawnInvariant == SpawnSpec => []SpawnInv
<1>1. SpawnInit => SpawnInv
    BY LineInit DEF SpawnInit, SpawnInv, KShellInit, PathStands, FreeProcess
<1> QED BY <1>1, SpawnStep, PTL DEF SpawnSpec

\* Whatever an archive of any size holds in any of its fields: a program that runs
\* was read from inside it, fits in its page and is entered inside it.
THEOREM LoadsInBounds == SpawnSpec => []LoadInBounds
<1>1. SpawnInv => LoadInBounds
    BY ChecksSuffice DEF SpawnInv, LoadInBounds
<1> QED BY <1>1, SpawnInvariant, PTL

\* A userspawn that no key fell into starts the program that was typed; one that
\* keys fell into leaves a terminated path but in the one case SpawnsTyped names.
THEOREM SpawnsWhatWasTyped == SpawnSpec => SpawnsTyped
<1> DEFINE Kept == process.state = "free" /\ process'.state = "created" =>
                     /\ ~disturbed =>
                           /\ process'.path = AsPath(meant)
                           /\ initramfs_find(archive, process'.path, NUL) = file
                     /\ (\A i \in PathIndices : process'.path[i] # NUL) =>
                           disturbed /\ path_len = EMXA_PATH_SIZE - 1
<1>1. ASSUME SpawnInv, SpawnNext, process.state = "free", process'.state = "created"
      PROVE  at = "memcpy" /\ process'.path = CopiedPath
    BY <1>1 DEF SpawnNext, Shell, cmd_userspawn, SpawnStrlen, SpawnFind, Returns, user_spawn,
                user_exec_task, user_exit_current, FreeProcess
<1>2. SpawnInv /\ [SpawnNext]_spawnVars => [Kept]_spawnVars
    BY <1>1, CopiesMeant, CopiesTerminated DEF SpawnInv
<1> QED BY <1>2, SpawnInvariant, PTL DEF SpawnSpec, SpawnsTyped
=============================================================================
