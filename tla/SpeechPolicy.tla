---------------------------- MODULE SpeechPolicy ----------------------------
(***************************************************************************)
(* The transcript limits of speech.py.  A workspace configures them; the   *)
(* library, and before it the command line, refuses a policy that it takes *)
(* to be unusable; a policy that is accepted then decides which speech is  *)
(* classified.  A transcript is a sequence of characters, each known by    *)
(* what the limits can tell apart: its UTF-8 bytes, whether it is white    *)
(* space and whether it ends a line.  Content is printable letters.  A     *)
(* carriage return before a line feed is one break of two characters: it   *)
(* measures as a blank and a break do, and is left out.                    *)
(***************************************************************************)
EXTENDS Integers, FiniteSetsExt

CONSTANTS
    MaxChars,     \* MAX_TRANSCRIPT_CHARS, 2000 in the code
    ByteLimits    \* the byte limits that are tried, at most 4 * MaxChars

ASSUME LimitsAssumption ==
    MaxChars \in Nat \ {0, 1} /\ ByteLimits \subseteq 1..(4 * MaxChars)

VARIABLES
    policy,   \* the configured limits
    caller,   \* who configures them: "library" or "command line"
    phase     \* "given", "parsed", then "usage error", "rejected" or "accepted"

configuration == <<policy, caller, phase>>

-----------------------------------------------------------------------------
Content    == [space : {FALSE}, bytes : 1..4, break : {FALSE}]
Space      == [space : {TRUE}, bytes : 1..3, break : BOOLEAN]
Characters == Content \cup Space

Printable(c) == c \in Content \/ (c.bytes = 1 /\ ~c.break)

\* The bytes at some positions of a text: pairs of a position and an index.
Bytes(text, positions) ==
    {byte \in positions \X (1..4) : byte[2] <= text[byte[1]].bytes}

ContentAt(text) == {i \in DOMAIN text : ~text[i].space}

\* str.strip: white space goes at both ends, and only there.
Stripped(text) ==
    IF ContentAt(text) = {} THEN {}
    ELSE Min(ContentAt(text))..Max(ContentAt(text))

\* str.split: a word starts where content follows white space or nothing.
WordStarts(text) == {i \in ContentAt(text) : i = 1 \/ text[i - 1].space}

\* str.splitlines: a break ends a line, and what follows the last is one more.
BreaksAt(text) == {i \in DOMAIN text : text[i].break}

LineCount(text) ==
    IF DOMAIN text = {} THEN 1
    ELSE Cardinality(BreaksAt(text)) +
         (IF text[Max(DOMAIN text)].break THEN 0 ELSE 1)

\* All that the limits can tell of a transcript.
Measure(text) ==
    [chars         |-> Cardinality(DOMAIN text),
     strippedChars |-> Cardinality(Stripped(text)),
     bytes         |-> Cardinality(Bytes(text, DOMAIN text)),
     strippedBytes |-> Cardinality(Bytes(text, Stripped(text))),
     words         |-> Cardinality(WordStarts(text)),
     lines         |-> LineCount(text),
     printable     |-> \A i \in DOMAIN text : Printable(text[i])]

Texts == UNION {[1..n -> Characters] : n \in 0..MaxChars}

Transcripts == {Measure(text) : text \in Texts}

\* _resolve_validated_speech on an unexhausted budget.
Understands(p, t) ==
    /\ t.chars <= p.maxChars
    /\ t.strippedChars >= p.minChars
    /\ p.printable => t.printable
    /\ p.minBytes <= t.strippedBytes /\ t.bytes <= p.maxBytes
    /\ p.minWords <= t.words /\ t.words <= p.maxWords
    /\ p.minLines <= t.lines /\ t.lines <= p.maxLines

\* Some caller can be understood.
Usable(p) == \E t \in Transcripts : Understands(p, t)

-----------------------------------------------------------------------------
\* Each minimum is at most its maximum.
Ordered(p) ==
    /\ p.minChars <= p.maxChars
    /\ p.minBytes <= p.maxBytes
    /\ p.minWords <= p.maxWords
    /\ p.minLines <= p.maxLines

\* White space that the words or the lines need between them.
MinSeparators(p) == Max({p.minWords - 1, p.minLines - 1})

\* Plausible bug: the second word is not considered when breaks are needed.
MinCharactersLeading(p) ==
    IF p.minWords = 1 /\ p.minLines > 1
    THEN p.minChars + p.minLines - 1
    ELSE Max({p.minChars, p.minWords + MinSeparators(p)})

\* The fewest characters the minimums ask for together: with one word the
\* breaks lead it, or stand inside the text when a second word is allowed.
MinCharacters(p) ==
    LET leading == p.minChars + p.minLines - 1
        inside  == Max({p.minChars, p.minLines + 1})
    IN  IF p.minWords = 1 /\ p.minLines > 1
        THEN IF p.maxWords >= 2 THEN Min({leading, inside}) ELSE leading
        ELSE Max({p.minChars, p.minWords + MinSeparators(p)})

\* Plausible bug: the separators are left out of the byte ceiling.
MaxContentBytesLoose(p) == p.maxChars * 4

\* The most bytes the stripped text can have: with one word the breaks are
\* outside it, else each separator has at most three.
MaxContentBytes(p) ==
    IF p.maxWords = 1 /\ p.minLines > 1
    THEN (p.maxChars - (p.minLines - 1)) * 4
    ELSE p.maxChars * 4 - MinSeparators(p)

\* A text of this length is within both limits.
WithinBoth(p, length) == length <= p.maxChars /\ length <= p.maxBytes

\* _validate_transcript_policy raises nothing.
Accepts(p) ==
    /\ Ordered(p)
    /\ ~(p.printable /\ p.minLines > 1)
    /\ p.minChars <= p.maxBytes
    /\ WithinBoth(p, p.minWords * 2 - 1)
    /\ WithinBoth(p, p.minLines)
    /\ WithinBoth(p, MinCharacters(p))
    /\ p.minBytes <= MaxContentBytes(p)

-----------------------------------------------------------------------------
\* The command line repeats the checks before it calls the library.
CommandLineSeparators(p) == Max({p.minWords - 1, p.minLines - 1})

CommandLineMinCharacters(p) ==
    LET leading == p.minChars + p.minLines - 1
    IN  IF p.minWords > 1 \/ p.minLines = 1
        THEN Max({p.minChars, p.minWords + CommandLineSeparators(p)})
        ELSE IF p.maxWords = 1 THEN leading
        ELSE Min({leading, Max({p.minChars, p.minLines + 1})})

CommandLineMaxContentBytes(p) ==
    IF p.maxWords = 1 /\ p.minLines > 1
    THEN (p.maxChars - (p.minLines - 1)) * 4
    ELSE p.maxChars * 4 - CommandLineSeparators(p)

CommandLineAccepts(p) ==
    /\ p.minChars <= p.maxChars /\ p.minWords <= p.maxWords
    /\ p.minBytes <= p.maxBytes /\ p.minLines <= p.maxLines
    /\ p.printable => p.minLines = 1
    /\ p.minChars <= p.maxBytes
    /\ \A length \in {p.minWords * 2 - 1, p.minLines, CommandLineMinCharacters(p)} :
           length <= p.maxChars /\ length <= p.maxBytes
    /\ p.minBytes <= CommandLineMaxContentBytes(p)

-----------------------------------------------------------------------------
TranscriptPolicies ==
    [minChars : 1..MaxChars,         maxChars : 1..MaxChars,
     minBytes : ByteLimits,          maxBytes : ByteLimits,
     minWords : 1..(MaxChars \div 2), maxWords : 1..(MaxChars \div 2),
     minLines : 1..MaxChars,         maxLines : 1..MaxChars,
     printable : BOOLEAN]

Unconfigured ==
    /\ policy \in TranscriptPolicies
    /\ caller \in {"library", "command line"}
    /\ phase = "given"

\* main checks the limits and then calls simulate_speech.
ParseArguments ==
    /\ phase = "given" /\ caller = "command line"
    /\ phase' = IF CommandLineAccepts(policy) THEN "parsed" ELSE "usage error"
    /\ UNCHANGED <<policy, caller>>

\* _validate_transcript_policy.
Validate ==
    /\ \/ phase = "given" /\ caller = "library"
       \/ phase = "parsed"
    /\ phase' = IF Accepts(policy) THEN "accepted" ELSE "rejected"
    /\ UNCHANGED <<policy, caller>>

Configure == ParseArguments \/ Validate

Configuration == Unconfigured /\ [][Configure]_configuration

-----------------------------------------------------------------------------
\* Refusals are right: a policy that is refused, by the library or by the copy
\* of its checks in the command line, would have understood no caller, and what
\* the command line lets through is never a traceback from the library.
RefusalsAreRight ==
    /\ phase \in {"rejected", "usage error"} => ~Usable(policy)
    /\ phase = "rejected" => caller = "library"

\* The line breaks have to stand around a single word: a second one is not
\* allowed, or has no room.
AroundOneWord(p) ==
    /\ p.minWords = 1 /\ p.minLines > 1
    /\ p.maxWords = 1 \/ ~WithinBoth(p, p.minLines + 1)

\* What the checks do not see: the separators of printable words are one byte
\* each, and breaks around a single word are bytes that only the maximum counts
\* and characters that the minimum cannot use.
Overlooked(p) ==
    \/ /\ p.printable
       /\ p.minBytes > p.maxChars * 4 - (p.minWords - 1) * 3
    \/ /\ AroundOneWord(p)
       /\ \/ p.minBytes + (p.minLines - 1) > p.maxBytes
          \/ p.minBytes > (p.maxChars - (p.minLines - 1)) * 4

\* An accepted policy can understand some caller, so that no collection is lost
\* before it begins, unless it is one of those, and then it understands nobody.
AcceptedIsUsable ==
    phase = "accepted" => (Usable(policy) <=> ~Overlooked(policy))

\* What the comment of the checks says: a policy that can admit no transcript
\* is rejected, instead of silently spending every collection attempt.
NoAttemptIsSpentInVain ==
    phase = "accepted" => Usable(policy)
=============================================================================
