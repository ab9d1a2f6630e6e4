--------------------------- MODULE LanguageModels ---------------------------
(***************************************************************************)
(* The extraction of a signal from a text by a language model: models are  *)
(* asked one after another until one answers, a busy one again after a     *)
(* wait, and the answer is chosen from and rated.  The service of the      *)
(* models is external; words are reduced to what the code compares.        *)
(***************************************************************************)
EXTENDS Naturals, Sequences, FiniteSetsExt

CONSTANTS
    Models,         \* how many models are tried (7)
    Attempts,       \* how often a busy one is asked (3)
    Pause,          \* seconds, times the number of the attempt (4)
    Found           \* findings an answer can hold

ASSUME LanguageAssumption ==
    /\ Models \in Nat \ {0} /\ Attempts \in Nat \ {0} /\ Pause \in Nat
    /\ Found \subseteq [name : {"none", "Unknown", "unknown", "given"}, csr : BOOLEAN,
                           quote : {"none", "verbatim", "other"},
                           budget : BOOLEAN, contact : BOOLEAN]

VARIABLES
    talk,       \* where the extraction is, with the model and the attempt
    asked,      \* history: the models asked and what each said
    slept       \* history: seconds waited

languageVars == <<talk, asked, slept>>

LanguageInit == talk = [pc |-> "idle"] /\ asked = <<>> /\ slept = 0

----------------------------------------------------------------------------
Failed == [pc |-> "failed"]
AskNext(m, k) == [pc |-> "ask", model |-> m, attempt |-> k]

(* Without an API key nobody is asked.                                     *)
ExtractCorporateSignal ==
    /\ talk.pc \in {"idle", "rated", "failed"}
    /\ talk' \in {AskNext(1, 1), Failed}
    /\ asked' = <<>> /\ slept' = 0

(* Plausible bug: a model is asked again whatever went wrong.              *)
AskAlways(said, k) == said # "ok" /\ k < Attempts

(* After 429 the same model, after anything else the next one.             *)
AskAgain(said, k) == said = "busy" /\ k < Attempts

Waits(said, k) == IF said = "busy" THEN Pause * k ELSE 0

(* What an answer can hold: findings, one or two, or none to be read.      *)
Answers == {<<>>} \cup {<<s>> : s \in Found} \cup {<<s, t>> : s, t \in Found}

(* The model is busy, or fails: another status, no connection, no body.    *)
AskModel ==
    /\ talk.pc = "ask"
    /\ \E said \in {"ok", "busy", "broken"} :
          /\ asked' = Append(asked, [model |-> talk.model, said |-> said])
          /\ slept' = slept + Waits(said, talk.attempt)
          /\ talk' \in
               IF said = "ok" THEN [pc : {"parse"}, text : Answers]
               ELSE IF AskAgain(said, talk.attempt) THEN {AskNext(talk.model, talk.attempt + 1)}
               ELSE IF talk.model < Models THEN {AskNext(talk.model + 1, 1)}
               ELSE {Failed}

(* Of a list, the first finding about a company's social programmes, or    *)
(* else the first.                                                         *)
Corporate(s) == s.name = "given" /\ s.csr
Best(list) ==
    LET corporate == {i \in 1..Len(list) : Corporate(list[i])}
    IN  list[IF corporate = {} THEN 1 ELSE Min(corporate)]

(* In hundredths; a quote that is not in the text counts, too.             *)
Confidence(s) ==
    (IF s.name \in {"unknown", "given"} THEN 25 ELSE 0)
    + (CASE s.quote = "verbatim" -> 35 [] s.quote = "other" -> 15 [] OTHER -> 0)
    + (IF s.budget THEN 20 ELSE 0) + (IF s.contact THEN 20 ELSE 0)

Status(c) ==
    IF c >= 80 THEN "HIGH_CONFIDENCE" ELSE IF c >= 60 THEN "MEDIUM_CONFIDENCE" ELSE "NEEDS_REVIEW"

(* An answer that cannot be read ends the extraction.                      *)
ParseAnswer ==
    /\ talk.pc = "parse"
    /\ talk' = IF talk.text = <<>> THEN Failed
               ELSE LET s == Best(talk.text)
                    IN  [pc |-> "rated", text |-> talk.text, finding |-> s,
                         status |-> Status(Confidence(s))]
    /\ UNCHANGED <<asked, slept>>

LanguageNext == ExtractCorporateSignal \/ AskModel \/ ParseAnswer

LanguageSpec == LanguageInit /\ [][LanguageNext]_languageVars

----------------------------------------------------------------------------
(* The state is well typed.                                                *)
LanguageTypeOK ==
    /\ talk \in [pc : {"idle", "failed"}]
                \cup [pc : {"ask"}, model : 1..Models, attempt : 1..Attempts]
                \cup [pc : {"parse"}, text : Answers]
                \cup [pc : {"rated"}, text : Answers, finding : Found,
                      status : {"HIGH_CONFIDENCE", "MEDIUM_CONFIDENCE", "NEEDS_REVIEW"}]
    /\ asked \in Seq([model : 1..Models, said : {"ok", "busy", "broken"}])
    /\ slept \in Nat

Tries(m) == {i \in 1..Len(asked) : asked[i].model = m}

(* A model was given up on: it failed, or was busy as often as it is asked.*)
GivenUp(m) ==
    /\ Cardinality(Tries(m)) <= Attempts
    /\ \E z \in Tries(m) :
          /\ \A i \in Tries(m) \ {z} : i < z /\ asked[i].said = "busy"
          /\ \/ asked[z].said = "broken"
             \/ asked[z].said = "busy" /\ Cardinality(Tries(m)) = Attempts

(* A finding is the answer of the first model that gave one, when all      *)
(* before it were given up on and nobody was asked after it; an extraction *)
(* that fails had an answer it could not read, or nobody left to ask (or   *)
(* no key); nothing waits longer than the pauses of busy models; a finding *)
(* about a company's programmes is never left for another of the list; and *)
(* none is rated high without name and quote, or for a quote that is not   *)
(* in the text when anything else is missing.                              *)
FindingIsFounded ==
    LET heard == {i \in 1..Len(asked) : asked[i].said = "ok"}
        last == asked[Len(asked)].model
    IN  /\ heard \subseteq {Len(asked)}
        /\ 2 * slept <= Pause * Attempts * (Attempts + 1) * Models
        /\ heard # {} => \A m \in 1..(last - 1) : GivenUp(m)
        /\ talk.pc = "failed" /\ heard = {} => asked = <<>> \/ \A m \in 1..Models : GivenUp(m)
        /\ talk.pc = "rated" =>
              /\ heard # {}
              /\ ~Corporate(talk.finding) =>
                    \A i \in 1..Len(talk.text) : ~Corporate(talk.text[i])
              /\ talk.status = "HIGH_CONFIDENCE" =>
                    /\ talk.finding.quote # "none" /\ talk.finding.name # "none"
                    /\ talk.finding.quote = "other" => talk.finding.budget /\ talk.finding.contact
=============================================================================
