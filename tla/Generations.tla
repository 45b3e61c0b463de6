------------------------------ MODULE Generations ------------------------------
(***************************************************************************)
(* What stands between a campaign and its drafts: the organization's AI     *)
(* connections, which admins edit and test without a lock, the chain of     *)
(* providers a generation asks one after the other, and what of an answer   *)
(* becomes a draft.                                                         *)
(***************************************************************************)
EXTENDS Integers, Sequences, FiniteSets, SequencesExt

CONSTANTS
    Slots,        \* identities of connections
    ProviderAdmins, \* web threads of people who manage the connections
    Models,       \* model names, and the provider each one's name gives away
    ModelFamily,
    Priorities,
    Environments, \* what the operator may have configured: providers in order
    Answers,      \* what a provider may propose: sets of items
    CaptionLimit, \* PLATFORM_CHAR_LIMITS of the campaign's platform
    CampaignDays, \* <<start_date, end_date>> in the workspace's calendar
    ZoneOffset,   \* the workspace's hours ahead of UTC
    MaxKeys, MaxForms, MaxProbes, MaxTried \* bounds

Compatible == "openai_compatible"
Alphabetical == <<"anthropic", "gemini", "openai", Compatible>>
AIProviders == ToSet(Alphabetical)

\* The operator names a provider once; every platform's limit leaves room for the dots.
ASSUME GenerationConstants ==
    /\ IsFiniteSet(Slots) /\ Priorities \subseteq Nat
    /\ \A m \in Models : ModelFamily[m] \in {"", "anthropic", "gemini", "openai"}
    /\ \A e \in Environments : e \in Seq(AIProviders \cup {"demo"}) /\ IsInjective(e)
    /\ CaptionLimit \in Nat /\ CaptionLimit >= 4
    /\ CampaignDays[1] \in Int /\ CampaignDays[2] \in Int /\ CampaignDays[1] <= CampaignDays[2]
    /\ ZoneOffset \in Int
    /\ \A answer \in Answers : \A i \in answer :
          i.caption \in Seq(STRING) /\ i.at.hour \in Int /\ i.at.offset \in Int
    /\ {MaxKeys, MaxForms, MaxProbes, MaxTried} \subseteq Nat

VARIABLES
    connection,  \* AIProviderConnection rows
    form, probe, \* admin -> the row it has read, to edit or to test
    chain,       \* providers the generation has still to ask, none before it starts
    attempted,       \* providers it has asked
    generated,     \* none, asking, drafts, failed, or broken by an exception
    planned,     \* the drafts of the last answer
    formsDone, probesDone, \* counters
    entered,     \* history: the last key entered for a row
    proven,      \* history: what a test has called with success
    crossedRows      \* history: rows whose edits or tests overlapped

generationVars == <<connection, form, probe, chain, attempted, generated, planned, formsDone,
                    probesDone, entered, proven, crossedRows>>

NoConnection == [provider |-> "none"]
Existing(set) == {c \in set : connection[c] # NoConnection}
AdminIdle(t) == form[t] = NoConnection /\ probe[t] = NoConnection
Called(row) == [key |-> row.key, model |-> row.model, provider |-> row.provider]

-------------------------------------------------------------------------------
(* Connections *)

\* Mutant: the label somebody picked is kept.
KeepLabel(requested, model, custom) == requested

\* The endpoint and the model decide which provider it is.
CleanProvider(requested, model, custom) ==
    IF custom THEN Compatible
    ELSE IF ModelFamily[model] # "" THEN ModelFamily[model] ELSE requested

\* The connection's adapter, told from what is stored.
Effective(row) ==
    IF row.provider = Compatible THEN Compatible
    ELSE IF ModelFamily[row.model] # "" THEN ModelFamily[row.model] ELSE row.provider

Distinct(c, provider) == \A d \in Slots \ {c} : connection[d].provider # provider

\* Mutant: a blank key empties the stored one.
BlankEmpties(old, new) == new

\* A blank key keeps the one that was read with the form.
CleanKey(old, new) == IF new = 0 THEN old ELSE new

\* Somebody else holds what it has read of the row.
HeldByOther(t, c) ==
    \E x \in ProviderAdmins \ {t} : \E r \in {form[x], probe[x]} \ {NoConnection} : r.id = c

\* The key of a created connection is required; a taken provider is refused by the
\* form, or by the unique constraint.
CreateConnection(c, requested, model, custom, priority) ==
    LET provider == CleanProvider(requested, model, custom)
        first == formsDone + 1
    IN  /\ formsDone < MaxForms /\ first <= MaxKeys /\ connection[c] = NoConnection
        /\ \A t \in ProviderAdmins : \A r \in {form[t], probe[t]} \ {NoConnection} : r.id # c
        /\ Distinct(c, provider)
        /\ connection' = [connection EXCEPT ![c] =
             [id |-> c, provider |-> provider, model |-> model, priority |-> priority,
              active |-> TRUE, key |-> first, test |-> "untested"]]
        /\ entered' = [entered EXCEPT ![c] = first]
        /\ formsDone' = formsDone + 1 /\ crossedRows' = crossedRows \ {c}
        /\ UNCHANGED <<form, probe, chain, attempted, generated, planned, probesDone, proven>>

ReadForEdit(t, c) ==
    /\ AdminIdle(t) /\ connection[c] # NoConnection /\ formsDone < MaxForms
    /\ form' = [form EXCEPT ![t] = connection[c]] /\ formsDone' = formsDone + 1
    /\ crossedRows' = crossedRows \cup {d \in {c} : HeldByOther(t, d)}
    /\ UNCHANGED <<connection, probe, chain, attempted, generated, planned, probesDone, entered, proven>>

\* Mutant: an edit keeps the verdict of the last test.
KeepVerdict(row) == row.test

AfterEdit(row) == "untested"

\* Every column is saved, over edits made meanwhile; a row deleted meanwhile is
\* inserted again.
SaveConnection(t, requested, model, custom, active, new) ==
    LET old == form[t]
        provider == CleanProvider(requested, model, custom)
        kept == CleanKey(old.key, new)
    IN  /\ old # NoConnection /\ new \in {0, formsDone}
        /\ IF Distinct(old.id, provider)
           THEN /\ connection' = [connection EXCEPT ![old.id] =
                     [old EXCEPT !.provider = provider, !.model = model, !.active = active,
                                 !.key = kept, !.test = AfterEdit(old)]]
                /\ entered' = IF new = 0 THEN entered ELSE [entered EXCEPT ![old.id] = new]
           ELSE UNCHANGED <<connection, entered>>
        /\ form' = [form EXCEPT ![t] = NoConnection]
        /\ UNCHANGED <<probe, chain, attempted, generated, planned, formsDone, probesDone, proven, crossedRows>>

DeleteConnection(c) ==
    /\ connection[c] # NoConnection
    /\ connection' = [connection EXCEPT ![c] = NoConnection]
    /\ crossedRows' = crossedRows \cup {c}
    /\ UNCHANGED <<form, probe, chain, attempted, generated, planned, formsDone, probesDone, entered, proven>>

\* The provider is called with what was read, and only the verdict is saved.
BeginProbe(t, c) ==
    /\ AdminIdle(t) /\ connection[c] # NoConnection /\ probesDone < MaxProbes
    /\ probe' = [probe EXCEPT ![t] = connection[c]] /\ probesDone' = probesDone + 1
    /\ crossedRows' = crossedRows \cup {d \in {c} : HeldByOther(t, d)}
    /\ UNCHANGED <<connection, form, chain, attempted, generated, planned, formsDone, entered, proven>>

EndProbe(t, works) ==
    /\ probe[t] # NoConnection
    /\ connection' = [c \in Slots |->
         IF c = probe[t].id /\ connection[c] # NoConnection
         THEN [connection[c] EXCEPT !.test = IF works THEN "success" ELSE "failure"]
         ELSE connection[c]]
    /\ proven' = IF works THEN proven \cup {Called(probe[t])} ELSE proven
    /\ probe' = [probe EXCEPT ![t] = NoConnection]
    /\ UNCHANGED <<form, chain, attempted, generated, planned, formsDone, probesDone, entered, crossedRows>>

-------------------------------------------------------------------------------
(* The chain of providers *)

\* The members of S by rank.
Ordered(S, rank) ==
    [n \in 1..Cardinality(S) |->
        CHOOSE x \in S : Cardinality({y \in S : rank[y] <= rank[x]}) = n]

\* Mutant: the operator's providers come on top, whatever is connected.
AllOfEnvironment(environment, names) == environment

Fallbacks(environment, names) ==
    LET left == {i \in DOMAIN environment : environment[i] \notin names}
        order == Ordered(left, [i \in left |-> i])
    IN  [n \in DOMAIN order |-> environment[order[n]]]

\* By priority, then by provider.
Preference(row) ==
    row.priority * 4 + CHOOSE i \in 1..4 : Alphabetical[i] = row.provider

\* Active connections by priority and provider, then the operator's.
Configured(environment) ==
    LET own == {c \in Existing(Slots) : connection[c].active}
        order == Ordered(own, [c \in own |-> Preference(connection[c])])
        names == {Effective(connection[c]) : c \in own}
    IN  [n \in DOMAIN order |-> Effective(connection[order[n]])] \o Fallbacks(environment, names)

StartGeneration(environment) ==
    /\ generated # "asking" /\ Len(attempted) < MaxTried
    /\ chain' = Configured(environment) /\ attempted' = <<>> /\ generated' = "asking"
    /\ UNCHANGED <<connection, form, probe, planned, formsDone, probesDone, entered, proven, crossedRows>>

\* What a provider can send back, and what its adapter makes of it: an answer, an
\* error the router goes on from, or an exception nobody catches.
ProviderReplies == {"http error", "not json", "array", "error object", "no content", "empty list",
            "text", "object"}

OpenAIReply(reply) ==
    CASE reply = "object" -> "answer" [] reply = "array" -> "broken" [] OTHER -> "error"
AnthropicReply(reply) ==
    CASE reply = "object" -> "answer" [] reply = "array" -> "broken" [] OTHER -> "error"
GeminiReply(reply) ==
    CASE reply = "object" -> "answer" [] reply \in {"array", "empty list"} -> "broken"
      [] OTHER -> "error"

ReplyOf(name, reply) ==
    CASE name = "demo" -> "answer"
      [] name = "anthropic" -> AnthropicReply(reply)
      [] name = "gemini" -> GeminiReply(reply)
      [] OTHER -> OpenAIReply(reply)

\* Mutant: the first error ends the generation.
StopAtFirst(rest) == "failed"

AfterError(rest) == IF rest = <<>> THEN "failed" ELSE "asking"

NothingConfigured ==
    /\ generated = "asking" /\ chain = <<>> /\ generated' = "failed"
    /\ UNCHANGED <<connection, form, probe, chain, attempted, planned, formsDone, probesDone,
                   entered, proven, crossedRows>>

AskNext(reply) ==
    /\ generated = "asking" /\ chain # <<>> /\ ReplyOf(Head(chain), reply) # "answer"
    /\ attempted' = Append(attempted, Head(chain)) /\ chain' = Tail(chain)
    /\ generated' = IF ReplyOf(Head(chain), reply) = "broken" THEN "broken"
                  ELSE AfterError(Tail(chain))
    /\ UNCHANGED <<connection, form, probe, planned, formsDone, probesDone, entered, proven, crossedRows>>

-------------------------------------------------------------------------------
(* What becomes of an answer *)

\* A caption over the limit is cut at its last space, and dots follow.
FitCaption(text) ==
    LET cut == SubSeq(text, 1, IF CaptionLimit > 4 THEN CaptionLimit - 3 ELSE 1)
        spaces == {i \in DOMAIN cut : cut[i] = " "}
        word == IF spaces = {} THEN Len(cut) ELSE (CHOOSE i \in spaces : \A j \in spaces : j <= i) - 1
        kept == {i \in 1..word : cut[i] # " "}
    IN  IF Len(text) <= CaptionLimit THEN text
        ELSE (IF kept = {} THEN cut ELSE SubSeq(cut, 1, CHOOSE i \in kept : \A j \in kept : j <= i))
               \o <<".", ".", ".">>

\* Mutant: the date is taken as it was written.
WrittenDay(at) == at.hour \div 24

LocalDay(at) == (at.hour - at.offset + ZoneOffset) \div 24

\* The hour of a draft in the workspace's time: outside the campaign it is put on
\* its first or last day, and nine o'clock of the first is for what is no time.
ScheduleHour(at) ==
    LET local == LocalDay(at)
    IN  IF ~at.valid \/ local < CampaignDays[1] THEN CampaignDays[1] * 24 + 9
        ELSE IF local > CampaignDays[2] THEN CampaignDays[2] * 24 + 9
        ELSE at.hour - at.offset + ZoneOffset

\* Mutant: only the caption is moderated.
CaptionOnly == {"caption"}

Moderated == {"title", "caption", "caption_variants", "visual_prompt", "video_script"}

\* An item for another platform, or with no caption, is left out.
Normalized(answer) ==
    {[caption |-> FitCaption(i.caption), hour |-> ScheduleHour(i.at), topics |-> i.topics,
      flagged |-> i.topics \cap Moderated # {}] : i \in {x \in answer : x.allowed /\ x.caption # <<>>}}

\* An answer with nothing in it fails the generation; no other provider is asked.
UseAnswer(reply, answer) ==
    /\ generated = "asking" /\ chain # <<>> /\ ReplyOf(Head(chain), reply) = "answer"
    /\ attempted' = Append(attempted, Head(chain)) /\ chain' = <<>>
    /\ generated' = IF Normalized(answer) = {} THEN "failed" ELSE "drafts"
    /\ planned' = IF Normalized(answer) = {} THEN planned ELSE Normalized(answer)
    /\ UNCHANGED <<connection, form, probe, formsDone, probesDone, entered, proven, crossedRows>>

-------------------------------------------------------------------------------

GenerationInit ==
    /\ connection = [c \in Slots |-> NoConnection]
    /\ form = [t \in ProviderAdmins |-> NoConnection]
    /\ probe = [t \in ProviderAdmins |-> NoConnection]
    /\ chain = <<>> /\ attempted = <<>> /\ generated = "none" /\ planned = {}
    /\ formsDone = 0 /\ probesDone = 0
    /\ entered = [c \in Slots |-> 0] /\ proven = {} /\ crossedRows = {}

GenerationNext ==
    \/ \E c \in Slots, p \in AIProviders, m \in Models, u \in BOOLEAN, n \in Priorities :
          CreateConnection(c, p, m, u, n)
    \/ \E t \in ProviderAdmins, c \in Slots : ReadForEdit(t, c) \/ BeginProbe(t, c)
    \/ \E t \in ProviderAdmins, p \in AIProviders, m \in Models, u, a \in BOOLEAN :
          \E new \in 0..MaxForms : SaveConnection(t, p, m, u, a, new)
    \/ \E c \in Slots : DeleteConnection(c)
    \/ \E t \in ProviderAdmins, works \in BOOLEAN : EndProbe(t, works)
    \/ \E environment \in Environments : StartGeneration(environment)
    \/ NothingConfigured
    \/ \E reply \in ProviderReplies : AskNext(reply)
    \/ \E reply \in ProviderReplies, answer \in Answers : UseAnswer(reply, answer)

GenerationSpec == GenerationInit /\ [][GenerationNext]_generationVars

-------------------------------------------------------------------------------

GenerationTypeOK ==
    /\ \A c \in Slots : connection[c] = NoConnection \/ connection[c].provider \in AIProviders
    /\ chain \in Seq(AIProviders \cup {"demo"}) /\ attempted \in Seq(AIProviders \cup {"demo"})
    /\ generated \in {"none", "asking", "drafts", "failed", "broken"}
    /\ formsDone \in 0..MaxForms /\ probesDone \in 0..MaxProbes

\* A generation never asks one provider twice, with the organization's key and with
\* the operator's, however a connection was labelled and relabelled.
NobodyAskedTwice == IsInjective(attempted \o chain)

\* A generation fails only when every provider failed, or one's answer held nothing.
FailsOnlyWhenAllDid ==
    generated = "failed" => chain = <<>>

\* The verdict shown for a connection is about the key and model it has now, unless
\* an edit and a test of it overlapped.
VerdictOfThisKey ==
    \A c \in Existing(Slots) \ crossedRows :
        connection[c].test = "success" => Called(connection[c]) \in proven

\* A key stays the one entered last, unless two edits overlapped or the row was
\* deleted under one.
KeyEnteredLast == \A c \in Existing(Slots) \ crossedRows : connection[c].key = entered[c]

\* A draft lies within its campaign by the workspace's calendar and within its
\* platform's limit, and none that passed moderation puts a forbidden topic into what
\* is published or drawn.
DraftsFit ==
    \A d \in planned :
        /\ Len(d.caption) <= CaptionLimit
        /\ d.hour \div 24 \in CampaignDays[1]..CampaignDays[2]
        /\ d.flagged \/ d.topics \cap {"title", "caption", "visual_prompt", "video_script"} = {}

\* The five above.
GenerationsHold ==
    NobodyAskedTwice /\ FailsOnlyWhenAllDid /\ VerdictOfThisKey /\ KeyEnteredLast /\ DraftsFit
===============================================================================
