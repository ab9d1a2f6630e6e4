------------------------------ MODULE Pitches ------------------------------
(***************************************************************************)
(* What an institution offers to companies: its own programmes, the deals  *)
(* it pursues, and the pitch generated for a deal.  Row level security and *)
(* the foreign keys belong to the database.                                *)
(***************************************************************************)

CONSTANTS
    Ngos,           \* institutions
    Drives,         \* rows of ngo_managed_programs
    Wordings,       \* what programmes say
    Deals,          \* rows of deal_pipelines
    DealStages,     \* deal_stage_enum
    NoRow,          \* no such row, and no value in a column
    Default,        \* the wording built into the program
    Writers         \* bound: pitches being generated at the same time

DriveRow == [org : Ngos, says : Wordings]
DealRow == [org : Ngos, target : Drives \cup {NoRow}, stage : DealStages,
            proposal : Wordings \cup {Default, NoRow}]

ASSUME PitchesAssumption ==
    /\ "DISCOVERED" \in DealStages
    /\ NoRow \notin Drives \cup Wordings \cup DriveRow \cup DealRow
    /\ Default \notin Wordings /\ Default # NoRow

VARIABLES
    drive,      \* the programmes
    deal,       \* the deals
    writer,     \* where each generation of a pitch is
    usage,      \* deals with an entry in each institution's ai_token_logs
    said        \* history: wordings of each institution's programmes

rowVars == <<drive, deal, usage, said>>
pitchesVars == <<rowVars, writer>>

NoPitch == [pc |-> "idle"]

PitchesInit ==
    /\ drive = [q \in Drives |-> NoRow]
    /\ deal = [d \in Deals |-> NoRow]
    /\ writer = [k \in Writers |-> NoPitch]
    /\ usage = [o \in Ngos |-> {}]
    /\ said = [o \in Ngos |-> {}]

----------------------------------------------------------------------------
(* Programmes: each institution writes, changes and deletes its own.       *)
InstitutionProgram(o, words) == [org |-> o, says |-> words]

CreateProgram(o, q, words) ==
    /\ drive[q] = NoRow
    /\ drive' = [drive EXCEPT ![q] = InstitutionProgram(o, words)]
    /\ said' = [said EXCEPT ![o] = @ \cup {words}]
    /\ UNCHANGED <<deal, usage, writer>>

OwnsDrive(o, q) == drive[q] # NoRow /\ drive[q].org = o

UpdateProgram(o, q, words) ==
    /\ OwnsDrive(o, q)
    /\ drive' = [drive EXCEPT ![q].says = words]
    /\ said' = [said EXCEPT ![o] = @ \cup {words}]
    /\ UNCHANGED <<deal, usage, writer>>

(* A deal that named the programme names none then: ON DELETE SET NULL.    *)
RemoveDrive(o, q) ==
    /\ OwnsDrive(o, q)
    /\ drive' = [drive EXCEPT ![q] = NoRow]
    /\ deal' = [d \in Deals |-> IF deal[d] # NoRow /\ deal[d].target = q
                                THEN [deal[d] EXCEPT !.target = NoRow] ELSE deal[d]]

DeleteProgram(o, q) == RemoveDrive(o, q) /\ UNCHANGED <<usage, said, writer>>

----------------------------------------------------------------------------
(* Deals.  The foreign key asks only that the programme exists; the        *)
(* proposal is empty until a pitch is generated.                           *)
DealPipeline(o, q) == [org |-> o, target |-> q, stage |-> "DISCOVERED", proposal |-> NoRow]

CreateDeal(o, d, q) ==
    /\ deal[d] = NoRow /\ (q # NoRow => drive[q] # NoRow)
    /\ deal' = [deal EXCEPT ![d] = DealPipeline(o, q)]
    /\ UNCHANGED <<drive, usage, said, writer>>

(* What row level security lets an institution see: ListDeals.             *)
ListDeals(o) == {d \in Deals : deal[d] # NoRow /\ deal[d].org = o}
GetDealByID(o, d) == d \in ListDeals(o)

(* The identifier is compared as an ending, too: one request moves every   *)
(* deal of the institution that ends so, from any stage to any other.      *)
UpdateDealStage(o, ds, stage) ==
    /\ ds # {} /\ ds \subseteq ListDeals(o)
    /\ deal' = [d \in Deals |-> IF d \in ds THEN [deal[d] EXCEPT !.stage = stage] ELSE deal[d]]

UpdateStage(o, ds, stage) ==
    UpdateDealStage(o, ds, stage) /\ UNCHANGED <<drive, usage, said, writer>>

----------------------------------------------------------------------------
(* Generating a pitch: three transactions, with changes in between.        *)
GeneratePitch(k, o, d) ==
    /\ writer[k] = NoPitch /\ GetDealByID(o, d)
    /\ writer' = [writer EXCEPT ![k] = [pc |-> "program", org |-> o, deal |-> d,
                                        target |-> deal[d].target]]
    /\ UNCHANGED rowVars

(* Plausible bug: a programme is found by its identifier alone.            *)
FindAnyProgram(o, q) == q # NoRow /\ drive[q] # NoRow

GetProgramByID(o, q) == q # NoRow /\ OwnsDrive(o, q)

(* A programme that is not found, or not read, leaves the default wording. *)
ReadProgram(k) ==
    /\ writer[k].pc = "program"
    /\ \E words \in {Default} \cup
             (IF GetProgramByID(writer[k].org, writer[k].target)
              THEN {drive[writer[k].target].says} ELSE {}) :
          writer' = [writer EXCEPT ![k] = [pc |-> "pitch", org |-> writer[k].org,
                                           deal |-> writer[k].deal, words |-> words]]
    /\ UNCHANGED rowVars

(* Neither the write of the proposal nor that of the usage is looked at.   *)
LogUsage(o, d) == usage' = [usage EXCEPT ![o] = @ \cup {d}] \/ UNCHANGED usage

UpdateDealPitch(k) ==
    /\ writer[k].pc = "pitch"
    /\ \/ deal' = [deal EXCEPT ![writer[k].deal].proposal = writer[k].words]
       \/ UNCHANGED deal
    /\ LogUsage(writer[k].org, writer[k].deal)
    /\ writer' = [writer EXCEPT ![k] = NoPitch]
    /\ UNCHANGED <<drive, said>>

PitchesStop ==
    /\ \E k \in Writers : writer[k] # NoPitch
    /\ writer' = [k \in Writers |-> NoPitch]
    /\ UNCHANGED rowVars

PitchesNext ==
    \/ \E o \in Ngos, q \in Drives, words \in Wordings :
          CreateProgram(o, q, words) \/ UpdateProgram(o, q, words)
    \/ \E o \in Ngos, q \in Drives : DeleteProgram(o, q)
    \/ \E o \in Ngos, d \in Deals, q \in Drives \cup {NoRow} : CreateDeal(o, d, q)
    \/ \E o \in Ngos, ds \in SUBSET Deals, s \in DealStages : UpdateStage(o, ds, s)
    \/ \E k \in Writers, o \in Ngos, d \in Deals : GeneratePitch(k, o, d)
    \/ \E k \in Writers : ReadProgram(k) \/ UpdateDealPitch(k)
    \/ PitchesStop

PitchesSpec == PitchesInit /\ [][PitchesNext]_pitchesVars

----------------------------------------------------------------------------
(* The state is well typed, and a deal names only programmes that exist.   *)
PitchesTypeOK ==
    /\ drive \in [Drives -> {NoRow} \cup DriveRow]
    /\ deal \in [Deals -> {NoRow} \cup DealRow]
    /\ writer \in [Writers -> {NoPitch}
         \cup [pc : {"program"}, org : Ngos, deal : Deals, target : Drives \cup {NoRow}]
         \cup [pc : {"pitch"}, org : Ngos, deal : Deals, words : Wordings \cup {Default}]]
    /\ usage \in [Ngos -> SUBSET Deals]
    /\ said \in [Ngos -> SUBSET Wordings]
    /\ \A d \in Deals : deal[d] # NoRow /\ deal[d].target # NoRow
                           => drive[deal[d].target] # NoRow

(* The proposal of a deal speaks of nothing but what the institution's own *)
(* programmes said at some time, though the foreign key lets a deal name   *)
(* anybody's programme, and programmes are changed and deleted between the *)
(* transactions of GeneratePitch; and only own deals are charged to it.    *)
PitchFromOwnProgram ==
    /\ \A d \in Deals : deal[d] # NoRow =>
          deal[d].proposal \in said[deal[d].org] \cup {Default, NoRow}
    /\ \A o \in Ngos : usage[o] \subseteq ListDeals(o)
=============================================================================
