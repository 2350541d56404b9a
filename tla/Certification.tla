--------------------------- MODULE Certification ---------------------------
(***************************************************************************)
(* Certification of a state's filing portal: the matrix of what the portal *)
(* showed (regulatory/state_automation_matrix.py), the gates computed from  *)
(* it and overridden by the gates file (state_automation_profiles.py), and  *)
(* the certifier, a program operators start by hand, which visits the       *)
(* portals on the worklist, classifies the page each state's script stops   *)
(* at and writes the result to that file (state_review_certifier.py).       *)
(*                                                                          *)
(* One jurisdiction is followed, any of States.  A page is the set of signs *)
(* the scripts look for in it:                                              *)
(*   challenge   a term of CHALLENGE_TERMS in text, HTML, title or URL      *)
(*   denied      HTTP status 401, 403 or 429                                *)
(*   login, review, submit   a term of the list of that name                *)
(*   widget      a challenge widget among the form controls                 *)
(*   block_page  _body_blocked: an access-denied or verification page       *)
(*   marker      the sign of a challenge only this state's script looks for *)
(*   gate        the login form or data page this state's script expects    *)
(*   unreachable the navigation raised: no page                             *)
(***************************************************************************)
EXTENDS Naturals, FiniteSets

CONSTANTS
    States,      \* the jurisdictions, a subset of the matrix's 51
    Runs,        \* certifier processes that may be alive at once
    MaxStarts,   \* bound: how often the certifier is started
    MaxEntries   \* bound: how often the portal entry is certified anew

ASSUME BoundsAssumption == /\ IsFiniteSet(Runs)
                           /\ MaxStarts \in Nat
                           /\ MaxEntries \in Nat

VARIABLES
    state,       \* the jurisdiction followed
    records,     \* whether filing records were extracted for it
    readiness,   \* production_readiness in the matrix
    gatesFile,   \* overrides of its gates: code -> [status, seen]; or Torn
    run,         \* certifier process -> what it is doing
    starts,      \* certifier starts so far
    entries,     \* entry certifications so far
    disturbed    \* history: two runs overlapped, or one died while writing

vars == <<state, records, readiness, gatesFile, run, starts, entries, disturbed>>

Codes == <<"portal_entry", "customer_input_schema", "review_screen",
           "payment_screen", "status_polling", "document_collection",
           "trusted_access_checkpoint">>
Certifiable == {"review_screen", "trusted_access_checkpoint",
                "customer_input_schema"}
Torn == [unreadable |-> TRUE]   \* write_text was cut off: not JSON
NoFile == <<>>            \* no override for any gate

Signs == {"challenge", "denied", "login", "review", "submit", "widget",
          "block_page", "marker", "gate"}
Pages == SUBSET Signs \cup {{"unreachable"}}
Raised == "raised"        \* the script raised: the batch ends there

----------------------------------------------------------------------------
(* state_review_certifier.py: what a page says.                            *)

classify_by_review(page) ==        \* (mutant: a submit button is no stop)
    IF page \cap {"challenge", "denied"} # {} THEN "trusted_access_required"
    ELSE IF "login" \in page THEN "login_required"
    ELSE IF "review" \in page THEN "complete"
    ELSE "blocked"

classify_review_signals(page) ==
    IF page \cap {"challenge", "denied"} # {} THEN "trusted_access_required"
    ELSE IF "login" \in page THEN "login_required"
    ELSE IF "review" \in page /\ "submit" \notin page THEN "complete"
    ELSE "blocked"

\* A script's stop: behind a wall it asks for the operator's profile, at the
\* state's own gate for what the gate wants, else it says what it sees.
StopsAt(page, walls, wanted) ==
    IF page \cap walls # {} THEN "trusted_access_required"
    ELSE IF "gate" \in page THEN wanted
    ELSE classify_review_signals(page)

\* page.goto outside try: an unreachable portal raises.
Direct(page, status) == IF "unreachable" \in page THEN Raised ELSE status

Widgets == {"widget", "block_page"}
Denied == Widgets \cup {"denied"}
_safe_goto == Denied \cup {"unreachable"}
_edge_block_marks_trusted_access == _safe_goto
Login == "login_required"
Applicant == "applicant_data_required"

----------------------------------------------------------------------------
(* One operator per script: its walls and what its gate wants.             *)

script_ca_bizfile(page) ==
    LET seen == classify_review_signals(page) IN
    Direct(page, IF seen = "blocked" /\ "review" \notin page THEN Login ELSE seen)

\* marker: the introduction was challenged; behind it http_status is 200.
script_co_business_filing(page) ==
    Direct(page, StopsAt(page \ {"denied"}, {"marker"}, Applicant))

script_ct_business_services(page) == Direct(page, StopsAt(page, {"widget"}, Login))
script_ok_sos_wizard(page) == Direct(page, StopsAt(page, {"widget"}, Applicant))
\* marker: the introduction was denied
script_al_sos_online_services(page) ==
    Direct(page, StopsAt(page, Widgets \cup {"marker"}, Applicant))
script_ar_sos_corpfilings(page) == Direct(page, StopsAt(page, Denied, Applicant))
\* marker: HTTP 503
script_ak_cbpl_create_entity(page) ==
    Direct(page, StopsAt(page, Denied \cup {"marker"}, Login))
\* marker: the page says that it is protected by reCAPTCHA
script_az_ecorp(page) == Direct(page, StopsAt(page, Widgets \cup {"marker"}, Login))
script_de_ecorp_document_upload(page) ==
    Direct(page, "requires_registered_agent_intermediary")
\* marker: an active Turnstile; no gate of its own
script_fl_sunbiz_efile(page) ==
    Direct(page, StopsAt(page \ {"gate"}, {"marker", "denied"}, Login))
script_ga_ecorp(page) == Direct(page, StopsAt(page, Denied, Login))
script_hi_bizex(page) == Direct(page, StopsAt(page, Widgets, Login))
\* marker: Akamai's denial
script_ia_fast_track_filing(page) ==
    Direct(page, StopsAt(page, {"block_page", "marker"}, Login))
script_id_sosbiz(page) == Direct(page, StopsAt(page, Denied, Login))
\* marker: reCAPTCHA, the single sign-on, or sent back to the home page
script_in_inbiz(page) ==
    Direct(page, StopsAt(page \ {"gate"}, {"block_page", "marker"}, Login))
script_il_corporatellc(page) ==
    StopsAt(page \ {"gate"}, {"block_page", "marker", "unreachable"}, Login)
script_ks_eforms(page) == StopsAt(page, _safe_goto, Login)
script_ky_fasttrack(page) == StopsAt(page, _safe_goto, Applicant)
script_la_geauxbiz(page) == StopsAt(page, _safe_goto, Login)
\* marker: Incapsula's script
script_ma_corpweb(page) ==
    StopsAt(page \ {"gate"},
            {"marker", "block_page", "denied", "unreachable"}, Login)
script_md_business_express(page) == StopsAt(page, _safe_goto, Login)
script_me_aro(page) == StopsAt(page, _safe_goto, Applicant)
\* marker: Turnstile; an unreachable portal is read as an empty page
script_mi_mibusiness_registry(page) ==
    StopsAt(page \ {"gate"}, {"marker", "block_page", "denied"}, Login)
script_mn_mbls(page) == StopsAt(page, Denied \cup {"unreachable"}, Login)
script_mo_bsd(page) == StopsAt(page, _safe_goto, Login)
script_ms_corp_portal(page) ==
    StopsAt(page \ {"gate"}, _edge_block_marks_trusted_access, Login)
script_mt_biz_sosmt(page) == StopsAt(page, _safe_goto, Login)
\* marker: Cloudflare's interstitial
script_nc_sosnc_online_filing(page) ==
    StopsAt(page \ {"gate"}, _edge_block_marks_trusted_access \cup {"marker"}, Login)
script_nd_firststop(page) == StopsAt(page, _safe_goto, Login)
script_ne_corp_filing(page) == StopsAt(page, _safe_goto, Login)
script_nh_quickstart(page) ==
    StopsAt(page \ {"gate"}, _edge_block_marks_trusted_access, Login)
script_nj_business_formation(page) == StopsAt(page, _safe_goto, Applicant)
script_nm_enterprise(page) == StopsAt(page, _safe_goto, Login)
\* marker: Incapsula or hCaptcha
script_nv_silverflume(page) ==
    StopsAt(page \ {"gate"}, _edge_block_marks_trusted_access \cup {"marker"}, Login)
script_ny_business_express(page) ==
    StopsAt(page, _safe_goto, "trusted_access_required")
\* marker: the Turnstile interstitial
script_oh_obc(page) ==
    StopsAt(page, _edge_block_marks_trusted_access \cup {"marker"}, Login)
\* marker: F5's JavaScript challenge
script_or_cbr_manager(page) ==
    StopsAt(page \ {"gate"}, _edge_block_marks_trusted_access \cup {"marker"}, Login)
\* marker: Turnstile
script_pa_file_dos(page) ==
    StopsAt(page \ {"gate"}, _edge_block_marks_trusted_access \cup {"marker"}, Login)
script_ri_business_sos(page) == StopsAt(page, _edge_block_marks_trusted_access, Login)
script_sc_business_filings(page) ==
    StopsAt(page, _edge_block_marks_trusted_access, Login)
script_sd_sosenterprise(page) ==
    StopsAt(page, _edge_block_marks_trusted_access, Applicant)
script_tn_tnbear(page) == StopsAt(page, _edge_block_marks_trusted_access, Login)
script_ut_business_registration(page) ==
    StopsAt(page, _edge_block_marks_trusted_access, Login)
script_va_cis_scc(page) == StopsAt(page, _edge_block_marks_trusted_access, Login)
\* marker: Incapsula's interstitial
script_vt_bizfilings(page) ==
    StopsAt(page, _edge_block_marks_trusted_access \cup {"marker"}, Login)
\* marker: the Turnstile widget
script_wa_ccfs(page) ==
    StopsAt(page, _edge_block_marks_trusted_access \cup {"marker"}, Login)
script_wv_onestop(page) == StopsAt(page, _edge_block_marks_trusted_access, Login)
script_wi_wdfi(page) == StopsAt(page, _edge_block_marks_trusted_access, Applicant)
script_wy_wyobiz(page) == StopsAt(page, _edge_block_marks_trusted_access, Applicant)
script_dc_corponline(page) == StopsAt(page, _edge_block_marks_trusted_access, Login)

\* TX has a script's name and no script: its page is classified as it is.
STATE_SCRIPT_RUNNERS(s, page) ==
    CASE s = "AL" -> script_al_sos_online_services(page)
      [] s = "AK" -> script_ak_cbpl_create_entity(page)
      [] s = "AR" -> script_ar_sos_corpfilings(page)
      [] s = "AZ" -> script_az_ecorp(page)
      [] s = "CA" -> script_ca_bizfile(page)
      [] s = "CO" -> script_co_business_filing(page)
      [] s = "CT" -> script_ct_business_services(page)
      [] s = "DE" -> script_de_ecorp_document_upload(page)
      [] s = "FL" -> script_fl_sunbiz_efile(page)
      [] s = "GA" -> script_ga_ecorp(page)
      [] s = "HI" -> script_hi_bizex(page)
      [] s = "IA" -> script_ia_fast_track_filing(page)
      [] s = "ID" -> script_id_sosbiz(page)
      [] s = "IL" -> script_il_corporatellc(page)
      [] s = "IN" -> script_in_inbiz(page)
      [] s = "KS" -> script_ks_eforms(page)
      [] s = "KY" -> script_ky_fasttrack(page)
      [] s = "LA" -> script_la_geauxbiz(page)
      [] s = "MA" -> script_ma_corpweb(page)
      [] s = "MD" -> script_md_business_express(page)
      [] s = "ME" -> script_me_aro(page)
      [] s = "MI" -> script_mi_mibusiness_registry(page)
      [] s = "MN" -> script_mn_mbls(page)
      [] s = "MO" -> script_mo_bsd(page)
      [] s = "MS" -> script_ms_corp_portal(page)
      [] s = "MT" -> script_mt_biz_sosmt(page)
      [] s = "NC" -> script_nc_sosnc_online_filing(page)
      [] s = "ND" -> script_nd_firststop(page)
      [] s = "NE" -> script_ne_corp_filing(page)
      [] s = "NH" -> script_nh_quickstart(page)
      [] s = "NJ" -> script_nj_business_formation(page)
      [] s = "NM" -> script_nm_enterprise(page)
      [] s = "NV" -> script_nv_silverflume(page)
      [] s = "NY" -> script_ny_business_express(page)
      [] s = "OH" -> script_oh_obc(page)
      [] s = "OK" -> script_ok_sos_wizard(page)
      [] s = "OR" -> script_or_cbr_manager(page)
      [] s = "PA" -> script_pa_file_dos(page)
      [] s = "RI" -> script_ri_business_sos(page)
      [] s = "SC" -> script_sc_business_filings(page)
      [] s = "SD" -> script_sd_sosenterprise(page)
      [] s = "TN" -> script_tn_tnbear(page)
      [] s = "UT" -> script_ut_business_registration(page)
      [] s = "VA" -> script_va_cis_scc(page)
      [] s = "VT" -> script_vt_bizfilings(page)
      [] s = "WA" -> script_wa_ccfs(page)
      [] s = "WV" -> script_wv_onestop(page)
      [] s = "WI" -> script_wi_wdfi(page)
      [] s = "WY" -> script_wy_wyobiz(page)
      [] s = "DC" -> script_dc_corponline(page)
      [] OTHER -> Direct(page, classify_review_signals(page))

\* What a visit can record: the status and, when it is "complete", the
\* signals stored with it (no property reads those of the others).
browser_certify(s, page) ==
    LET status == STATE_SCRIPT_RUNNERS(s, page) IN
    [status |-> status, by |-> "run",
     seen |-> IF status # "complete" THEN {}
              ELSE page \cap {"challenge", "login", "review", "submit"}]
Visits == [s \in States |-> {browser_certify(s, page) : page \in Pages}]

----------------------------------------------------------------------------
(* The matrix, and the gates a jurisdiction still has before it.           *)

KNOWN_HUMAN_CHALLENGES == {"NC"}
KNOWN_PROVEN_STATES == {"TX"}
Ready == "production_ready_operator_supervised"
Observed == "certified_portal_entry_observed"
Assisted == "operator_assisted_required"

\* A rebuilt matrix forgets every entry certification.  A jurisdiction's portal
\* URLs are those the hints or its records name, if any.
build_matrix(s, recs, urls) ==
    IF s \in KNOWN_PROVEN_STATES THEN Ready
    ELSE IF s \in KNOWN_HUMAN_CHALLENGES THEN Assisted
    ELSE IF recs /\ urls THEN "research_ready_certification_needed"
    ELSE "not_ready"

\* signs of the portal's entry; "protected": the endpoint known to be
\* protected was not seen open.
_readiness_from_signals(signs) ==
    IF "challenge" \in signs THEN Assisted
    ELSE IF "entry" \in signs THEN Observed
    ELSE "research_ready_certification_needed"
EntryReadiness(s, signs) ==
    IF s \in KNOWN_HUMAN_CHALLENGES /\ "protected" \in signs THEN Assisted
    ELSE IF s \in KNOWN_PROVEN_STATES /\ _readiness_from_signals(signs) # Assisted
         THEN Ready
    ELSE _readiness_from_signals(signs)

\* A file that does not parse is taken for one without overrides.
load_certification_gate_overrides ==
    IF gatesFile = Torn THEN NoFile ELSE gatesFile

CompleteIf(b, other) == IF b THEN "complete" ELSE other

MatrixGates ==
    [portal_entry |-> CompleteIf(readiness \in {Ready, Observed, Assisted}, "pending"),
     customer_input_schema |-> CompleteIf(records, "needs_repair"),
     review_screen |-> CompleteIf(readiness = Ready, "pending"),
     payment_screen |-> CompleteIf(readiness = Ready, "pending"),
     status_polling |-> CompleteIf(state \in KNOWN_PROVEN_STATES, "pending"),
     document_collection |-> CompleteIf(state \in KNOWN_PROVEN_STATES, "pending"),
     trusted_access_checkpoint |-> IF readiness = Assisted THEN "required" ELSE "absent"]

gates_without_overrides(gates) == gates   \* (mutant: the file is not read)

apply_gate_overrides(gates) ==
    LET file == load_certification_gate_overrides IN
    [c \in DOMAIN gates |-> IF c \in DOMAIN file THEN file[c].status ELSE gates[c]]

certification_gates == apply_gate_overrides(MatrixGates)

statuses_without_login ==          \* (mutant: one status is forgotten)
    {"pending", "needs_repair", "required", "needs_state_script",
     "applicant_data_required", "trusted_access_required",
     "requires_registered_agent_intermediary", "blocked", "failed"}

INCOMPLETE_GATE_STATUSES ==
    {"pending", "needs_repair", "required", "needs_state_script",
     "applicant_data_required", "login_required", "trusted_access_required",
     "requires_registered_agent_intermediary", "blocked", "failed"}

\* "none" when no gate's status is on the list
next_certification_gate ==
    LET open == {k \in DOMAIN Codes :
                   certification_gates[Codes[k]] \in INCOMPLETE_GATE_STATUSES}
    IN  IF open = {} THEN "none"
        ELSE Codes[CHOOSE k \in open : \A l \in open : k <= l]

\* execution_lane_from_profile, and the manifest's override of it
TrustedLane ==
    \/ readiness = Assisted
    \/ \E c \in DOMAIN certification_gates :
         certification_gates[c] = "trusted_access_required"

any_gate_is_a_target == next_certification_gate # "none"   \* (mutant)
target_states == next_certification_gate \in Certifiable

dry_run_certify(item) ==
    [status |-> IF item.gate = "customer_input_schema" THEN "needs_repair"
                ELSE IF item.trusted THEN "trusted_access_required"
                ELSE "pending_browser_certification",
     by |-> "run", seen |-> {}]

----------------------------------------------------------------------------
(* Processes.  A run that is not told to write changes nothing and is left  *)
(* out; so are the other jurisdictions of a batch, which a run alone takes  *)
(* one after the other and whose entries it rewrites as it read them.       *)

Idle == [phase |-> "idle"]
ByHand == [status |-> "complete", by |-> "hand", seen |-> {"review", "submit"}]
HandCertified ==
    [c \in {"review_screen", "payment_screen", "status_polling",
            "document_collection"} |-> ByHand]

\* the repository's file holds one jurisdiction certified by hand
Init == /\ state \in States
        /\ records \in BOOLEAN
        /\ \E urls \in BOOLEAN : readiness = build_matrix(state, records, urls)
        /\ gatesFile \in {NoFile, HandCertified}
        /\ run = [r \in Runs |-> Idle]
        /\ starts = 0 /\ entries = 0
        /\ disturbed = FALSE

write_matrix ==
    /\ entries < MaxEntries
    /\ entries' = entries + 1
    /\ records' \in BOOLEAN
    /\ \E urls \in BOOLEAN : readiness' = build_matrix(state, records', urls)
    /\ UNCHANGED <<state, gatesFile, run, starts, disturbed>>

certify_state(signs) ==
    /\ entries < MaxEntries
    /\ entries' = entries + 1
    /\ readiness' = EntryReadiness(state, signs)
    /\ UNCHANGED <<state, records, gatesFile, run, starts, disturbed>>

\* A certifier starts and takes the jurisdiction from the worklist.
run_certifications(r) ==
    /\ run[r] = Idle
    /\ starts < MaxStarts
    /\ target_states
    /\ starts' = starts + 1
    /\ run' = [run EXCEPT ![r] = [phase |-> "planned", trusted |-> TrustedLane,
                                  gate |-> next_certification_gate]]
    /\ disturbed' = (disturbed \/ \E q \in Runs \ {r} : run[q] # Idle)
    /\ UNCHANGED <<state, records, readiness, gatesFile, entries>>

Has(r, result) ==
    run' = [run EXCEPT ![r] = [phase |-> "certified", gate |-> run[r].gate,
                               result |-> result]]

certify_dry(r) ==
    /\ run[r].phase = "planned"
    /\ Has(r, dry_run_certify(run[r]))
    /\ UNCHANGED <<state, records, readiness, gatesFile, starts, entries, disturbed>>

certify_in_browser(r) ==
    /\ run[r].phase = "planned"
    /\ \E visit \in Visits[state] :
         IF visit.status = Raised THEN run' = [run EXCEPT ![r] = Idle]
         ELSE Has(r, visit)
    /\ UNCHANGED <<state, records, readiness, gatesFile, starts, entries, disturbed>>

\* write_gate_result: the file is read, ...
write_gate_result_load(r) ==
    /\ run[r].phase = "certified"
    /\ run' = [run EXCEPT ![r] =
                 [phase |-> "loaded",
                  payload |-> load_certification_gate_overrides,
                  gate |-> run[r].gate, result |-> run[r].result]]
    /\ UNCHANGED <<state, records, readiness, gatesFile, starts, entries, disturbed>>

\* ... emptied by write_text ...
write_gate_result_open(r) ==
    /\ run[r].phase = "loaded"
    /\ run' = [run EXCEPT ![r].phase = "writing"]
    /\ gatesFile' = Torn
    /\ UNCHANGED <<state, records, readiness, starts, entries, disturbed>>

\* ... and whole again.
write_gate_result(r) ==
    /\ run[r].phase = "writing"
    /\ gatesFile' = [c \in DOMAIN run[r].payload \cup {run[r].gate} |->
                       IF c = run[r].gate THEN run[r].result ELSE run[r].payload[c]]
    /\ run' = [run EXCEPT ![r] = Idle]
    /\ UNCHANGED <<state, records, readiness, starts, entries, disturbed>>

Die(r) ==
    /\ run[r] # Idle
    /\ run' = [run EXCEPT ![r] = Idle]
    /\ disturbed' = (disturbed \/ run[r].phase = "writing")
    /\ UNCHANGED <<state, records, readiness, gatesFile, starts, entries>>

Next == \/ write_matrix
        \/ \E signs \in SUBSET {"challenge", "entry", "protected"} : certify_state(signs)
        \/ \E r \in Runs : \/ run_certifications(r)
                           \/ certify_dry(r)
                           \/ certify_in_browser(r)
                           \/ write_gate_result_load(r)
                           \/ write_gate_result_open(r)
                           \/ write_gate_result(r)
                           \/ Die(r)

Spec == Init /\ [][Next]_vars

----------------------------------------------------------------------------
Statuses == {"complete", "pending_browser_certification", "needs_repair",
             "login_required", "applicant_data_required", "blocked",
             "trusted_access_required", "requires_registered_agent_intermediary"}

IsResult(result) == /\ result.status \in Statuses
                    /\ result.by \in {"run", "hand"}
                    /\ result.seen \subseteq Signs
IsFile(file) == /\ DOMAIN file \subseteq {Codes[k] : k \in DOMAIN Codes}
                /\ \A c \in DOMAIN file : IsResult(file[c])

\* Every variable holds a value of its kind; a run works only on a gate the
\* certifier handles, and the file names no gate but those and the ones
\* certified by hand.
TypeOK ==
    /\ state \in States /\ records \in BOOLEAN /\ disturbed \in BOOLEAN
    /\ readiness \in {Ready, Observed, Assisted, "not_ready",
                      "research_ready_certification_needed"}
    /\ gatesFile = Torn \/ IsFile(gatesFile)
    /\ starts \in 0..MaxStarts /\ entries \in 0..MaxEntries
    /\ \A r \in Runs :
         \/ run[r] = Idle
         \/ /\ run[r].phase \in {"planned", "certified", "loaded", "writing"}
            /\ run[r].gate \in Certifiable
            /\ run[r].phase # "planned" => IsResult(run[r].result)
            /\ run[r].phase \in {"loaded", "writing"} => IsFile(run[r].payload)

\* "advance a state only when we have evidence that a notional filing can
\* reach the review/payment-prep stage without submitting anything": whatever
\* a portal shows, no script of any jurisdiction records a gate complete from
\* a page without a review screen, behind a challenge or a login, or with a
\* final submit on it.
CompleteIsSafe ==
    \A c \in DOMAIN load_certification_gate_overrides :
        LET result == load_certification_gate_overrides[c] IN
        (result.status = "complete" /\ result.by = "run") => result.seen = {"review"}

\* The statuses the scripts record and the list the worklist is made from do
\* not drift apart: a jurisdiction with an unfinished gate stays on the
\* worklist, unless a dry run was written for it, whose status is not on the
\* list.
UnfinishedIsListed ==
    (/\ \E c \in DOMAIN certification_gates :
          certification_gates[c] \notin {"complete", "absent"}
     /\ \A c \in DOMAIN certification_gates :
          certification_gates[c] # "pending_browser_certification")
    => next_certification_gate # "none"

\* The results on record: the file, or what its writer is about to put back.
Recorded ==
    IF gatesFile # Torn THEN gatesFile
    ELSE IF \E r \in Runs : run[r].phase = "writing"
         THEN run[CHOOSE r \in Runs : run[r].phase = "writing"].payload
    ELSE NoFile

\* A gate certified complete stays so, whatever is certified after it and
\* however the matrix changes, as long as no two certifiers overlap and none
\* dies while it writes the file.
CompletedStays ==
    [][~disturbed' =>
         \A c \in DOMAIN Recorded :
            Recorded[c].status = "complete" =>
               c \in DOMAIN Recorded' /\ Recorded'[c] = Recorded[c]]_vars

=============================================================================
