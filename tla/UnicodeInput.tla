---------------------------- MODULE UnicodeInput -----------------------------
(***************************************************************************)
(* One call of the tool that types text no key can send                     *)
(* (UnicodeTextInputTool.execute, tools/unicode_input.py) together with the  *)
(* helper input method that decodes it on the device                        *)
(* (UnicodeImeService.java).  The tool encodes the text in modified UTF-7,   *)
(* makes the helper the default input method, sends the code as key presses, *)
(* reads the field back, types once more if nothing landed, may press Enter  *)
(* and sets the previous input method again.                                *)
(*                                                                          *)
(* A character is "a" (sent as itself), "&" (the shift character) or "u"     *)
(* (anything that needs a base64 block); "U" is the payload of one "u".      *)
(* The packing of bits into base64 is left out: one payload per character.   *)
(***************************************************************************)
EXTENDS Naturals, Sequences

CONSTANTS
  Texts,      \* the texts callers ask for, legal or not
  Contents,   \* what the field may hold before
  MaxFaults   \* bound: calls of the device that fail and keys that are lost

Chars == {"a", "&", "u", "U", "-"}

ASSUME DataAssumption ==
  /\ Texts \subseteq Seq({"a", "&", "u"})
  /\ Contents \subseteq Seq({"a"})
  /\ MaxFaults \in Nat

VARIABLES
  call,     \* the arguments
  pc,       \* where execute() is
  helper,   \* the helper on the device: installed, enabled
  ime,      \* the default input method of the device
  previous, \* previous_ime_id
  before,   \* before_text
  field,    \* the text of the field
  wire,     \* key presses sent and not yet handled
  service,  \* UnicodeImeService: bound to the field, isShifted, encodedBlock
  typed,    \* injections so far
  result,   \* the error the call ends with, "ok", or "none"
  faults,   \* history: faults so far
  entered,  \* history: what the field held at each Enter
  clean,    \* history: every key of the injection reached the bound helper
  delayed   \* history: a key was handled after its command had ended

inputVars == <<call, pc, helper, ime, previous, before, field, wire, service,
               typed, result, faults, entered, clean, delayed>>
-----------------------------------------------------------------------------
(* The code of a text, and its decoding on the device.                      *)

\* encode_modified_utf7: a run of characters outside the direct set is one
\* block between "&" and "-".
Encode(text) ==
  LET n == Len(text)
      InBlock(i) == i \in 1..n /\ text[i] = "u"
      Keys(i) == IF text[i] = "&" THEN <<"&", "-">>
                 ELSE IF text[i] = "a" THEN <<"a">>
                 ELSE (IF InBlock(i - 1) THEN <<>> ELSE <<"&">>) \o <<"U">>
                      \o (IF InBlock(i + 1) THEN <<>> ELSE <<"-">>)
      code[i \in 0..n] == IF i = 0 THEN <<>> ELSE code[i - 1] \o Keys(i)
  IN code[n]

\* decodeUtf7 of a buffer that ends with its only "-".  A buffer that was
\* cleared in the middle of a block has no leading "&", and a payload with a
\* character outside the alphabet is returned as it is.
Decode(buffer) ==
  LET shifts == {i \in DOMAIN buffer : buffer[i] = "&"}
  IN IF shifts = {} THEN buffer
     ELSE LET s == CHOOSE i \in shifts : \A j \in shifts : i <= j
              prefix == SubSeq(buffer, 1, s - 1)
              block == SubSeq(buffer, s + 1, Len(buffer) - 1)
          IN IF block = <<>> THEN Append(prefix, "&")
             ELSE IF \A i \in DOMAIN block : block[i] = "U"
                  THEN prefix \o [i \in DOMAIN block |-> "u"]
             ELSE buffer

\* validate_unicode_text: pure ASCII goes through input.text.
LegalText(text) == \E i \in DOMAIN text : text[i] # "a"

Expected == before \o call.text
-----------------------------------------------------------------------------
Unbound == [bound |-> FALSE, shifted |-> FALSE, block |-> <<>>]

InputInit ==
  /\ call \in [text : Texts, confirmed : BOOLEAN, submit : BOOLEAN]
  /\ pc = "validate"
  /\ helper \in [installed : {"yes", "soon", "no"}, enabled : BOOLEAN]
  /\ ime \in {"user", "helper"}
  /\ ime = "helper" => helper = [installed |-> "yes", enabled |-> TRUE]
  /\ previous = "none"
  /\ before = <<>>
  /\ field \in Contents
  /\ wire = <<>>
  /\ service = Unbound
  /\ typed = 0
  /\ result = "none"
  /\ faults = 0
  /\ entered = <<>>
  /\ clean = TRUE
  /\ delayed = FALSE

\* A call of the adapter fails: adb reports an error or does not answer in
\* time.  The device may have done what it was asked to do all the same.
Fault == faults < MaxFaults /\ faults' = faults + 1

Reject(error) == pc' = "done" /\ result' = error
\* An error inside the try block: the previous input method comes back.
Fail(error)   == pc' = "restore" /\ result' = error

\* onStartInput of the helper for a field of its own.
DefaultIme(i) == ime' = i /\ service' = Unbound

\* ime set: it may do nothing and report success.
SetIme(i) == DefaultIme(i) \/ UNCHANGED <<ime, service>>
-----------------------------------------------------------------------------
(* The checks of a call, before the device is touched.                      *)

ValidateText ==
  /\ pc = "validate"
  /\ \/ /\ ~LegalText(call.text)
        /\ Reject("INVALID_ARGUMENT")
        /\ UNCHANGED faults
     \/ /\ LegalText(call.text)
        /\ Fault
        /\ Reject("DEVICE_OFFLINE")
     \/ /\ LegalText(call.text) /\ ~call.confirmed
        /\ Reject("CONFIRMATION_REQUIRED")
        /\ UNCHANGED faults
     \/ /\ LegalText(call.text) /\ call.confirmed
        /\ pc' = "resolve"
        /\ UNCHANGED <<result, faults>>
  /\ UNCHANGED <<call, helper, ime, previous, before, field, wire, service,
                 typed, entered, clean, delayed>>

\* _resolve_helper looks twice, a second apart: a package just installed may
\* not be listed the first time.
ResolveHelper ==
  /\ pc = "resolve"
  /\ \/ helper.installed \in {"yes", "soon"} /\ pc' = "before"
        /\ UNCHANGED <<result, faults>>
     \/ helper.installed = "no" /\ Reject("IME_HELPER_NOT_INSTALLED")
        /\ UNCHANGED faults
     \/ Fault /\ Reject("IME_SWITCH_FAILED")
  /\ UNCHANGED <<call, helper, ime, previous, before, field, wire, service,
                 typed, entered, clean, delayed>>

\* The first look and locate_editable_target.
LookBefore ==
  /\ pc = "before"
  /\ \/ before' = field /\ pc' = "previous" /\ UNCHANGED <<result, faults>>
     \/ Fault /\ Reject("TARGET_NOT_FOUND") /\ UNCHANGED before
  /\ UNCHANGED <<call, helper, ime, previous, field, wire, service, typed,
                 entered, clean, delayed>>

ReadPrevious ==
  /\ pc = "previous"
  /\ \/ previous' = ime /\ pc' = "enable" /\ UNCHANGED <<result, faults>>
     \/ Fault /\ Reject("IME_SWITCH_FAILED") /\ UNCHANGED previous
  /\ UNCHANGED <<call, helper, ime, before, field, wire, service, typed,
                 entered, clean, delayed>>

-----------------------------------------------------------------------------
(* _activate_helper runs before the try block: its errors restore nothing.  *)

EnableHelper ==
  /\ pc = "enable"
  /\ \/ pc' = "set" /\ helper' = [helper EXCEPT !.enabled = TRUE]
        /\ UNCHANGED <<result, faults>>
     \/ Fault /\ Reject("IME_SWITCH_FAILED")
        /\ \/ helper' = [helper EXCEPT !.enabled = TRUE]
           \/ UNCHANGED helper
  /\ UNCHANGED <<call, ime, previous, before, field, wire, service, typed,
                 entered, clean, delayed>>

SetHelper ==
  /\ pc = "set"
  /\ \/ pc' = "check" /\ DefaultIme("helper") /\ UNCHANGED <<result, faults>>
     \/ pc' = "check" /\ Fault /\ UNCHANGED <<ime, service, result>>
     \/ Fault /\ Reject("IME_SWITCH_FAILED") /\ SetIme("helper")
  /\ UNCHANGED <<call, helper, previous, before, field, wire, typed,
                 entered, clean, delayed>>

CheckHelper ==
  /\ pc = "check"
  /\ \/ ime = "helper" /\ pc' = "tap" /\ UNCHANGED <<result, faults>>
     \/ ime # "helper" /\ Reject("IME_SWITCH_FAILED") /\ UNCHANGED faults
     \/ Fault /\ Reject("IME_SWITCH_FAILED")
  /\ UNCHANGED <<call, helper, ime, previous, before, field, wire, service,
                 typed, entered, clean, delayed>>
-----------------------------------------------------------------------------
(* Typing.                                                                  *)

Tap ==
  /\ pc = "tap"
  /\ \/ pc' = "type" /\ UNCHANGED <<result, faults>>
     \/ Fault /\ Fail("ACTION_FAILED")
  /\ UNCHANGED <<call, helper, ime, previous, before, field, wire, service,
                 typed, entered, clean, delayed>>

\* input_text, behind what is left of an earlier command.
InputText ==
  /\ pc \in {"type", "retype"}
  /\ pc' = "typing"
  /\ wire' = wire \o Encode(call.text)
  /\ typed' = typed + 1
  /\ clean' = (field = before /\ wire = <<>> /\ ~service.shifted)
  /\ UNCHANGED <<call, helper, ime, previous, before, field, service,
                 result, faults, entered, delayed>>

\* The command ends when its keys are handled, or reports success earlier: the
\* device stops waiting for a key that the field is slow to take.
Typed ==
  /\ pc = "typing"
  /\ \/ wire = <<>> /\ UNCHANGED <<faults, clean>>
     \/ wire # <<>> /\ Fault /\ clean' = FALSE
  /\ pc' = IF typed = 1 THEN "verify" ELSE "last_verify"
  /\ UNCHANGED <<call, helper, ime, previous, before, field, wire, service,
                 typed, result, entered, delayed>>

\* The command does not end in time, or fails; keys may still arrive.
TypingFails ==
  /\ pc = "typing"
  /\ Fault
  /\ Fail("ACTION_TIMEOUT")
  /\ UNCHANGED <<call, helper, ime, previous, before, field, wire, service,
                 typed, entered, clean, delayed>>

\* The helper, once it is the default, is bound to the field some time later.
Bind ==
  /\ ime = "helper" /\ ~service.bound
  /\ pc \in {"tap", "type", "typing", "verify", "reread", "retype",
             "last_verify", "submit", "restore"}
  /\ service' = [bound |-> TRUE, shifted |-> FALSE, block |-> <<>>]
  /\ UNCHANGED <<call, pc, helper, ime, previous, before, field, wire,
                 typed, result, faults, entered, clean, delayed>>

\* onStartInput with restarting: the block goes, the shift stays.  onFinishInput:
\* the block goes with the field; the next field (Bind) starts unshifted.
RestartInput ==
  /\ service.bound /\ pc = "typing"
  /\ Fault
  /\ \/ service' = [service EXCEPT !.block = <<>>]
     \/ service' = [service EXCEPT !.block = <<>>, !.bound = FALSE]
  /\ clean' = FALSE
  /\ UNCHANGED <<call, pc, helper, ime, previous, before, field, wire,
                 typed, result, entered, delayed>>

\* onKeyDown of the helper.
OnKeyDown(c) ==
  LET buffer == Append(service.block, c) IN
  IF ~service.shifted
  THEN IF c = "&"
       THEN service' = [service EXCEPT !.shifted = TRUE, !.block = <<"&">>]
            /\ UNCHANGED field
       ELSE field' = Append(field, c) /\ UNCHANGED service
  ELSE IF c = "-"
       THEN service' = [service EXCEPT !.shifted = FALSE, !.block = <<>>]
            /\ field' = field \o Decode(buffer)
       ELSE service' = [service EXCEPT !.block = buffer] /\ UNCHANGED field

\* Keys of a helper without a field are dropped; keys that arrive after the
\* previous input method is back are typed as they are.  Keys can arrive between
\* two read-backs, and in the pause before the text is sent again.
Key ==
  /\ wire # <<>>
  /\ wire' = Tail(wire)
  /\ delayed' = (delayed \/ pc # "typing")
  /\ \/ ime = "helper" /\ service.bound /\ OnKeyDown(Head(wire))
        /\ UNCHANGED clean
     \/ ime = "helper" /\ ~service.bound /\ clean' = FALSE
        /\ UNCHANGED <<field, service>>
     \/ ime = "user" /\ field' = Append(field, Head(wire)) /\ clean' = FALSE
        /\ UNCHANGED service
  /\ UNCHANGED <<call, pc, helper, ime, previous, before, typed, result,
                 faults, entered>>
-----------------------------------------------------------------------------
(* Reading back.  The dump may show the field under its selector, under      *)
(* another one (the page was rebuilt), not at all, or twice.                 *)

Shown == {"matched", "renamed", "absent", "twice"}

\* Mutant: the fallback takes the field whatever it shows.
VerifiesAnyText(shown) ==
  shown = "renamed" \/ (shown = "matched" /\ field = Expected)

\* _verify_readback falls back on the one editable field that shows exactly
\* what is expected.
Verifies(shown) == shown \in {"matched", "renamed"} /\ field = Expected

\* Of a read-back that failed.
NodeAbsent(shown) == shown \in {"renamed", "absent"}
NothingLanded(shown) == shown = "matched" /\ field = before

AfterVerified == pc' = IF call.submit THEN "submit" ELSE "restore"

Verify ==
  /\ pc \in {"verify", "reread", "last_verify"}
  /\ \/ \E shown \in Shown :
          \/ /\ Verifies(shown)
             /\ AfterVerified
             /\ result' = "ok"
          \/ /\ ~Verifies(shown)
             /\ pc = "verify" /\ NodeAbsent(shown)
             /\ pc' = "reread"
             /\ UNCHANGED result
          \/ /\ ~Verifies(shown)
             /\ pc # "last_verify" /\ ~(pc = "verify" /\ NodeAbsent(shown))
             /\ NothingLanded(shown)
             /\ pc' = "retype"
             /\ UNCHANGED result
          \/ /\ ~Verifies(shown)
             /\ \/ pc = "last_verify"
                \/ ~(pc = "verify" /\ NodeAbsent(shown)) /\ ~NothingLanded(shown)
             /\ Fail("TEXT_INPUT_NOT_VERIFIED")
        /\ UNCHANGED faults
     \/ Fault /\ Fail("OBSERVATION_FAILED")
  /\ UNCHANGED <<call, helper, ime, previous, before, field, wire, service,
                 typed, entered, clean, delayed>>

\* press_enter, never repeated.
Submit ==
  /\ pc = "submit"
  /\ \/ pc' = "restore" /\ entered' = Append(entered, field)
        /\ UNCHANGED <<result, faults>>
     \/ /\ Fault /\ Fail("ACTION_FAILED")
        /\ \/ entered' = Append(entered, field)
           \/ UNCHANGED entered
  /\ UNCHANGED <<call, helper, ime, previous, before, field, wire, service,
                 typed, clean, delayed>>
-----------------------------------------------------------------------------
(* _restore_input_method, in the finally block; its error hides any other.  *)

RestoreSet ==
  /\ pc = "restore"
  /\ \/ pc' = "restore_check" /\ DefaultIme(previous)
        /\ UNCHANGED <<result, faults>>
     \/ pc' = "restore_check" /\ Fault /\ UNCHANGED <<ime, service, result>>
     \/ Fault /\ Reject("IME_RESTORE_FAILED") /\ SetIme(previous)
  /\ UNCHANGED <<call, helper, previous, before, field, wire, typed,
                 entered, clean, delayed>>

\* Mutant: the restored input method is not read back.
RestoreUnchecked ==
  /\ pc = "restore_check"
  /\ pc' = "done"
  /\ UNCHANGED <<call, helper, ime, previous, before, field, wire, service,
                 typed, result, faults, entered, clean, delayed>>

RestoreCheck ==
  /\ pc = "restore_check"
  /\ \/ ime = previous /\ pc' = "done" /\ UNCHANGED <<result, faults>>
     \/ ime # previous /\ Reject("IME_RESTORE_FAILED") /\ UNCHANGED faults
     \/ Fault /\ Reject("IME_RESTORE_FAILED")
  /\ UNCHANGED <<call, helper, ime, previous, before, field, wire, service,
                 typed, entered, clean, delayed>>

Device == Key \/ Bind \/ RestartInput

Tool ==
  \/ ValidateText \/ ResolveHelper \/ LookBefore \/ ReadPrevious
  \/ EnableHelper \/ SetHelper \/ CheckHelper
  \/ Tap \/ InputText \/ Typed \/ TypingFails \/ Verify \/ Submit
  \/ RestoreSet \/ RestoreCheck

InputNext == Tool \/ Device
InputSpec == InputInit /\ [][InputNext]_inputVars
-----------------------------------------------------------------------------
InputTypeOK ==
  /\ call \in [text : Texts, confirmed : BOOLEAN, submit : BOOLEAN]
  /\ pc \in {"validate", "resolve", "before", "previous", "enable", "set",
             "check", "tap", "type", "typing", "verify", "reread", "retype",
             "last_verify", "submit", "restore", "restore_check", "done"}
  /\ helper \in [installed : {"yes", "soon", "no"}, enabled : BOOLEAN]
  /\ ime \in {"user", "helper"}
  /\ previous \in {"none", "user", "helper"}
  /\ before \in Seq(Chars) /\ field \in Seq(Chars) /\ wire \in Seq(Chars)
  /\ service \in [bound : BOOLEAN, shifted : BOOLEAN, block : Seq(Chars)]
  /\ typed \in 0..2
  /\ result \in {"none", "ok", "INVALID_ARGUMENT", "DEVICE_OFFLINE",
                 "CONFIRMATION_REQUIRED", "IME_HELPER_NOT_INSTALLED",
                 "IME_SWITCH_FAILED", "TARGET_NOT_FOUND", "ACTION_FAILED",
                 "ACTION_TIMEOUT", "OBSERVATION_FAILED",
                 "TEXT_INPUT_NOT_VERIFIED", "IME_RESTORE_FAILED"}
  /\ faults \in 0..MaxFaults
  /\ entered \in Seq(Seq(Chars))
  /\ clean \in BOOLEAN
  /\ delayed \in BOOLEAN

\* A call that reports success left exactly one copy of the text behind what
\* the field held, whatever keys were lost and however often it was typed -
\* unless a key arrived after its command had ended.
SuccessIsExact == result = "ok" /\ pc = "done" /\ ~delayed => field = Expected

\* Enter is pressed at most once, and only on a field that holds the whole text:
\* a search is never submitted with part of it, unless a key arrived late.
SubmittedWhole ==
  [][entered' # entered => entered = <<>> /\ (delayed \/ field = Expected)]_inputVars

\* The comment of the retry (tools/unicode_input.py:197): a read-back that shows
\* the original text means that the injection is lost as a whole.  So the text is
\* sent again only into a field as it was, with no key of the first on its way.
RetypedOnlyIntoOriginal ==
  [][typed = 1 /\ typed' = 2 => field = before /\ wire = <<>>]_inputVars

\* Encoder and decoder agree: keys that all reach a fresh helper leave exactly
\* the text.
CleanTypingIsExact ==
  pc \in {"verify", "last_verify"} /\ clean => field = Expected

\* Once the helper is active, a call that ends has put the previous input
\* method back or says that it could not.
RestoredOrReported ==
  pc = "done" /\ typed > 0 => ime = previous \/ result = "IME_RESTORE_FAILED"

\* ADR 0019: the previous input method is restored by every call, or the call
\* says so; the device is never left on the helper in silence.
NeverLeftInSilence ==
  pc = "done" /\ previous = "user" /\ ime = "helper"
    => result = "IME_RESTORE_FAILED"
=============================================================================
