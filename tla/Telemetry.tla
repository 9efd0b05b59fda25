------------------------------ MODULE Telemetry ------------------------------
(***************************************************************************)
(* Telemetry of the chat (lib/chatTelemetry.ts, hooks/useChatTelemetry.ts, *)
(* the switch of components/UserSettings.tsx): the consent all tabs share, *)
(* each tab's copy of it, and events that wait for the next frame.  The    *)
(* contrast of two colours is a table.                                     *)
(***************************************************************************)
EXTENDS Naturals, FiniteSets

CONSTANTS Tabs,             \* tabs of the browser
          Colours,          \* colours of avatars and texts
          LightText, DarkText,   \* FALLBACK_LIGHT_TEXT, FALLBACK_DARK_TEXT
          Contrast,         \* calculateContrastRatio of two colours
          MinContrast,      \* MIN_CONTRAST_RATIO
          MaxEvents,        \* events emitted
          MaxSwitches       \* uses of the switch

ASSUME TelemetryAssumption ==
  /\ {LightText, DarkText} \subseteq Colours
  /\ Contrast \in [Colours \X Colours -> 0 .. MinContrast + 9]
  /\ MinContrast \in Nat /\ MaxEvents \in Nat /\ MaxSwitches \in Nat

VARIABLES consentKept,      \* the entry in localStorage is 'true'
          settingsOpen,     \* tabs whose settings are mounted
          consented,        \* what the switch of a tab shows
          framed,           \* events that wait for their tab's next frame
          dispatched,       \* events listeners were given
          emitted, switches

telemetryVars == <<consentKept, settingsOpen, consented, framed, dispatched, emitted,
                   switches>>

NoPayload == [background |-> "none", text |-> "none"]
Plain == [payload |-> NoPayload, ratio |-> 0, compliant |-> FALSE]

TelemetryInit ==
  /\ consentKept \in BOOLEAN
  /\ settingsOpen = {} /\ consented = [t \in Tabs |-> FALSE]
  /\ framed = {} /\ dispatched = {} /\ emitted = 0 /\ switches = 0

(* getAccessibleAvatarTextColor: the first of the preferred, the light and *)
(* the dark colour that no other of them beats, if it is readable.         *)
AccessibleText(background, preferred) ==
  LET ratio(c) == Contrast[<<c, background>>]
      best == IF ratio(LightText) > ratio(preferred) THEN LightText ELSE preferred
      bestOfAll == IF ratio(DarkText) > ratio(best) THEN DarkText ELSE best
  IN  IF ratio(bestOfAll) >= MinContrast THEN bestOfAll ELSE preferred

(* withAccessibleAvatarContrast: a payload without colours is left alone.  *)
WithContrast(payload) ==
  IF payload = NoPayload THEN Plain
  ELSE LET preferred == IF payload.text \in Colours THEN payload.text ELSE LightText
           text == AccessibleText(payload.background, preferred)
           ratio == Contrast[<<text, payload.background>>]
       IN  [payload |-> [payload EXCEPT !.text = text], ratio |-> ratio,
            compliant |-> ratio >= MinContrast]

(* emit: nothing without consent, else the event waits for a frame.        *)
Emit(t, payload) ==
  /\ emitted < MaxEvents /\ emitted' = emitted + 1
  /\ framed' = IF consentKept
               THEN framed \cup {[id |-> emitted', tab |-> t, event |-> WithContrast(payload)]}
               ELSE framed
  /\ UNCHANGED <<consentKept, settingsOpen, consented, dispatched, switches>>

(* requestAnimationFrame's callback looks at the consent again.            *)
Frame(e) ==
  /\ e \in framed /\ framed' = framed \ {e}
  /\ dispatched' = IF consentKept THEN dispatched \cup {e} ELSE dispatched
  /\ UNCHANGED <<consentKept, settingsOpen, consented, emitted, switches>>

(* The settings mount: the copy is read once.                              *)
OpenSettings(t) ==
  /\ t \notin settingsOpen /\ settingsOpen' = settingsOpen \cup {t}
  /\ consented' = [consented EXCEPT ![t] = consentKept]
  /\ UNCHANGED <<consentKept, framed, dispatched, emitted, switches>>

(* The switch sets the consent to the contrary of what it shows.           *)
SwitchConsent(t) ==
  /\ t \in settingsOpen
  /\ switches < MaxSwitches /\ switches' = switches + 1
  /\ consentKept' = ~consented[t]
  /\ consented' = [consented EXCEPT ![t] = ~@]
  /\ UNCHANGED <<settingsOpen, framed, dispatched, emitted>>

Payloads == {NoPayload} \cup [background : Colours, text : Colours \cup {"none"}]

TelemetryNext ==
  \/ \E t \in Tabs : OpenSettings(t) \/ SwitchConsent(t)
  \/ \E t \in Tabs, payload \in Payloads : Emit(t, payload)
  \/ \E e \in framed : Frame(e)

(***************************************************************************)
(* Properties                                                              *)
(***************************************************************************)
(* Telemetry's state is of its shape.                                       *)
TelemetryTypeOK ==
  /\ consentKept \in BOOLEAN /\ settingsOpen \subseteq Tabs
  /\ consented \in [Tabs -> BOOLEAN]
  /\ \A e \in framed \cup dispatched :
       /\ e.id \in 1 .. emitted /\ e.tab \in Tabs
       /\ e.event = Plain \/ e.event.payload.text \in Colours
  /\ emitted \in 0 .. MaxEvents /\ switches \in 0 .. MaxSwitches

=============================================================================
