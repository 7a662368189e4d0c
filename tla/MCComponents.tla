---------------------------- MODULE MCComponents ----------------------------
(***************************************************************************)
(* The components that need nothing of the loop but what LoopPromise       *)
(* promises, the upgrade, which runs on a thread of its own, the example   *)
(* and the parser it uses.  One of them is chosen at the start and the     *)
(* others rest: the run explores the sum of their states, not the product. *)
(*                                                                         *)
(* The LEDs and the ramp are those of the example: four LEDs (example/     *)
(* main.c:64), 50 steps (main.c:304), between the levels of its emergency  *)
(* light (main.c:150) and two others.                                      *)
(***************************************************************************)
EXTENDS SysLed, SysPwm, SysButton, SysUart, Upgrade, Example, MCJsonMessages

VARIABLE part

componentVars ==
    <<part, ledVars, pwmVars, buttonVars, uartVars, upgradeVars, exampleVars, jsonVars>>

JsonRests ==
    /\ msg = <<>> /\ taken = 0 /\ s = "JSON_INIT" /\ escaped = FALSE /\ recur = 0
    /\ stored = <<>> /\ entry = <<>>

MCInit ==
    /\ part \in {"led", "pwm", "button", "uart", "upgrade", "example", "json"}
    /\ a_sys_led_init
    /\ a_sys_pwm_init
    /\ ButtonInit
    /\ part = "button" \/ ~\E id \in Button : pressed[id]
    /\ UartInit
    /\ UpgradeInit
    /\ ExampleInit
    /\ IF part = "json" THEN a_json_init ELSE JsonRests

LedStep ==
    /\ part = "led"
    /\ LedNext
    /\ UNCHANGED <<part, pwmVars, buttonVars, uartVars, upgradeVars,
                   exampleVars, jsonVars>>

PwmStep ==
    /\ part = "pwm"
    /\ PwmNext
    /\ UNCHANGED <<part, ledVars, buttonVars, uartVars, upgradeVars,
                   exampleVars, jsonVars>>

ButtonStep ==
    /\ part = "button"
    /\ ButtonNext
    /\ UNCHANGED <<part, ledVars, pwmVars, uartVars, upgradeVars,
                   exampleVars, jsonVars>>

UartStep ==
    /\ part = "uart"
    /\ UartNext
    /\ UNCHANGED <<part, ledVars, pwmVars, buttonVars, upgradeVars,
                   exampleVars, jsonVars>>

UpgradeStep ==
    /\ part = "upgrade"
    /\ UpgradeNext
    /\ UNCHANGED <<part, ledVars, pwmVars, buttonVars, uartVars,
                   exampleVars, jsonVars>>

ExampleStep ==
    /\ part = "example"
    /\ ExampleNext
    /\ UNCHANGED <<part, ledVars, pwmVars, buttonVars, uartVars, upgradeVars, jsonVars>>

JsonStep ==
    /\ part = "json"
    /\ a_json_append_str_sized
    /\ UNCHANGED <<part, ledVars, pwmVars, buttonVars, uartVars, upgradeVars, exampleVars>>

MCNext ==
    LedStep \/ PwmStep \/ ButtonStep \/ UartStep \/ UpgradeStep \/ ExampleStep \/ JsonStep

\* The fairness of the components, for the one that was chosen.
MCFairness ==
    /\ WF_pwmVars(part = "pwm" /\ pwm_timer_callback)
    /\ \A id \in Button : WF_buttonVars(part = "button" /\ button_callback(id))
    /\ \A o \in Object :
          /\ SF_buttonVars(part = "button" /\ dispatch(o))
          /\ WF_buttonVars(part = "button" /\ (read_button(o) \/ button_recv_callback(o)))
    /\ WF_uartVars(part = "uart" /\ Worker)
    /\ WF_uartVars(part = "uart" /\ Callback)
    /\ WF_exampleVars(part = "example" /\ initial_led_blink_cb)

MCSpec == MCInit /\ [][MCNext]_componentVars /\ MCFairness

-----------------------------------------------------------------------------
\* The start-up of the example ends, when it is the example that runs.
ExampleStarts == part = "example" => MqttStarts

\* Every variable of the seven has its type: among them the LED counter, which
\* never goes below zero nor beyond the LEDs there are, the duty cycle, which is a
\* percentage, the table of buttons, the worker's one slot for a job, and what is
\* written to the flash slot, which fits there.
ComponentsTypeOK ==
    LedTypeOK /\ PwmTypeOK /\ ButtonTypeOK /\ UartTypeOK /\ UpgradeTypeOK /\ ExampleTypeOK /\ JsonTypeOK
=============================================================================
