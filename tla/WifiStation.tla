----------------------------- MODULE WifiStation ------------------------------
(***************************************************************************)
(* The WiFi connection of a module (wifi_connect.c).                       *)
(*                                                                         *)
(* The event handler runs in the system's event task.  It connects when    *)
(* the driver has started, connects again when the connection fails or     *)
(* breaks, at most MaximumRetry times in a row, and tells the main task by *)
(* two event bits, which nobody clears.                                    *)
(***************************************************************************)
EXTENDS Integers, Sequences

CONSTANT MaximumRetry                  \* 5 in the code

VARIABLES
    station,                   \* what the driver does: see TypeOK
    events,                    \* the event loop's queue
    s_retry_num,
    bits                       \* s_wifi_event_group

wifiVars == <<station, events, s_retry_num, bits>>

CONNECTED == "WIFI_CONNECTED_BIT"
FAIL == "WIFI_FAIL_BIT"

Init ==
    /\ station = "off"
    /\ events = <<>>
    /\ s_retry_num = 0
    /\ bits = {}

-----------------------------------------------------------------------------
(***************************************************************************)
(* The driver: it starts, an attempt fails or gets an address, and a       *)
(* connection may break at any time.                                       *)
(***************************************************************************)
Raise(e) == events' = Append(events, e) /\ UNCHANGED <<s_retry_num, bits>>

Start == station = "off" /\ station' = "started" /\ Raise("STA_START")
GetAddress == station = "connecting" /\ station' = "online" /\ Raise("STA_GOT_IP")
Disconnect ==
    station \in {"connecting", "online"} /\ station' = "idle" /\ Raise("STA_DISCONNECTED")

-----------------------------------------------------------------------------
(***************************************************************************)
(* event_handler                                                           *)
(***************************************************************************)
Take(e) == events # <<>> /\ Head(events) = e /\ events' = Tail(events)

esp_wifi_connect == station' = "connecting"

HandleStart ==
    /\ Take("STA_START")
    /\ esp_wifi_connect
    /\ UNCHANGED <<s_retry_num, bits>>

RetryLeft_Faulty == s_retry_num <= MaximumRetry        \* one too many
RetryLeft == s_retry_num < MaximumRetry

GiveUp_Faulty == UNCHANGED bits                        \* nobody is told
GiveUp == bits' = bits \cup {FAIL}

HandleDisconnected ==
    /\ Take("STA_DISCONNECTED")
    /\ IF RetryLeft
       THEN esp_wifi_connect /\ s_retry_num' = s_retry_num + 1 /\ UNCHANGED bits
       ELSE GiveUp /\ UNCHANGED <<station, s_retry_num>>

HandleGotIP ==
    /\ Take("STA_GOT_IP")
    /\ s_retry_num' = 0
    /\ bits' = bits \cup {CONNECTED}
    /\ UNCHANGED station

-----------------------------------------------------------------------------
Driver == Start \/ GetAddress \/ Disconnect
Handler == HandleStart \/ HandleDisconnected \/ HandleGotIP
Next == Driver \/ Handler

Online == station = "online"

TypeOK ==
    /\ station \in {"off", "started", "connecting", "online", "idle"}
    /\ events \in Seq({"STA_START", "STA_GOT_IP", "STA_DISCONNECTED"})
    /\ s_retry_num \in 0..MaximumRetry
    /\ bits \subseteq {CONNECTED, FAIL}

(* The station is never left without a connection and without anything     *)
(* that will change that, unless the main task has been told that it       *)
(* failed (wifi_connect.c:16-23).                                          *)
NeverStranded == station \in {"started", "idle"} /\ events = <<>> => FAIL \in bits
=============================================================================
