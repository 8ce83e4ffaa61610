---------------------------- MODULE Channels ----------------------------
(***************************************************************************)
(* The two one-way channels between the app's processes.  The UI process   *)
(* sends intents to GozarVpnService with startService; the :vpn process    *)
(* answers with the broadcasts of VpnBridge.  Android keeps each of them   *)
(* in order.  A START without a config is the null intent with which the   *)
(* system restarts a sticky service; DESTROY is the onDestroy call that    *)
(* the system queues behind the intents that came before stopSelf().       *)
(***************************************************************************)
EXTENDS Sequences, Naturals

CONSTANTS Configs,      \* the proxy configs a START can carry
          NoConfig,     \* the absent EXTRA_CONFIG
          AetherConfigs, \* configs that need the Aether engine
          TorConfigs,   \* configs that need the Tor engine
          MaxIntents,   \* bound: intents waiting for the service
          MaxBroadcasts \* bound: broadcasts waiting for the receiver

ASSUME ChannelAssumption ==
    /\ NoConfig \notin Configs
    /\ AetherConfigs \subseteq Configs
    /\ TorConfigs \subseteq Configs
    /\ MaxIntents \in Nat \ {0}
    /\ MaxBroadcasts \in Nat \ {0}

VARIABLES intents,      \* intents on their way to the service
          broadcasts    \* VpnBridge messages on their way to the UI process

Intent == [act : {"START", "STOP", "WARM", "DESTROY"}, cfg : Configs \cup {NoConfig}]

Message == {"connected", "error", "disconnected", "counters"}

Start(c) == [act |-> "START", cfg |-> c]
Stop     == [act |-> "STOP", cfg |-> NoConfig]
Warm     == [act |-> "WARM", cfg |-> NoConfig]
Destroy  == [act |-> "DESTROY", cfg |-> NoConfig]

\* What a client of the service can send.
Requests == {Start(c) : c \in Configs} \cup {Stop, Warm}

\* startService(intent): the intent queues up behind the earlier ones.
StartService(m) == /\ Len(intents) < MaxIntents
                   /\ intents' = Append(intents, m)

\* VpnBridge.send: one broadcast more for the receiver.
Broadcast(m) == /\ Len(broadcasts) < MaxBroadcasts
                /\ broadcasts' = Append(broadcasts, m)

ChannelsOK == /\ intents \in Seq(Intent)
              /\ broadcasts \in Seq(Message)
=============================================================================
