---------------------------- MODULE MCShellPages ----------------------------
(***************************************************************************)
(* The shell of the application and the pages that drive the machine under *)
(* it (local models, security, routing rules, the two chat pages), for     *)
(* TLC.  Each is checked on its own: `which` says which one moves, the     *)
(* others stay as they start.                                              *)
(***************************************************************************)
EXTENDS LocalModels, DesktopShell, SecurityPanels, ModelRouter, PhoneChat, DesktopChat

VARIABLE which

PagesInit ==
  /\ which \in {"models", "shell", "security", "router", "phone chat", "desktop chat"}
  /\ ModelInit /\ ShellInit /\ SecInit /\ RouterInit /\ PhoneChatInit /\ DesktopChatInit
  /\ which # "models" => ~ollama.installed
  /\ which # "shell" => prefs.lang = CHOOSE lang \in Langs : TRUE
  /\ which # "security" => machine.lan
  /\ which # "phone chat" => up = {} /\ chat = NewChat(CHOOSE m \in Machines : TRUE)
  /\ which # "desktop chat" => onlines = {} /\ pane = NewPane(CHOOSE g \in Gateways : TRUE)

Only(who) == which = who /\ UNCHANGED which

PagesNext ==
  \/ Only("models") /\ ModelNext /\ UNCHANGED <<shellvars, secvars, routervars, chatvars, deskvars>>
  \/ Only("shell") /\ ShellNext /\ UNCHANGED <<modelvars, secvars, routervars, chatvars, deskvars>>
  \/ Only("security") /\ SecNext /\ UNCHANGED <<modelvars, shellvars, routervars, chatvars, deskvars>>
  \/ Only("router") /\ RouterNext /\ UNCHANGED <<modelvars, shellvars, secvars, chatvars, deskvars>>
  \/ Only("phone chat") /\ PhoneChatNext /\ UNCHANGED <<modelvars, shellvars, secvars, routervars, deskvars>>
  \/ Only("desktop chat") /\ DesktopChatNext /\ UNCHANGED <<modelvars, shellvars, secvars, routervars, chatvars>>

pagesvars == <<which, modelvars, shellvars, secvars, routervars, chatvars, deskvars>>

(* Nothing is polled or probed while the phone's chat page is closed.         *)
PagesSpec == PagesInit /\ [][PagesNext]_pagesvars /\ PhoneChatFair

(* The shell opens on the route it was closed on, and says that an update is    *)
(* downloaded for as long as exactly one is.                                    *)
ShellIsTrue == RestoresLast /\ DownloadIsShown

(* What a page shows of the machine holds: a spinner belongs to a call that is  *)
(* in flight, the banner says "offline" only of a machine that is, the          *)
(* permissions on show are those stored, and the points on show add up to the   *)
(* score of the backend.                                                        *)
PanelsAreTrue == WaitingIsInFlight /\ BannerIsTrue /\ PermissionsAgree /\ BreakdownAgrees

(* The phone's chat follows the machine selected: a proxy that answers for      *)
(* another one is dropped, and a machine that answers is shown online whatever  *)
(* was shown before.                                                            *)
ChatFollows == DiscoveryIsCurrent /\ RecoversOnline
=============================================================================
