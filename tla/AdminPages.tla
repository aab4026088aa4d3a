------------------------------ MODULE AdminPages ------------------------------
(***************************************************************************)
(* The pages that configure: AlertRules.tsx, IacSync.tsx and Settings.tsx.   *)
(* What is typed into a form is not modelled; a form that was saved shows    *)
(* what was saved.                                                           *)
(***************************************************************************)
EXTENDS PageParts

-----------------------------------------------------------------------------
(* AlertRules.tsx: one load fetches all three lists. *)

loadRules == Load([name |-> "loadRules", sets |-> {"rules", "history", "servers"}, spinner |-> "loading",
                   to |-> "view-alerts", route |-> Viewers])

saveRule     == Command([name |-> "saveRule", changes |-> {"rules"}, reloads |-> {"loadRules"}])
toggleEnable == Command([name |-> "toggleEnable", changes |-> {"rules"}, reloads |-> {"loadRules"}])
deleteRule   == Command([name |-> "deleteRule", changes |-> {"rules"}, reloads |-> {"loadRules"}])
\* The import uses the flag of the load it starts, and lowers it right after that.
parseXml     == Command([name |-> "parseXml", changes |-> {"rules"}, reloads |-> {"loadRules"}, flag |-> "loading"])

RuleForm == {Button("saveRule", "manage-alerts", {})}
XmlTab   == {Button("parseXml", "anyone", {})}
RulesTab == {RowButton("toggleEnable", "manage-alerts", {"loading"}),
             RowButton("deleteRule", "manage-alerts", {"loading"})}

AlertRules == Page([name |-> "AlertRules", sees |-> "view-alerts",
  loads    |-> {loadRules},
  commands |-> {saveRule, toggleEnable, deleteRule, parseXml},
  views    |-> RuleForm \cup XmlTab \cup RulesTab])

-----------------------------------------------------------------------------
(* IacSync.tsx: until the settings are loaded, a spinner is all there is. *)

loadSettings == Load([name |-> "loadSettings", sets |-> {"settings"}, ways |-> {"mount"}, to |-> "manage-gitsync",
                      route |-> Operators])
loadRuns     == Load([name |-> "loadRuns", sets |-> {"runs"}, to |-> "manage-gitsync", route |-> Viewers])

saveSettings   == Command([name |-> "saveSettings", changes |-> {"settings"}, patches |-> {"settings"},
                           flag |-> "saving", once |-> TRUE, route |-> Admins])
testRepository == Command([name |-> "testRepository", changes |-> {"testResult"}, replaces |-> {"testResult"},
                           flag |-> "testing", once |-> TRUE])
syncNow        == Command([name |-> "syncNow", changes |-> {"runs"}, reloads |-> {"loadRuns"},
                           flag |-> "syncing", once |-> TRUE])

SyncHeader   == {Button("syncNow", "manage-gitsync", {"syncing"})}
SettingsForm == {RowButton("saveSettings", "manage-gitsync", {"saving"}),
                 Button("testRepository", "manage-gitsync", {"testing"})}

IacSync == Page([name |-> "IacSync", sees |-> "manage-gitsync",
  loads    |-> {loadSettings, loadRuns},
  commands |-> {saveSettings, testRepository, syncNow},
  views    |-> SyncHeader \cup SettingsForm])

-----------------------------------------------------------------------------
(* Settings.tsx: the webhooks are loaded until that succeeded once, the users *)
(* whenever their tab is opened.                                              *)

loadNotificationSettings == Load([name |-> "loadNotificationSettings", sets |-> {"webhooks"}, ways |-> {"open"},
                                  to |-> "manage-users", route |-> Admins])
loadUsers == Load([name |-> "loadUsers", sets |-> {"users"}, ways |-> {"reopen", "call"}, spinner |-> "loading",
                   to |-> "manage-users", route |-> Operators])

saveNotificationSettings == Command([name |-> "saveNotificationSettings", changes |-> {"webhooks"},
                                     patches |-> {"webhooks"}, flag |-> "notifSaving", once |-> TRUE,
                                     route |-> Admins])
\* One test at a time, for either channel; all it brings is a message.
testWebhook   == Command([name |-> "testWebhook", changes |-> {"toast"}, replaces |-> {"toast"},
                          flag |-> "testingChannel", once |-> TRUE, route |-> Admins])
updateProfile == Command([name |-> "updateProfile", changes |-> {"user"}, replaces |-> {"user"},
                          flag |-> "profileSaving", once |-> TRUE, route |-> Roles])
saveUser      == Command([name |-> "saveUser", changes |-> {"users"}, reloads |-> {"loadUsers"},
                          flag |-> "userSaving", once |-> TRUE, route |-> Admins])
deleteUser    == Command([name |-> "deleteUser", changes |-> {"users"}, reloads |-> {"loadUsers"}, route |-> Admins])

ProfileTab       == {Button("updateProfile", "anyone", {"profileSaving"})}
AiTab            == {Button("updateProfile", "anyone", {"profileSaving"})}
NotificationsTab == {Button("testWebhook", "manage-users", {"testingChannel"}),
                     Button("saveNotificationSettings", "manage-users", {"notifSaving"})}
UsersTab         == {RowButton("deleteUser", "manage-users", {"loading"})}
UserForm         == {Button("saveUser", "manage-users", {"userSaving"})}

Settings == Page([name |-> "Settings", sees |-> "view-settings",
  loads    |-> {loadNotificationSettings, loadUsers},
  commands |-> {saveNotificationSettings, testWebhook, updateProfile, saveUser, deleteUser},
  views    |-> ProfileTab \cup AiTab \cup NotificationsTab \cup UsersTab \cup UserForm])
=============================================================================
