CONSTANTS
    l1 = l1
    l2 = l2
    Libraries = {l1, l2}
    AppPlugins = {app}
    Directory <- MCDirectory
    MaxPlugins = 3
SPECIFICATION PluginSpec
INVARIANT
    DeregisteredIsGone
CHECK_DEADLOCK FALSE
