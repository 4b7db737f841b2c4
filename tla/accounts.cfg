CONSTANTS
    Home = "home"
    Servers = {"home", "away"}
    Users = {1}
    Most = 3
SPECIFICATION FairSpec
CHECK_DEADLOCK FALSE
INVARIANTS OwnLogin KeysAreTheDevices SettledIsTrue
PROPERTY ComesToRest
