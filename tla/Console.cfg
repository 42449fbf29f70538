SPECIFICATION Spec
CONSTANTS
    modules <- Modules
    offers <- Offers
    BuiltIn <- BuiltInMetrics
    Engine = "engine"
    Docker = "docker_plugin"
    DockerMetric = "docker.containers.running"
    Reports = {"ps", "logs", "count"}
    Walks = {"list", "search", "threads", "cpu", "mem", "info", "kill"}
    Thing = {a, b}
    Logged = a
    MaxChanges = 1
    MaxPid = 2
    MaxBorn = 3
    share <- Shares
    Hidden = {2}
    Limit = 1
INVARIANTS
    IInv
    PluginsAreContained
    AnswersAreTrue
    OnlyTheNamedIsKilled
    CommandsFindTheirWay
PROPERTIES
    EveryCommandIsAnswered
