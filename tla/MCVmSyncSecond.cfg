SPECIFICATION Spec
CONSTANTS
    NServers = 2
    Guests = {"ga"}
    Site <- ClusterSite
    Home <- ClusterHome
    Clusters = {"cluster"}
    MaxChanges = 0
    MaxDeploys = 1
    MaxOutages = 0
    MaxCrashes = 0
PROPERTIES AddressKept
